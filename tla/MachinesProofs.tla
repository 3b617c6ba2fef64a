--------------------------- MODULE MachinesProofs ---------------------------
(***************************************************************************)
(* The programs that run by themselves, without bounds: the linked list for *)
(* any number of boxes, any values and any mix of operations, iterators and *)
(* drops; the roguelike for any map size, rooms and monsters; the editor    *)
(* for any file, screen and sequence of keys.                               *)
(***************************************************************************)
EXTENDS LinkedList, Roguelike, TextEditor, Integers, BoundedInduction, FiniteSetTheorems, SequenceTheorems

-----------------------------------------------------------------------------
(* The linked list *)

Node == [elem : Elems, next : Boxes \cup {NoBox}]

HeapOk(h) == DOMAIN h \subseteq Boxes /\ h \in [DOMAIN h -> Node]

\* The link that leads to the k-th box of s.
Link(s, k) == IF k <= Len(s) THEN s[k] ELSE NoBox

\* Link p leads along the boxes of s, in order, to an empty link.
Chain(h, p, s) ==
    /\ s \in Seq(Boxes) /\ \A k \in 1 .. Len(s) : s[k] \in DOMAIN h
    /\ p = Link(s, 1)
    /\ \A k \in 1 .. Len(s) : h[s[k]].next = Link(s, k + 1)

\* The chain passes every live box once.
Spine(h, p, s) ==
    /\ Chain(h, p, s)
    /\ \A i, j \in 1 .. Len(s) : s[i] = s[j] => i = j
    /\ \A q \in DOMAIN h : \E k \in 1 .. Len(s) : s[k] = q

\* An iterator that has yielded n elements stands at the link behind them.
Along(h, s) ==
    holder \in {"iter", "iter_mut"} =>
      /\ seen \in Seq(Elems) /\ Len(seen) <= Len(s) /\ next = Link(s, Len(seen) + 1)
      /\ \A k \in 1 .. Len(seen) :
           h[s[k]].elem = IF holder = "iter" THEN seen[k] ELSE Mutate(seen[k])

Root == IF holder = "drop" THEN next ELSE head

Held ==
    /\ holder \in {"user", "iter", "iter_mut", "into_iter", "drop"}
    /\ holder = "drop" => head = NoBox
    /\ holder \in {"user", "into_iter"} => next = NoBox
    /\ depth \in {0, 1}

HasSpine == \E s : Spine(heap, Root, s) /\ Along(heap, s)

IndInv == HeapOk(heap) /\ Held /\ HasSpine

-----------------------------------------------------------------------------
(* Owned *)

Links == Boxes \cup {NoBox}

\* What Owned finds within n boxes, from what it finds within n - 1.
Turn(h, x) == [q \in Links |-> IF q \notin DOMAIN h THEN << >> ELSE <<q>> \o x[h[q].next]]

Finds(h, f) ==
    /\ f[0] = [q \in Links |-> << >>]
    /\ \A n \in 1 .. MaxNodes : f[n] = Turn(h, f[n - 1])

LEMMA NextIsLink ==
    ASSUME NEW h, HeapOk(h), NEW q \in DOMAIN h
    PROVE  q \in Boxes /\ h[q].next \in Links /\ h[q].elem \in Elems
BY DEF HeapOk, Node, Links

\* The recursive function in Owned is what its definition says.
LEMMA OwnedFinds ==
    ASSUME NEW h, HeapOk(h), NEW p
    PROVE  \E f : Finds(h, f) /\ Owned(h, p) = f[MaxNodes][p]
<1> DEFINE L == MaxNodes
           Q == [Links -> Seq(Boxes)]
           Empty == [q \in Links |-> << >>]
           From(g) == [n \in 0 .. L |-> [q \in Boxes \cup {NoBox} |->
                          IF n = 0 \/ q \notin DOMAIN h THEN << >> ELSE <<q>> \o g[n - 1][h[q].next]]]
           from == CHOOSE g : g = From(g)
           step == [x \in (1 .. L) \X Q |-> Turn(h, x[2])]
<1>1. L \in Nat
  BY MutateAssumption
<1>2. Empty \in Q
  <2>1. << >> \in Seq(Boxes)
    OBVIOUS
  <2>2. QED BY <2>1
<1>3. \A x \in Q : Turn(h, x) \in Q
  <2> SUFFICES ASSUME NEW x \in Q, NEW q \in Links
               PROVE  (IF q \notin DOMAIN h THEN << >> ELSE <<q>> \o x[h[q].next]) \in Seq(Boxes)
    BY DEF Turn
  <2>1. CASE q \in DOMAIN h
    <3>1. q \in Boxes /\ h[q].next \in Links
      BY <2>1, NextIsLink
    <3>2. x[h[q].next] \in Seq(Boxes) /\ <<q>> \in Seq(Boxes)
      BY <3>1
    <3>3. <<q>> \o x[h[q].next] \in Seq(Boxes)
      BY <3>2, ConcatProperties
    <3>4. QED BY <2>1, <3>3
  <2>2. QED BY <2>1
<1>4. Owned(h, p) = from[L][p]
  BY DEF Owned
<1> HIDE DEF L, Q
<1>5. \A g : \A n \in 1 .. L : From(g)[n] = Turn(h, g[n - 1])
  <2> SUFFICES ASSUME NEW g, NEW n \in 1 .. L
               PROVE  From(g)[n] = Turn(h, g[n - 1])
    OBVIOUS
  <2>1. n \in 0 .. L /\ n # 0
    BY <1>1
  <2>2. QED BY <2>1 DEF Turn, Links
<1>6. \A g : From(g)[0] = Empty
  <2>1. 0 \in 0 .. L
    BY <1>1
  <2>2. QED BY <2>1 DEF Links
<1>7. \E g : g = From(g)
  <2>1. step \in [(1 .. L) \X Q -> Q]
    BY <1>1, <1>3
  <2>2. PICK g \in [0 .. L -> Q] : g[0] = Empty /\ \A n \in 1 .. L : g[n] = step[<<n, g[n - 1]>>]
    <3> HIDE DEF step, Empty
    <3>1. HasRun(Q, Empty, L, step)
      BY <1>1, <1>2, <2>1, LoopRuns
    <3>2. QED BY <3>1 DEF HasRun
  <2>3. ASSUME NEW n \in 1 .. L
        PROVE  g[n] = Turn(h, g[n - 1])
    <3>1. n - 1 \in 0 .. L /\ g[n - 1] \in Q
      BY <1>1
    <3>2. step[<<n, g[n - 1]>>] = Turn(h, g[n - 1])
      BY <3>1
    <3>3. QED BY <2>2, <3>2
  <2>4. \A n \in 0 .. L : g[n] = From(g)[n]
    <3> HIDE DEF From, step, Empty
    <3>1. \A n \in 0 .. L : n = 0 \/ n \in 1 .. L
      BY <1>1
    <3>2. QED BY <3>1, <2>2, <2>3, <1>5, <1>6
  <2>5. DOMAIN g = 0 .. L /\ DOMAIN From(g) = 0 .. L
    OBVIOUS
  <2>6. g = From(g)
    <3>1. From(g) = [n \in 0 .. L |-> From(g)[n]]
      OBVIOUS
    <3>2. g = [n \in 0 .. L |-> g[n]]
      OBVIOUS
    <3> HIDE DEF From
    <3>3. QED BY <3>1, <3>2, <2>4
  <2>7. QED BY <2>6
<1>8. from = From(from)
  <2> HIDE DEF From
  <2> QED BY <1>7
<1> HIDE DEF from, From
<1>9. Finds(h, from)
  BY <1>5, <1>6, <1>8 DEF Finds, L
<1>10. QED BY <1>4, <1>9 DEF L

\* Owned returns the chain of a link that has one.
LEMMA OwnedIs ==
    ASSUME NEW h, HeapOk(h), NEW p, NEW s, Chain(h, p, s), Len(s) <= MaxNodes
    PROVE  Owned(h, p) = s
<1> DEFINE L == Len(s)
<1>1. PICK f : Finds(h, f) /\ Owned(h, p) = f[MaxNodes][p]
  BY OwnedFinds
<1>2. s \in Seq(Boxes) /\ L \in Nat /\ MaxNodes \in Nat /\ NoBox \notin DOMAIN h
  BY MutateAssumption DEF Chain, HeapOk, Boxes, NoBox
<1>3. \A k \in 1 .. L : s[k] \in DOMAIN h /\ s[k] \in Links /\ h[s[k]].next = Link(s, k + 1)
  BY NextIsLink DEF Chain, Links
<1> DEFINE In == {n \in 0 .. L : \A m \in n .. MaxNodes : f[m][Link(s, L - n + 1)] = SubSeq(s, L - n + 1, L)}
<1>4. 0 \in In
  <2>1. L - 0 + 1 = L + 1 /\ Link(s, L + 1) = NoBox
    BY <1>2 DEF Link
  <2>2. SubSeq(s, L + 1, L) = << >>
    BY <1>2, SubSeqEmpty
  <2>3. ASSUME NEW m \in 0 .. MaxNodes
        PROVE  f[m][NoBox] = << >>
    <3>1. NoBox \in Links
      BY DEF Links
    <3>2. CASE m = 0
      BY <3>1, <3>2, <1>1 DEF Finds
    <3>3. CASE m # 0
      <4>1. m \in 1 .. MaxNodes
        BY <3>3
      <4>2. f[m] = Turn(h, f[m - 1])
        BY <4>1, <1>1 DEF Finds
      <4>3. QED BY <4>2, <3>1, <1>2 DEF Turn
    <3>4. QED BY <3>2, <3>3
  <2>4. \A m \in 0 .. MaxNodes : f[m][Link(s, L - 0 + 1)] = SubSeq(s, L - 0 + 1, L)
    BY <2>1, <2>2, <2>3
  <2>5. 0 \in 0 .. L
    BY <1>2
  <2>6. QED BY <2>4, <2>5
<1>5. ASSUME NEW n \in 1 .. L, n - 1 \in In
      PROVE  n \in In
  <2> DEFINE i == L - n + 1
  <2>1. i \in 1 .. L /\ L - (n - 1) + 1 = i + 1
    BY <1>2
  <2>2. ASSUME NEW m \in n .. MaxNodes
        PROVE  f[m][Link(s, i)] = SubSeq(s, i, L)
    <3>1. m \in 1 .. MaxNodes /\ m - 1 \in n - 1 .. MaxNodes
      BY <1>2
    <3>2. f[m - 1][Link(s, i + 1)] = SubSeq(s, i + 1, L)
      BY <1>5, <2>1, <3>1
    <3>3. f[m] = Turn(h, f[m - 1])
      BY <3>1, <1>1 DEF Finds
    <3>4. Link(s, i) = s[i]
      BY <2>1, <1>2 DEF Link
    <3>5. f[m][s[i]] = <<s[i]>> \o f[m - 1][Link(s, i + 1)]
      BY <3>3, <2>1, <1>3 DEF Turn
    <3>6. SubSeq(s, i, L) = <<s[i]>> \o SubSeq(s, i + 1, L)
      BY <1>2, <2>1, SubSeqRecursiveFirst
    <3>7. QED BY <3>2, <3>4, <3>5, <3>6
  <2>3. QED BY <2>2, <1>2
<1>6. L \in In
  <2> HIDE DEF In
  <2>1. \A n \in 0 .. L : n \in In
    BY <1>2, <1>4, <1>5, UpTo
  <2>2. QED BY <2>1, <1>2
<1>7. f[MaxNodes][Link(s, 1)] = SubSeq(s, 1, L)
  <2>1. MaxNodes \in L .. MaxNodes /\ L - L + 1 = 1
    BY <1>2
  <2>2. QED BY <1>6, <2>1
<1>8. SubSeq(s, 1, L) = s
  BY <1>2, SubSeqFull
<1>9. QED BY <1>1, <1>7, <1>8 DEF Chain

-----------------------------------------------------------------------------
(* Chains *)

\* A chain that passes no box twice fits into the boxes.
LEMMA SpineFits ==
    ASSUME NEW h, HeapOk(h), NEW p, NEW s, Spine(h, p, s)
    PROVE  Len(s) \in Nat /\ Len(s) <= MaxNodes /\ Len(s) = Cardinality(DOMAIN h)
<1>1. /\ s \in Seq(Boxes) /\ Len(s) \in Nat /\ MaxNodes \in Nat /\ DOMAIN h \in SUBSET Boxes
      /\ DOMAIN s = 1 .. Len(s)
  BY MutateAssumption DEF Spine, Chain, HeapOk
<1>2. s \in [1 .. Len(s) -> DOMAIN h]
  BY <1>1 DEF Spine, Chain
<1>3. s \in Injection(1 .. Len(s), DOMAIN h)
  BY <1>2, Zenon DEF Injection, IsInjective, Spine
<1>4. s \in Surjection(1 .. Len(s), DOMAIN h)
  BY <1>2, Zenon DEF Surjection, Spine
<1>5. IsFiniteSet(Boxes) /\ Cardinality(Boxes) = MaxNodes
  BY <1>1, FS_Interval DEF Boxes
<1>6. IsFiniteSet(DOMAIN h) /\ Cardinality(DOMAIN h) <= MaxNodes
  BY <1>1, <1>5, FS_Subset
<1>7. Cardinality(1 .. Len(s)) = Cardinality(DOMAIN h)
  BY <1>3, <1>4, <1>6, FS_Injection
<1>8. Cardinality(1 .. Len(s)) = Len(s)
  BY <1>1, FS_Interval
<1>9. QED BY <1>1, <1>6, <1>7, <1>8

\* Every link on a chain has the rest of it.
LEMMA ChainRest ==
    ASSUME NEW h, NEW p, NEW s, Chain(h, p, s), NEW n \in 0 .. Len(s)
    PROVE  /\ Chain(h, Link(s, n + 1), SubSeq(s, n + 1, Len(s)))
           /\ Len(SubSeq(s, n + 1, Len(s))) = Len(s) - n
           /\ \A k \in 1 .. Len(s) - n : SubSeq(s, n + 1, Len(s))[k] = s[n + k]
<1> DEFINE L == Len(s)
           t == SubSeq(s, n + 1, L)
<1>1. s \in Seq(Boxes) /\ L \in Nat /\ \A k \in 1 .. L : s[k] \in Boxes
  BY DEF Chain
<1>2. t \in Seq(Boxes) /\ Len(t) = L - n /\ \A k \in 1 .. L - n : t[k] = s[n + k]
  <2>1. \A k \in n + 1 .. L : s[k] \in Boxes
    BY <1>1
  <2>2. n + 1 \in Int /\ L \in Int /\ L - (n + 1) + 1 = L - n
    BY <1>1
  <2>3. /\ t \in Seq(Boxes) /\ Len(t) = IF n + 1 <= L THEN L - (n + 1) + 1 ELSE 0
        /\ \A k \in 1 .. L - (n + 1) + 1 : t[k] = s[n + 1 + k - 1]
    BY <2>1, <2>2, SubSeqProperties
  <2> HIDE DEF t
  <2>4. Len(t) = L - n
    BY <2>3, <1>1
  <2>5. ASSUME NEW k \in 1 .. L - n
        PROVE  t[k] = s[n + k]
    <3>1. n + 1 + k - 1 = n + k
      BY <1>1
    <3>2. QED BY <2>2, <2>3, <3>1
  <2>6. QED BY <2>3, <2>4, <2>5
<1> HIDE DEF t
<1>3. \A k \in 1 .. L - n + 1 : Link(t, k) = Link(s, n + k)
  BY <1>1, <1>2 DEF Link
<1>4. ASSUME NEW k \in 1 .. Len(t)
      PROVE  t[k] \in DOMAIN h /\ h[t[k]].next = Link(t, k + 1)
  <2>1. n + k \in 1 .. L /\ t[k] = s[n + k] /\ k + 1 \in 1 .. L - n + 1 /\ (n + k) + 1 = n + (k + 1)
    BY <1>1, <1>2
  <2>2. s[n + k] \in DOMAIN h /\ h[s[n + k]].next = Link(s, (n + k) + 1)
    BY <2>1 DEF Chain
  <2>3. QED BY <2>1, <2>2, <1>3
<1>5. Link(s, n + 1) = Link(t, 1)
  <2>1. 1 \in 1 .. L - n + 1
    BY <1>1
  <2>2. QED BY <2>1, <1>3
<1>6. Chain(h, Link(s, n + 1), t)
  BY <1>2, <1>4, <1>5 DEF Chain
<1>7. QED BY <1>2, <1>6 DEF t

\* The link of an empty chain is empty, and the other way round.
LEMMA EmptyChain ==
    ASSUME NEW h, HeapOk(h), NEW p, NEW s, Chain(h, p, s)
    PROVE  /\ p = NoBox <=> s = << >>
           /\ p # NoBox => 1 \in 1 .. Len(s) /\ p = s[1] /\ p \in DOMAIN h /\ Len(s) \in Nat \ {0}
<1>1. s \in Seq(Boxes) /\ Len(s) \in Nat /\ (s = << >> <=> Len(s) = 0)
  BY EmptySeq DEF Chain
<1>2. CASE Len(s) = 0
  BY <1>1, <1>2 DEF Chain, Link
<1>3. CASE Len(s) # 0
  <2>1. 1 \in 1 .. Len(s) /\ p = s[1] /\ s[1] \in Boxes /\ s[1] \in DOMAIN h
    BY <1>1, <1>3 DEF Chain, Link
  <2>2. p # NoBox
    BY <2>1 DEF Boxes, NoBox
  <2>3. QED BY <1>1, <1>3, <2>1, <2>2
<1>4. QED BY <1>2, <1>3

\* A box that is freed after its link was taken goes alone, and the taken link
\* has what is left.
LEMMA FreeAlone ==
    ASSUME HeapOk(heap), NEW p, NEW s, Spine(heap, p, s), p # NoBox, depth \in {0, 1},
           Free([heap EXCEPT ![p].next = NoBox], p)
    PROVE  /\ HeapOk(heap') /\ Spine(heap', heap[p].next, Tail(s)) /\ depth' \in {0, 1}
           /\ heap[p].next = Link(s, 2)
<1> DEFINE h == [heap EXCEPT ![p].next = NoBox]
<1>1. /\ s \in Seq(Boxes) /\ Len(s) \in Nat \ {0} /\ 1 \in 1 .. Len(s) /\ p = s[1]
      /\ p \in DOMAIN heap /\ p \in Boxes /\ s # << >> /\ Chain(heap, p, s)
  <2>1. Chain(heap, p, s)
    BY DEF Spine
  <2>2. 1 \in 1 .. Len(s) /\ p = s[1] /\ p \in DOMAIN heap /\ Len(s) \in Nat \ {0} /\ s # << >>
    BY <2>1, EmptyChain
  <2>3. QED BY <2>1, <2>2 DEF Chain, HeapOk
<1>2. heap \in [DOMAIN heap -> Node] /\ DOMAIN heap \subseteq Boxes
  BY DEF HeapOk
<1>3. /\ DOMAIN h = DOMAIN heap /\ \A q \in DOMAIN heap : q # p => h[q] = heap[q]
      /\ h \in [DOMAIN heap -> Node] /\ h[p].next = NoBox
  BY <1>1, <1>2 DEF Node
<1>4. HeapOk(h)
  BY <1>2, <1>3 DEF HeapOk
<1> HIDE DEF h
<1>5. Owned(h, p) = <<p>>
  <2>1. <<p>> \in Seq(Boxes) /\ Len(<<p>>) = 1 /\ <<p>>[1] = p
    BY <1>1
  <2>2. Link(<<p>>, 1) = p /\ Link(<<p>>, 1 + 1) = NoBox
    BY <2>1 DEF Link
  <2>3. Chain(h, p, <<p>>)
    BY <2>1, <2>2, <1>1, <1>3 DEF Chain
  <2>4. 1 <= MaxNodes
    BY <1>1, MutateAssumption DEF Boxes
  <2>5. QED BY <1>4, <2>1, <2>3, <2>4, OwnedIs
<1>6. Range(<<p>>) = {p} /\ Len(<<p>>) = 1
  BY DEF Range
<1>7. Free(h, p)
  BY DEF h
<1>8. heap' = [q \in DOMAIN heap \ {p} |-> heap[q]]
  BY <1>3, <1>5, <1>6, <1>7 DEF Free
<1>9. depth' \in {0, 1}
  BY <1>5, <1>6, <1>7 DEF Free
<1>10. HeapOk(heap')
  BY <1>2, <1>8 DEF HeapOk
<1> DEFINE L == Len(s)
           t == SubSeq(s, 1 + 1, L)
<1>11. /\ Chain(heap, Link(s, 1 + 1), t) /\ Len(t) = L - 1
       /\ \A k \in 1 .. L - 1 : t[k] = s[1 + k]
  <2>1. PICK n \in 0 .. Len(s) : n = 1
    BY <1>1
  <2>2. /\ Chain(heap, Link(s, n + 1), SubSeq(s, n + 1, Len(s)))
        /\ Len(SubSeq(s, n + 1, Len(s))) = Len(s) - n
        /\ \A k \in 1 .. Len(s) - n : SubSeq(s, n + 1, Len(s))[k] = s[n + k]
    BY <1>1, ChainRest
  <2>3. QED BY <2>1, <2>2
<1>12. Tail(s) = t
  BY <1>1, TailIsSubSeq
<1> HIDE DEF t
<1>13. heap[p].next = Link(s, 1 + 1)
  BY <1>1 DEF Chain
<1>14. ASSUME NEW k \in 1 .. L - 1
       PROVE  t[k] # p /\ t[k] \in DOMAIN heap'
  <2>1. 1 + k \in 1 .. L /\ 1 + k # 1
    BY <1>1
  <2>2. s[1 + k] # s[1]
    BY <2>1, <1>1 DEF Spine
  <2>3. QED BY <2>1, <2>2, <1>1, <1>8, <1>11 DEF Chain
<1>15. Chain(heap', Link(s, 1 + 1), t)
  BY <1>8, <1>11, <1>14 DEF Chain
<1>16. \A i, j \in 1 .. L - 1 : t[i] = t[j] => i = j
  <2> SUFFICES ASSUME NEW i \in 1 .. L - 1, NEW j \in 1 .. L - 1, t[i] = t[j]
               PROVE  i = j
    OBVIOUS
  <2>1. 1 + i \in 1 .. L /\ 1 + j \in 1 .. L /\ s[1 + i] = s[1 + j]
    BY <1>1, <1>11
  <2>2. 1 + i = 1 + j
    BY <2>1 DEF Spine
  <2>3. QED BY <2>2
<1>17. ASSUME NEW q \in DOMAIN heap'
       PROVE  \E k \in 1 .. L - 1 : t[k] = q
  <2>1. q \in DOMAIN heap /\ q # p
    BY <1>8
  <2>2. PICK k \in 1 .. L : s[k] = q
    BY <2>1 DEF Spine
  <2>3. k - 1 \in 1 .. L - 1 /\ 1 + (k - 1) = k
    BY <2>1, <2>2, <1>1
  <2>4. t[k - 1] = q
    BY <2>2, <2>3, <1>11
  <2>5. QED BY <2>3, <2>4
<1>18. Spine(heap', Link(s, 1 + 1), t)
  BY <1>11, <1>15, <1>16, <1>17 DEF Spine
<1>19. 1 + 1 = 2
  OBVIOUS
<1>20. QED BY <1>9, <1>10, <1>12, <1>13, <1>18, <1>19

\* Writing an element leaves the links alone.
LEMMA WriteKeepsLinks ==
    ASSUME NEW h, HeapOk(h), NEW q \in DOMAIN h, NEW p, NEW s, Spine(h, p, s)
    PROVE  LET g == [h EXCEPT ![q].elem = Mutate(@)]
           IN  /\ HeapOk(g) /\ Spine(g, p, s)
               /\ g[q].elem = Mutate(h[q].elem)
               /\ \A r \in DOMAIN h : r # q => g[r].elem = h[r].elem
<1> DEFINE g == [h EXCEPT ![q].elem = Mutate(@)]
<1>1. h \in [DOMAIN h -> Node] /\ DOMAIN h \subseteq Boxes /\ h[q] \in Node
  BY DEF HeapOk
<1>2. Mutate(h[q].elem) \in Elems
  BY <1>1, MutateAssumption DEF Node
<1>3. /\ DOMAIN g = DOMAIN h /\ g \in [DOMAIN h -> Node]
      /\ g[q].elem = Mutate(h[q].elem) /\ g[q].next = h[q].next
      /\ \A r \in DOMAIN h : r # q => g[r] = h[r]
  BY <1>1, <1>2 DEF Node
<1> HIDE DEF g
<1>4. HeapOk(g)
  BY <1>1, <1>3 DEF HeapOk
<1>5. \A r \in DOMAIN h : g[r].next = h[r].next
  BY <1>3
<1>6. Chain(h, p, s) => Chain(g, p, s)
  BY <1>3, <1>5 DEF Chain
<1>7. Spine(g, p, s)
  BY <1>3, <1>6 DEF Spine
<1>8. QED BY <1>3, <1>4, <1>7 DEF g

-----------------------------------------------------------------------------
(* The steps *)

LEMMA InitHolds ==
    ASSUME ListInit
    PROVE  IndInv
<1>1. DOMAIN heap = {} /\ heap \in [DOMAIN heap -> Node]
  BY DEF ListInit
<1>2. HeapOk(heap) /\ Held
  BY <1>1 DEF ListInit, HeapOk, Held
<1>3. Spine(heap, Root, << >>)
  <2>1. << >> \in Seq(Boxes) /\ Len(<< >>) = 0
    OBVIOUS
  <2>2. Link(<< >>, 1) = NoBox
    BY <2>1 DEF Link
  <2>3. QED BY <1>1, <2>1, <2>2 DEF ListInit, Spine, Chain, Root
<1>4. Along(heap, << >>)
  BY DEF ListInit, Along
<1>5. QED BY <1>2, <1>3, <1>4 DEF IndInv, HasSpine

LEMMA PushStep ==
    ASSUME IndInv, push
    PROVE  IndInv'
<1>1. PICK e \in Elems, b \in Boxes \ DOMAIN heap :
        /\ heap' = [q \in DOMAIN heap \cup {b} |-> IF q = b THEN [elem |-> e, next |-> head] ELSE heap[q]]
        /\ head' = b
  BY DEF push
<1>2. PICK s : Spine(heap, head, s)
  BY DEF IndInv, HasSpine, Root, push
<1>3. /\ s \in Seq(Boxes) /\ Len(s) \in Nat /\ Chain(heap, head, s) /\ head \in Boxes \cup {NoBox}
      /\ holder = "user" /\ UNCHANGED <<holder, next, seen, depth>>
  <2>1. Chain(heap, head, s) /\ HeapOk(heap)
    BY <1>2 DEF Spine, IndInv
  <2>2. head # NoBox => head \in DOMAIN heap
    BY <2>1, EmptyChain
  <2>3. QED BY <2>1, <2>2 DEF Chain, HeapOk, push
<1>4. HeapOk(heap') /\ DOMAIN heap' = DOMAIN heap \cup {b} /\ heap'[b].next = head
      /\ \A q \in DOMAIN heap : q # b /\ heap'[q] = heap[q]
  BY <1>1, <1>3 DEF IndInv, HeapOk, Node
<1>5. Held'
  BY <1>3 DEF IndInv, Held
<1> DEFINE t == <<b>> \o s
           L == Len(s)
<1>6. t \in Seq(Boxes) /\ Len(t) = L + 1 /\ t[1] = b /\ \A k \in 1 .. L : t[k + 1] = s[k]
  <2>1. <<b>> \in Seq(Boxes) /\ Len(<<b>>) = 1 /\ <<b>>[1] = b
    BY <1>1
  <2>2. t \in Seq(Boxes) /\ Len(t) = 1 + L
        /\ \A i \in 1 .. 1 + L : t[i] = IF i <= 1 THEN <<b>>[i] ELSE s[i - 1]
    BY <2>1, <1>3, ConcatProperties
  <2> HIDE DEF t
  <2>3. QED BY <2>1, <2>2, <1>3
<1> HIDE DEF t
<1>7. \A k \in 1 .. L + 1 : Link(t, k + 1) = Link(s, k)
  BY <1>3, <1>6 DEF Link
<1>8. \A k \in 1 .. L + 1 : k = 1 \/ (k - 1 \in 1 .. L /\ (k - 1) + 1 = k)
  BY <1>3
<1>9. ASSUME NEW k \in 1 .. L + 1
      PROVE  t[k] \in DOMAIN heap' /\ heap'[t[k]].next = Link(t, k + 1)
  <2>1. CASE k = 1
    <3>1. Link(s, 1) = head
      BY <1>3 DEF Chain
    <3>2. QED BY <2>1, <3>1, <1>4, <1>6, <1>7
  <2>2. CASE k # 1
    <3>1. k - 1 \in 1 .. L /\ (k - 1) + 1 = k
      BY <2>2, <1>8
    <3>2. t[k] = s[k - 1] /\ s[k - 1] \in DOMAIN heap /\ heap[s[k - 1]].next = Link(s, k)
      BY <3>1, <1>3, <1>6 DEF Chain
    <3>3. QED BY <3>2, <1>4, <1>7
  <2>3. QED BY <2>1, <2>2
<1>10. head' = Link(t, 1)
  BY <1>1, <1>3, <1>6 DEF Link
<1>11. Chain(heap', head', t)
  BY <1>6, <1>9, <1>10 DEF Chain
<1>12. \A i, j \in 1 .. L + 1 : t[i] = t[j] => i = j
  <2>1. ASSUME NEW k \in 1 .. L + 1, k # 1
        PROVE  t[k] # b
    <3>1. k - 1 \in 1 .. L /\ t[k] = s[k - 1]
      BY <2>1, <1>6, <1>8
    <3>2. s[k - 1] \in DOMAIN heap
      BY <3>1, <1>3 DEF Chain
    <3>3. QED BY <3>1, <3>2, <1>1
  <2> SUFFICES ASSUME NEW i \in 1 .. L + 1, NEW j \in 1 .. L + 1, t[i] = t[j], i # 1, j # 1
               PROVE  i = j
    BY <2>1, <1>6
  <2>2. i - 1 \in 1 .. L /\ j - 1 \in 1 .. L /\ s[i - 1] = s[j - 1]
    BY <1>6, <1>8
  <2>3. i - 1 = j - 1
    BY <2>2, <1>2 DEF Spine
  <2>4. QED BY <2>3
<1>13. ASSUME NEW q \in DOMAIN heap'
       PROVE  \E k \in 1 .. L + 1 : t[k] = q
  <2>1. CASE q = b
    <3>1. 1 \in 1 .. L + 1
      BY <1>3
    <3>2. QED BY <2>1, <3>1, <1>6
  <2>2. CASE q # b
    <3>1. PICK k \in 1 .. L : s[k] = q
      BY <2>2, <1>2, <1>4 DEF Spine
    <3>2. k + 1 \in 1 .. L + 1 /\ t[k + 1] = q
      BY <3>1, <1>3, <1>6
    <3>3. QED BY <3>2
  <2>3. QED BY <2>1, <2>2
<1>14. Spine(heap', Root', t)
  <2>1. Root' = head'
    BY <1>3 DEF Root
  <2>2. QED BY <2>1, <1>6, <1>11, <1>12, <1>13 DEF Spine
<1>15. Along(heap, t)'
  BY <1>3 DEF Along
<1>16. QED BY <1>4, <1>5, <1>14, <1>15 DEF IndInv, HasSpine

LEMMA PopSteps ==
    ASSUME IndInv, pop \/ YieldOwned
    PROVE  IndInv'
<1>1. holder \in {"user", "into_iter"} /\ Pop /\ UNCHANGED <<holder, next>>
  BY DEF pop, YieldOwned
<1>2. PICK s : Spine(heap, head, s)
  BY <1>1 DEF IndInv, HasSpine, Root
<1>3. HeapOk(heap') /\ Spine(heap', head', Tail(s)) /\ depth' \in {0, 1}
  BY <1>1, <1>2, FreeAlone DEF Pop, IndInv, Held
<1>4. Held' /\ Root' = head' /\ Along(heap, Tail(s))'
  BY <1>1, <1>3 DEF IndInv, Held, Root, Along
<1>5. QED BY <1>3, <1>4 DEF IndInv, HasSpine

LEMMA PeekStep ==
    ASSUME IndInv, peek_mut
    PROVE  IndInv'
<1>1. PICK s : Spine(heap, head, s)
  BY DEF IndInv, HasSpine, Root, peek_mut
<1>2. head \in DOMAIN heap
  BY <1>1, EmptyChain DEF IndInv, Spine, peek_mut
<1>3. HeapOk(heap') /\ Spine(heap', head, s)
  BY <1>1, <1>2, WriteKeepsLinks DEF IndInv, peek_mut
<1>4. Held' /\ Root' = head /\ Along(heap, s)'
  BY DEF IndInv, Held, Root, Along, peek_mut
<1>5. QED BY <1>3, <1>4 DEF IndInv, HasSpine

LEMMA BorrowStep ==
    ASSUME IndInv, Borrow
    PROVE  IndInv'
<1>1. PICK s : Spine(heap, head, s)
  BY DEF IndInv, HasSpine, Root, Borrow
<1>2. Held' /\ HeapOk(heap') /\ Spine(heap', Root', s)
  BY <1>1 DEF IndInv, Held, Root, Borrow
<1>3. Along(heap, s)'
  <2>1. << >> \in Seq(Elems) /\ Len(<< >>) = 0 /\ Len(s) \in Nat
    BY <1>1 DEF Spine, Chain
  <2>2. head = Link(s, 0 + 1)
    BY <1>1 DEF Spine, Chain
  <2>3. holder' \in {"iter", "iter_mut"} => seen' = << >> /\ next' = head
    BY DEF Borrow
  <2>4. holder' \in {"iter", "iter_mut"} => Len(seen') = 0 /\ seen' \in Seq(Elems) /\ next' = Link(s, Len(seen') + 1)
    BY <2>1, <2>2, <2>3
  <2>5. QED BY <2>1, <2>4 DEF Along
<1>4. QED BY <1>2, <1>3 DEF IndInv, HasSpine

LEMMA YieldStep ==
    ASSUME IndInv, Yield
    PROVE  IndInv'
<1>1. holder \in {"iter", "iter_mut"} /\ next # NoBox /\ UNCHANGED <<head, holder, depth>>
  BY DEF Yield
<1>2. PICK s : Spine(heap, head, s) /\ Along(heap, s)
  BY <1>1 DEF IndInv, HasSpine, Root
<1> DEFINE n == Len(seen)
           L == Len(s)
<1>3. /\ s \in Seq(Boxes) /\ L \in Nat /\ seen \in Seq(Elems) /\ n \in Nat /\ n <= L
      /\ next = Link(s, n + 1)
  BY <1>1, <1>2 DEF Spine, Chain, Along
<1>4. n + 1 \in 1 .. L /\ next = s[n + 1]
  BY <1>1, <1>3 DEF Link
<1>5. next \in DOMAIN heap /\ heap[next].next = Link(s, (n + 1) + 1) /\ heap[next].elem \in Elems
  BY <1>2, <1>4, NextIsLink DEF Spine, Chain, IndInv
<1>6. /\ HeapOk(heap') /\ Spine(heap', head, s)
      /\ heap'[next].elem = IF holder = "iter" THEN heap[next].elem ELSE Mutate(heap[next].elem)
      /\ \A r \in DOMAIN heap : r # next => heap'[r].elem = heap[r].elem
  <2>1. CASE holder = "iter"
    BY <2>1, <1>2 DEF Yield, IndInv
  <2>2. CASE holder = "iter_mut"
    <3>1. heap' = [heap EXCEPT ![next].elem = Mutate(@)]
      BY <2>2 DEF Yield
    <3>2. QED BY <2>2, <3>1, <1>2, <1>5, WriteKeepsLinks DEF IndInv
  <2>3. QED BY <2>1, <2>2, <1>1
<1>7. /\ seen' \in Seq(Elems) /\ Len(seen') = n + 1 /\ seen'[n + 1] = heap[next].elem
      /\ \A k \in 1 .. n : seen'[k] = seen[k]
  BY <1>3, <1>5, AppendProperties DEF Yield
<1>8. ASSUME NEW k \in 1 .. n + 1
      PROVE  heap'[s[k]].elem = IF holder = "iter" THEN seen'[k] ELSE Mutate(seen'[k])
  <2>1. CASE k = n + 1
    BY <2>1, <1>4, <1>6, <1>7
  <2>2. CASE k # n + 1
    <3>1. k \in 1 .. n /\ k \in 1 .. L
      BY <2>2, <1>3
    <3>2. s[k] # next /\ s[k] \in DOMAIN heap
      BY <2>2, <3>1, <1>2, <1>4 DEF Spine, Chain
    <3>3. heap[s[k]].elem = IF holder = "iter" THEN seen[k] ELSE Mutate(seen[k])
      BY <3>1, <1>1, <1>2 DEF Along
    <3>4. QED BY <3>1, <3>2, <3>3, <1>6, <1>7
  <2>3. QED BY <2>1, <2>2
<1>9. Along(heap, s)'
  <2>1. next' = Link(s, (n + 1) + 1) /\ n + 1 <= L
    BY <1>4, <1>5 DEF Yield
  <2>2. QED BY <2>1, <1>1, <1>7, <1>8 DEF Along
<1>10. Held' /\ Root' = head
  BY <1>1 DEF IndInv, Held, Root
<1>11. QED BY <1>6, <1>9, <1>10 DEF IndInv, HasSpine

LEMMA DropSteps ==
    ASSUME IndInv, Release \/ StartDrop \/ DropNode \/ NewList
    PROVE  IndInv'
<1>1. PICK s : Spine(heap, Root, s)
  BY DEF IndInv, HasSpine
<1>2. CASE Release
  <2>1. Held' /\ HeapOk(heap') /\ Spine(heap', Root', s) /\ Along(heap, s)'
    BY <1>1, <1>2 DEF IndInv, Held, Root, Along, Release
  <2>2. QED BY <2>1 DEF IndInv, HasSpine
<1>3. CASE StartDrop
  <2>1. Held' /\ HeapOk(heap') /\ Spine(heap', Root', s) /\ Along(heap, s)'
    BY <1>1, <1>3 DEF IndInv, Held, Root, Along, StartDrop
  <2>2. QED BY <2>1 DEF IndInv, HasSpine
<1>4. CASE DropNode
  <2>1. Spine(heap, next, s) /\ next # NoBox /\ depth \in {0, 1} /\ HeapOk(heap)
    BY <1>1, <1>4 DEF Root, DropNode, IndInv, Held
  <2>2. Free([heap EXCEPT ![next].next = NoBox], next)
    BY <1>4 DEF DropNode
  <2>3. HeapOk(heap') /\ Spine(heap', heap[next].next, Tail(s)) /\ depth' \in {0, 1}
    BY <2>1, <2>2, FreeAlone
  <2>4. Held' /\ Root' = heap[next].next /\ Along(heap, Tail(s))'
    BY <1>4, <2>3 DEF IndInv, Held, Root, Along, DropNode
  <2>5. QED BY <2>3, <2>4 DEF IndInv, HasSpine
<1>5. CASE NewList
  <2>1. Held' /\ HeapOk(heap') /\ Spine(heap', Root', s) /\ Along(heap, s)'
    BY <1>1, <1>5 DEF IndInv, Held, Root, Along, NewList
  <2>2. QED BY <2>1 DEF IndInv, HasSpine
<1>6. QED BY <1>2, <1>3, <1>4, <1>5

\* The inductive invariant: one chain from the list's head, or from drop's link,
\* passes every live box once, and an iterator stands on it (lib.rs).
THEOREM ListInvariant == ListSpec => []IndInv
<1>1. IndInv /\ [ListNext]_listVars => IndInv'
  <2> SUFFICES ASSUME IndInv, [ListNext]_listVars
               PROVE  IndInv'
    OBVIOUS
  <2>1. CASE UNCHANGED listVars
    BY <2>1 DEF listVars, IndInv, HasSpine, Held, Root, Along
  <2>2. QED
    BY <2>1, PushStep, PopSteps, PeekStep, BorrowStep, YieldStep, DropSteps DEF ListNext
<1>2. QED BY <1>1, InitHolds, PTL DEF ListSpec

-----------------------------------------------------------------------------
(* What follows *)

LEMMA BoxesOwnedOnce ==
    ASSUME IndInv
    PROVE  OwnedOnce
<1> DEFINE live == Owned(heap, head) \o IF holder = "drop" THEN Owned(heap, next) ELSE << >>
<1>1. PICK s : Spine(heap, Root, s) /\ Along(heap, s)
  BY DEF IndInv, HasSpine
<1>2. /\ HeapOk(heap) /\ Chain(heap, Root, s) /\ s \in Seq(Boxes) /\ Len(s) \in Nat
      /\ Len(s) <= MaxNodes /\ Len(s) = Cardinality(DOMAIN heap) /\ DOMAIN s = 1 .. Len(s)
  BY <1>1, SpineFits DEF IndInv, Spine, Chain
<1>3. Owned(heap, Root) = s
  BY <1>2, OwnedIs
<1>4. Owned(heap, NoBox) = << >>
  <2>1. << >> \in Seq(Boxes) /\ Len(<< >>) = 0
    OBVIOUS
  <2>2. Chain(heap, NoBox, << >>)
    BY <2>1 DEF Chain, Link
  <2>3. Len(<< >>) <= MaxNodes
    BY <2>1, MutateAssumption
  <2>4. QED BY <1>2, <2>2, <2>3, OwnedIs
<1>5. live = s
  <2>1. << >> \o s = s /\ s \o << >> = s
    BY <1>2, ConcatEmptySeq
  <2>2. CASE holder = "drop"
    BY <2>1, <2>2, <1>3, <1>4 DEF Root, IndInv, Held
  <2>3. CASE holder # "drop"
    BY <2>1, <2>3, <1>3 DEF Root
  <2>4. QED BY <2>2, <2>3
<1>6. Range(s) = DOMAIN heap
  <2>1. \A k \in DOMAIN s : s[k] \in DOMAIN heap
    BY <1>2 DEF Chain
  <2>2. \A q \in DOMAIN heap : \E k \in DOMAIN s : s[k] = q
    BY <1>1, <1>2 DEF Spine
  <2>3. QED BY <2>1, <2>2 DEF Range
<1>7. Root \in DOMAIN heap \cup {NoBox}
  BY <1>2, EmptyChain
<1>8. head \in DOMAIN heap \cup {NoBox} /\ next \in DOMAIN heap \cup {NoBox}
  <2>1. CASE holder = "drop"
    BY <2>1, <1>7 DEF Root, IndInv, Held
  <2>2. CASE holder \in {"user", "into_iter"}
    BY <2>2, <1>7 DEF Root, IndInv, Held
  <2>3. CASE holder \in {"iter", "iter_mut"}
    <3>1. next = Link(s, Len(seen) + 1) /\ Len(seen) \in Nat
      BY <2>3, <1>1 DEF Along
    <3>2. next # NoBox => Len(seen) + 1 \in 1 .. Len(s) /\ next = s[Len(seen) + 1]
      BY <3>1, <1>2 DEF Link
    <3>3. next # NoBox => next \in DOMAIN heap
      BY <3>2, <1>2 DEF Chain
    <3>4. QED BY <2>3, <3>3, <1>7 DEF Root
  <2>4. QED BY <2>1, <2>2, <2>3 DEF IndInv, Held
<1>9. depth <= 1
  BY DEF IndInv, Held
<1> HIDE DEF live
<1>10. Range(live) = DOMAIN heap /\ Len(live) = Cardinality(DOMAIN heap)
  BY <1>2, <1>5, <1>6
<1>11. QED BY <1>8, <1>9, <1>10 DEF OwnedOnce, live

\* What an iterator has yielded, mapped as its caller wrote it, and what is
\* still before it make up the list.
LEMMA YieldedInOrder ==
    ASSUME IndInv, holder \in {"iter", "iter_mut"}, NEW a \in Seq(Elems), Len(a) = Len(seen),
           \A k \in 1 .. Len(seen) : a[k] = IF holder = "iter" THEN seen[k] ELSE Mutate(seen[k])
    PROVE  a \o ElemsFrom(next) = ElemsFrom(head)
<1>1. PICK s : Spine(heap, head, s) /\ Along(heap, s)
  BY DEF IndInv, HasSpine, Root
<1> DEFINE n == Len(seen)
           L == Len(s)
           t == SubSeq(s, n + 1, L)
<1>2. /\ HeapOk(heap) /\ Chain(heap, head, s) /\ s \in Seq(Boxes) /\ L \in Nat /\ L <= MaxNodes
      /\ DOMAIN s = 1 .. L
  BY <1>1, SpineFits DEF IndInv, Spine, Chain
<1>3. n \in Nat /\ n <= L /\ next = Link(s, n + 1)
  BY <1>1 DEF Along
<1>4. Chain(heap, next, t) /\ Len(t) = L - n /\ \A k \in 1 .. L - n : t[k] = s[n + k]
  BY <1>2, <1>3, ChainRest
<1>5. t \in Seq(Boxes) /\ DOMAIN t = 1 .. L - n /\ Len(t) <= MaxNodes
  <2>1. t \in Seq(Boxes)
    BY <1>4 DEF Chain
  <2>2. QED BY <2>1, <1>2, <1>3, <1>4, MutateAssumption
<1> HIDE DEF t
<1>6. Owned(heap, head) = s /\ Owned(heap, next) = t
  BY <1>2, <1>4, <1>5, OwnedIs
<1> DEFINE E == [k \in 1 .. L |-> heap[s[k]].elem]
           F == [k \in 1 .. L - n |-> heap[t[k]].elem]
<1>7. ElemsFrom(head) = E /\ ElemsFrom(next) = F
  BY <1>2, <1>5, <1>6 DEF ElemsFrom
<1>8. \A k \in 1 .. L : heap[s[k]].elem \in Elems
  BY <1>2, NextIsLink DEF Chain
<1>9. E \in Seq(Elems) /\ Len(E) = L /\ F \in Seq(Elems) /\ Len(F) = L - n
  <2>1. \A k \in 1 .. L - n : n + k \in 1 .. L
    BY <1>2, <1>3
  <2>2. E \in [1 .. L -> Elems] /\ F \in [1 .. L - n -> Elems]
    BY <2>1, <1>4, <1>8
  <2>3. E \in Seq(Elems) /\ F \in Seq(Elems)
    BY <2>2, <1>2, <1>3, IsASeq
  <2>4. DOMAIN E = 1 .. L /\ DOMAIN F = 1 .. L - n /\ L - n \in Nat
    BY <1>2, <1>3
  <2> HIDE DEF E, F
  <2>5. Len(E) = L
    BY <2>3, <2>4, <1>2, LenProperties
  <2>6. Len(F) = L - n
    <3> DEFINE m == L - n
    <3>1. m \in Nat /\ DOMAIN F = 1 .. m
      BY <2>4
    <3> HIDE DEF m
    <3>2. Len(F) = m
      BY <2>3, <3>1, LenProperties
    <3>3. QED BY <3>2 DEF m
  <2>7. QED BY <2>3, <2>5, <2>6
<1>10. \A k \in 1 .. L : E[k] = heap[s[k]].elem
  OBVIOUS
<1>11. \A k \in 1 .. L - n : F[k] = heap[t[k]].elem
  OBVIOUS
<1> HIDE DEF E, F
<1> DEFINE C == a \o F
<1>12. /\ C \in Seq(Elems) /\ Len(C) = n + (L - n)
       /\ \A i \in 1 .. n + (L - n) : C[i] = IF i <= n THEN a[i] ELSE F[i - n]
  BY <1>9, ConcatProperties
<1> HIDE DEF C
<1>13. Len(C) = Len(E)
  BY <1>2, <1>3, <1>9, <1>12
<1>14. ASSUME NEW i \in 1 .. Len(C)
       PROVE  C[i] = E[i]
  <2>1. i \in 1 .. L /\ i \in 1 .. n + (L - n)
    BY <1>2, <1>3, <1>12
  <2>2. CASE i <= n
    <3>1. i \in 1 .. n
      BY <2>1, <2>2, <1>3
    <3>2. heap[s[i]].elem = a[i]
      BY <3>1, <1>1 DEF Along
    <3>3. QED BY <2>1, <2>2, <3>2, <1>10, <1>12
  <2>3. CASE ~(i <= n)
    <3>1. i - n \in 1 .. L - n /\ n + (i - n) = i
      BY <2>1, <2>3, <1>2, <1>3
    <3>2. F[i - n] = heap[s[i]].elem
      BY <3>1, <1>4, <1>11
    <3>3. QED BY <2>1, <2>3, <3>2, <1>10, <1>12
  <2>4. QED BY <2>2, <2>3
<1>15. C = E
  BY <1>9, <1>12, <1>13, <1>14, SeqEqual
<1>16. QED BY <1>7, <1>15 DEF C

\* The list after any sequence of pushes, pops, writes, iterators and drops,
\* whichever of them are left off in the middle: every live box has one owner,
\* nothing dangles or leaks, a drop of any length needs one frame, and an
\* iterator yields the elements front to back, iter_mut with its writes behind
\* it (lib.rs, List, Iter, IterMut, IntoIter and Drop).
THEOREM ListIsSound == ListSpec => []ListSound
<1>1. IndInv => ListSound
  <2> SUFFICES ASSUME IndInv
               PROVE  ListSound
    OBVIOUS
  <2>1. holder \in {"iter", "iter_mut"} => seen \in Seq(Elems)
    BY DEF IndInv, HasSpine, Along
  <2>2. holder = "iter" => seen \o ElemsFrom(next) = ElemsFrom(head)
    BY <2>1, YieldedInOrder
  <2>3. ASSUME holder = "iter_mut"
        PROVE  [k \in DOMAIN seen |-> Mutate(seen[k])] \o ElemsFrom(next) = ElemsFrom(head)
    <3> DEFINE a == [k \in DOMAIN seen |-> Mutate(seen[k])]
               n == Len(seen)
    <3>1. seen \in Seq(Elems) /\ n \in Nat /\ DOMAIN seen = 1 .. n /\ \A k \in 1 .. n : seen[k] \in Elems
      BY <2>1, <2>3
    <3>2. a \in [1 .. n -> Elems]
      BY <3>1, MutateAssumption
    <3>3. a \in Seq(Elems) /\ DOMAIN a = 1 .. n
      BY <3>1, <3>2, IsASeq
    <3>4. \A k \in 1 .. n : a[k] = Mutate(seen[k])
      BY <3>1
    <3> HIDE DEF a
    <3>5. Len(a) = n
      BY <3>1, <3>3, LenProperties
    <3>6. QED BY <2>3, <3>3, <3>4, <3>5, YieldedInOrder DEF a
  <2>4. QED BY <2>2, <2>3, BoxesOwnedOnce DEF ListSound, IteratesInOrder
<1>2. QED BY <1>1, ListInvariant, PTL

-----------------------------------------------------------------------------
(* The roguelike *)

-----------------------------------------------------------------------------
(* Sets of tiles that hang together *)

Cross(p) == {<<p[1] + 1, p[2]>>, <<p[1] - 1, p[2]>>, <<p[1], p[2] + 1>>, <<p[1], p[2] - 1>>}

\* Part S of F has no neighbour in F outside.
ClosedIn(S, F) == \A p \in S : Cross(p) \cap F \subseteq S

\* Whoever starts at c and walks on F gets to every tile of F.
Linked(F, c) == c \in F /\ \A S \in SUBSET F : c \in S /\ ClosedIn(S, F) => S = F

\* Two such sets that share a tile hang together.
LEMMA LinkedUnion ==
    ASSUME NEW F, NEW G, NEW c, NEW d, Linked(F, c), Linked(G, d), d \in F
    PROVE  Linked(F \cup G, c)
<1> SUFFICES ASSUME NEW S \in SUBSET (F \cup G), c \in S, ClosedIn(S, F \cup G)
             PROVE  S = F \cup G
  BY DEF Linked
<1>1. ClosedIn(S \cap F, F) /\ ClosedIn(S \cap G, G)
  BY DEF ClosedIn
<1>2. S \cap F = F
  <2>1. S \cap F \in SUBSET F /\ c \in S \cap F
    BY DEF Linked
  <2>2. QED BY <2>1, <1>1 DEF Linked
<1>3. S \cap G = G
  <2>1. S \cap G \in SUBSET G /\ d \in S \cap G
    BY <1>2 DEF Linked
  <2>2. QED BY <2>1, <1>1 DEF Linked
<1>4. QED BY <1>2, <1>3

\* A set of numbers that holds m and, within a .. b, every neighbour of what
\* it holds, holds all of a .. b.
LEMMA LineFills ==
    ASSUME NEW a \in Int, NEW b \in Int, NEW m \in a .. b, NEW T, m \in T,
           \A x \in a .. b : x \in T => /\ x + 1 \in a .. b => x + 1 \in T
                                        /\ x - 1 \in a .. b => x - 1 \in T
    PROVE  a .. b \subseteq T
<1>1. ASSUME NEW x \in m .. b
      PROVE  x \in T
  <2> DEFINE U == {n \in Nat : m + n \in T}
             L == b - m
  <2>1. L \in Nat /\ 0 \in U
    OBVIOUS
  <2>2. ASSUME NEW n \in 1 .. L, n - 1 \in U
        PROVE  n \in U
    <3>1. m + (n - 1) \in a .. b /\ m + (n - 1) \in T /\ m + (n - 1) + 1 = m + n /\ m + n \in a .. b
      BY <2>2
    <3>2. m + n \in T
      BY <3>1
    <3>3. QED BY <3>2
  <2>3. \A n \in 0 .. L : n \in U
    <3> HIDE DEF U, L
    <3> QED BY <2>1, <2>2, UpTo
  <2>4. x - m \in 0 .. L /\ m + (x - m) = x
    OBVIOUS
  <2>5. QED BY <2>3, <2>4
<1>2. ASSUME NEW x \in a .. m
      PROVE  x \in T
  <2> DEFINE U == {n \in Nat : m - n \in T}
             L == m - a
  <2>1. L \in Nat /\ 0 \in U
    OBVIOUS
  <2>2. ASSUME NEW n \in 1 .. L, n - 1 \in U
        PROVE  n \in U
    <3>1. m - (n - 1) \in a .. b /\ m - (n - 1) \in T /\ m - (n - 1) - 1 = m - n /\ m - n \in a .. b
      BY <2>2
    <3>2. m - n \in T
      BY <3>1
    <3>3. QED BY <3>2
  <2>3. \A n \in 0 .. L : n \in U
    <3> HIDE DEF U, L
    <3> QED BY <2>1, <2>2, UpTo
  <2>4. m - x \in 0 .. L /\ m - (m - x) = x
    OBVIOUS
  <2>5. QED BY <2>3, <2>4
<1>3. ASSUME NEW x \in a .. b
      PROVE  x \in m .. b \/ x \in a .. m
  OBVIOUS
<1>4. QED BY <1>1, <1>2, <1>3

\* A rectangle hangs together.
LEMMA RectLinked ==
    ASSUME NEW a \in Int, NEW b \in Int, NEW c \in Int, NEW d \in Int,
           NEW px \in a .. b, NEW py \in c .. d
    PROVE  Linked((a .. b) \X (c .. d), <<px, py>>)
<1> DEFINE R == (a .. b) \X (c .. d)
<1>1. <<px, py>> \in R
  OBVIOUS
<1>2. ASSUME NEW S \in SUBSET R, <<px, py>> \in S, ClosedIn(S, R)
      PROVE  R \subseteq S
  <2>1. ASSUME NEW x \in a .. b, NEW y \in c .. d, <<x, y>> \in S
        PROVE  /\ x + 1 \in a .. b => <<x + 1, y>> \in S
               /\ x - 1 \in a .. b => <<x - 1, y>> \in S
               /\ y + 1 \in c .. d => <<x, y + 1>> \in S
               /\ y - 1 \in c .. d => <<x, y - 1>> \in S
    <3>1. Cross(<<x, y>>) = {<<x + 1, y>>, <<x - 1, y>>, <<x, y + 1>>, <<x, y - 1>>}
      BY DEF Cross
    <3>2. Cross(<<x, y>>) \cap R \subseteq S
      BY <1>2, <2>1 DEF ClosedIn
    <3>3. QED BY <3>1, <3>2
  <2>2. ASSUME NEW x \in a .. b
        PROVE  <<x, py>> \in S
    <3> DEFINE T == {u \in a .. b : <<u, py>> \in S}
    <3>1. px \in T
      BY <1>2
    <3>2. ASSUME NEW u \in a .. b, u \in T
          PROVE  (u + 1 \in a .. b => u + 1 \in T) /\ (u - 1 \in a .. b => u - 1 \in T)
      BY <2>1, <3>2
    <3>3. a .. b \subseteq T
      <4> HIDE DEF T
      <4> QED BY <3>1, <3>2, LineFills
    <3>4. QED BY <3>3
  <2>3. ASSUME NEW x \in a .. b, NEW y \in c .. d
        PROVE  <<x, y>> \in S
    <3> DEFINE T == {u \in c .. d : <<x, u>> \in S}
    <3>1. py \in T
      BY <2>2
    <3>2. ASSUME NEW u \in c .. d, u \in T
          PROVE  (u + 1 \in c .. d => u + 1 \in T) /\ (u - 1 \in c .. d => u - 1 \in T)
      BY <2>1, <3>2
    <3>3. c .. d \subseteq T
      <4> HIDE DEF T
      <4> QED BY <3>1, <3>2, LineFills
    <3>4. QED BY <3>3
  <2>4. QED BY <2>3
<1>3. QED BY <1>1, <1>2 DEF Linked

-----------------------------------------------------------------------------
(* The map *)

Tiles == Int \X Int
Inner == (1 .. Width - 2) \X (1 .. Height - 2)

\* A room as generate draws it: with a wall around it.
Room == {r \in [x : Nat, y : Nat, w : RoomW, h : RoomH] :
           r.x > 0 /\ r.y > 0 /\ r.x + r.w <= Width - 2 /\ r.y + r.h <= Height - 2}

\* Rooms are kept apart and are carved; the floor stays within the outer wall
\* and hangs together.
MapOk(rs, fl) ==
    /\ rs \in Seq(Room) /\ fl \subseteq Inner
    /\ \A j, k \in 1 .. Len(rs) : j < k => ~intersects(rs[j], rs[k])
    /\ \A k \in 1 .. Len(rs) : carve_room(rs[k]) \subseteq fl
    /\ rs = << >> => fl = {}
    /\ rs # << >> => Linked(fl, center(rs[1]))

LEMMA Sizes ==
    /\ Width \in Nat /\ Height \in Nat
    /\ RoomW \subseteq Nat \ {0} /\ RoomH \subseteq Nat \ {0}
BY RogueAssumption

\* The centre of a room lies in it, and the room inside the outer wall.
LEMMA RoomInside ==
    ASSUME NEW r \in Room
    PROVE  /\ r.x \in Int /\ r.y \in Int /\ r.w \in Nat \ {0} /\ r.h \in Nat \ {0}
           /\ center(r) \in carve_room(r)
           /\ center(r) = <<center(r)[1], center(r)[2]>>
           /\ center(r)[1] \in r.x .. r.x + r.w - 1
           /\ center(r)[2] \in r.y .. r.y + r.h - 1
           /\ carve_room(r) \subseteq Inner
<1>1. r.x \in Int /\ r.y \in Int /\ r.w \in Nat \ {0} /\ r.h \in Nat \ {0}
  <2>1. r \in [x : Nat, y : Nat, w : RoomW, h : RoomH]
    BY DEF Room
  <2>2. r.x \in Nat /\ r.y \in Nat /\ r.w \in RoomW /\ r.h \in RoomH
    BY <2>1
  <2>3. PICK x \in Nat, y \in Nat, w \in RoomW, h \in RoomH : x = r.x /\ y = r.y /\ w = r.w /\ h = r.h
    BY <2>2
  <2>4. x \in Int /\ y \in Int /\ w \in Nat \ {0} /\ h \in Nat \ {0}
    BY Sizes
  <2>5. QED BY <2>3, <2>4
<1>2. r.w \div 2 \in 0 .. r.w - 1 /\ r.h \div 2 \in 0 .. r.h - 1
  BY <1>1
<1>3. carve_room(r) \subseteq Inner
  BY <1>1, Sizes DEF Room, carve_room, Inner
<1>4. QED BY <1>1, <1>2, <1>3 DEF center, carve_room

LEMMA RoomLinked ==
    ASSUME NEW r \in Room
    PROVE  Linked(carve_room(r), center(r))
<1>1. PICK px \in r.x .. r.x + r.w - 1, py \in r.y .. r.y + r.h - 1 : center(r) = <<px, py>>
  BY RoomInside
<1>2. r.x + r.w - 1 \in Int /\ r.y + r.h - 1 \in Int /\ r.x \in Int /\ r.y \in Int
  BY RoomInside
<1>3. QED BY <1>1, <1>2, RectLinked DEF carve_room

\* A straight corridor hangs together, from either end, and stays inside.
LEMMA ArmLinked ==
    ASSUME NEW x1 \in 1 .. Width - 2, NEW x2 \in 1 .. Width - 2,
           NEW y1 \in 1 .. Height - 2, NEW y2 \in 1 .. Height - 2
    PROVE  /\ Linked(carve_h(x1, x2, y1), <<x1, y1>>) /\ <<x2, y1>> \in carve_h(x1, x2, y1)
           /\ carve_h(x1, x2, y1) \subseteq Inner
           /\ Linked(carve_v(y1, y2, x1), <<x1, y1>>) /\ <<x1, y2>> \in carve_v(y1, y2, x1)
           /\ carve_v(y1, y2, x1) \subseteq Inner
<1> DEFINE a == Min({x1, x2})
           b == Max({x1, x2})
           c == Min({y1, y2})
           d == Max({y1, y2})
<1>1. a \in 1 .. Width - 2 /\ b \in 1 .. Width - 2 /\ x1 \in a .. b /\ x2 \in a .. b
  BY MinMaxOfTwo, Sizes
<1>2. c \in 1 .. Height - 2 /\ d \in 1 .. Height - 2 /\ y1 \in c .. d /\ y2 \in c .. d
  BY MinMaxOfTwo, Sizes
<1>3. carve_h(x1, x2, y1) = (a .. b) \X (y1 .. y1) /\ carve_v(y1, y2, x1) = (x1 .. x1) \X (c .. d)
  <2>1. y1 .. y1 = {y1} /\ x1 .. x1 = {x1}
    OBVIOUS
  <2>2. QED BY <2>1 DEF carve_h, carve_v
<1> HIDE DEF a, b, c, d
<1>4. Linked((a .. b) \X (y1 .. y1), <<x1, y1>>)
  <2>1. a \in Int /\ b \in Int /\ y1 \in Int /\ y1 \in y1 .. y1
    BY <1>1, Sizes
  <2>2. QED BY <1>1, <2>1, RectLinked
<1>5. Linked((x1 .. x1) \X (c .. d), <<x1, y1>>)
  <2>1. c \in Int /\ d \in Int /\ x1 \in Int /\ x1 \in x1 .. x1
    BY <1>2, Sizes
  <2>2. QED BY <1>2, <2>1, RectLinked
<1>6. (a .. b) \X (y1 .. y1) \subseteq Inner /\ (x1 .. x1) \X (c .. d) \subseteq Inner
  BY <1>1, <1>2, Sizes DEF Inner
<1>7. <<x2, y1>> \in (a .. b) \X (y1 .. y1) /\ <<x1, y2>> \in (x1 .. x1) \X (c .. d)
  BY <1>1, <1>2
<1>8. QED BY <1>3, <1>4, <1>5, <1>6, <1>7

\* The corridor from p to n joins n to what p is joined to.
LEMMA CorridorLinks ==
    ASSUME NEW F \in SUBSET Inner, NEW c, Linked(F, c), NEW p \in F, NEW n \in Inner, NEW first \in {"h", "v"}
    PROVE  /\ Linked(F \cup Corridor(p, n, first), c)
           /\ n \in Corridor(p, n, first) /\ Corridor(p, n, first) \subseteq Inner
<1>1. /\ p = <<p[1], p[2]>> /\ n = <<n[1], n[2]>>
      /\ p[1] \in 1 .. Width - 2 /\ n[1] \in 1 .. Width - 2
      /\ p[2] \in 1 .. Height - 2 /\ n[2] \in 1 .. Height - 2
  BY DEF Inner
<1>2. PICK x1 \in 1 .. Width - 2, x2 \in 1 .. Width - 2, y1 \in 1 .. Height - 2, y2 \in 1 .. Height - 2 :
          x1 = p[1] /\ x2 = n[1] /\ y1 = p[2] /\ y2 = n[2]
  BY <1>1
<1>3. CASE first = "h"
  <2>1. Corridor(p, n, first) = carve_h(x1, x2, y1) \cup carve_v(y1, y2, x2)
    BY <1>2, <1>3 DEF Corridor
  <2>2. Linked(F \cup carve_h(x1, x2, y1), c)
    <3>1. Linked(carve_h(x1, x2, y1), <<x1, y1>>)
      BY ArmLinked
    <3>2. <<x1, y1>> \in F
      BY <1>1, <1>2
    <3>3. QED BY <3>1, <3>2, LinkedUnion
  <2>3. <<x2, y1>> \in F \cup carve_h(x1, x2, y1)
    BY ArmLinked
  <2>4. Linked(carve_v(y1, y2, x2), <<x2, y1>>)
    BY ArmLinked
  <2>5. Linked((F \cup carve_h(x1, x2, y1)) \cup carve_v(y1, y2, x2), c)
    BY <2>2, <2>3, <2>4, LinkedUnion
  <2>6. F \cup Corridor(p, n, first) = (F \cup carve_h(x1, x2, y1)) \cup carve_v(y1, y2, x2)
    BY <2>1
  <2>7. n \in carve_v(y1, y2, x2)
    BY <1>1, <1>2, ArmLinked
  <2>8. carve_h(x1, x2, y1) \subseteq Inner /\ carve_v(y1, y2, x2) \subseteq Inner
    BY ArmLinked
  <2>9. QED BY <2>1, <2>5, <2>6, <2>7, <2>8
<1>4. CASE first = "v"
  <2>1. Corridor(p, n, first) = carve_v(y1, y2, x1) \cup carve_h(x1, x2, y2)
    BY <1>2, <1>4 DEF Corridor
  <2>2. Linked(F \cup carve_v(y1, y2, x1), c)
    <3>1. Linked(carve_v(y1, y2, x1), <<x1, y1>>)
      BY ArmLinked
    <3>2. <<x1, y1>> \in F
      BY <1>1, <1>2
    <3>3. QED BY <3>1, <3>2, LinkedUnion
  <2>3. <<x1, y2>> \in F \cup carve_v(y1, y2, x1)
    BY ArmLinked
  <2>4. Linked(carve_h(x1, x2, y2), <<x1, y2>>)
    BY ArmLinked
  <2>5. Linked((F \cup carve_v(y1, y2, x1)) \cup carve_h(x1, x2, y2), c)
    BY <2>2, <2>3, <2>4, LinkedUnion
  <2>6. F \cup Corridor(p, n, first) = (F \cup carve_v(y1, y2, x1)) \cup carve_h(x1, x2, y2)
    BY <2>1
  <2>7. n \in carve_h(x1, x2, y2)
    BY <1>1, <1>2, ArmLinked
  <2>8. carve_v(y1, y2, x1) \subseteq Inner /\ carve_h(x1, x2, y2) \subseteq Inner
    BY ArmLinked
  <2>9. QED BY <2>1, <2>5, <2>6, <2>7, <2>8
<1>5. QED BY <1>3, <1>4

\* A room that overlaps none is added and joined to the last one.
LEMMA RoomJoins ==
    ASSUME NEW rs, NEW fl, MapOk(rs, fl), NEW r \in Room, NEW first \in {"h", "v"},
           \A k \in 1 .. Len(rs) : ~intersects(rs[k], r)
    PROVE  MapOk(Append(rs, r),
                 fl \cup carve_room(r) \cup IF rs = << >> THEN {} ELSE Corridor(center(Last(rs)), center(r), first))
<1> DEFINE hall == IF rs = << >> THEN {} ELSE Corridor(center(Last(rs)), center(r), first)
           ns == Append(rs, r)
           nf == fl \cup carve_room(r) \cup hall
<1>1. PICK L \in Nat : L = Len(rs)
  BY DEF MapOk
<1>2. /\ ns \in Seq(Room) /\ Len(ns) = L + 1 /\ ns[L + 1] = r /\ ns # << >>
      /\ \A k \in 1 .. L : ns[k] = rs[k]
  <2>1. rs \in Seq(Room)
    BY DEF MapOk
  <2>2. QED BY <1>1, <2>1, AppendProperties
<1>3. hall \subseteq Inner /\ Linked(nf, center(ns[1]))
  <2>1. CASE rs = << >>
    <3>1. nf = carve_room(r) /\ ns[1] = r
      BY <1>1, <1>2, <2>1 DEF MapOk
    <3>2. QED BY <2>1, <3>1, RoomLinked
  <2>2. CASE rs # << >>
    <3>1. L \in 1 .. L /\ rs[L] \in Room /\ Last(rs) = rs[L] /\ ns[1] = rs[1]
      BY <1>1, <1>2, <2>2 DEF MapOk, Last
    <3>2. center(rs[L]) \in fl
      BY <1>1, <3>1, RoomInside DEF MapOk
    <3>3. center(r) \in Inner
      BY RoomInside
    <3>4. fl \in SUBSET Inner /\ Linked(fl, center(rs[1]))
      BY <2>2 DEF MapOk
    <3>5. hall = Corridor(center(rs[L]), center(r), first)
      BY <2>2, <3>1
    <3>6. Linked(fl \cup hall, center(rs[1])) /\ center(r) \in hall /\ hall \subseteq Inner
      BY <3>2, <3>3, <3>4, <3>5, CorridorLinks
    <3>7. Linked((fl \cup hall) \cup carve_room(r), center(rs[1]))
      BY <3>6, RoomLinked, LinkedUnion
    <3>8. nf = (fl \cup hall) \cup carve_room(r)
      OBVIOUS
    <3>9. QED BY <3>1, <3>6, <3>7, <3>8
  <2>3. QED BY <2>1, <2>2
<1>4. nf \subseteq Inner
  BY <1>3, RoomInside DEF MapOk
<1>5. ASSUME NEW j \in 1 .. L + 1, NEW k \in 1 .. L + 1, j < k
      PROVE  ~intersects(ns[j], ns[k])
  <2>1. CASE k = L + 1
    BY <1>1, <1>2, <1>5, <2>1
  <2>2. CASE k # L + 1
    BY <1>1, <1>2, <1>5, <2>2 DEF MapOk
  <2>3. QED BY <2>1, <2>2
<1>6. ASSUME NEW k \in 1 .. L + 1
      PROVE  carve_room(ns[k]) \subseteq nf
  <2>1. CASE k = L + 1
    BY <1>2, <2>1
  <2>2. CASE k # L + 1
    BY <1>1, <1>2, <2>2 DEF MapOk
  <2>3. QED BY <2>1, <2>2
<1> HIDE DEF ns, nf
<1>7. MapOk(ns, nf)
  BY <1>2, <1>3, <1>4, <1>5, <1>6 DEF MapOk
<1>8. QED BY <1>7 DEF ns, nf

-----------------------------------------------------------------------------
(* Reach *)

Start1 == center(rooms[1])

Spread(X) == X \cup UNION {Near(p) : p \in X}

\* The recursive function in Reach is what its definition says.
LEMMA ReachSteps ==
    ASSUME Start1 \in floor
    PROVE  \E f : /\ f[0] = {Start1} /\ Reach = f[Width * Height]
                  /\ \A n \in 1 .. Width * Height : f[n] = Spread(f[n - 1])
<1>1. PICK L \in Nat : L = Width * Height
  BY Sizes
<1> DEFINE From(g) == [n \in 0 .. L |-> IF n = 0 THEN {Start1} ELSE Spread(g[n - 1])]
           f == CHOOSE g : g = From(g)
           Q == SUBSET floor
           step == [x \in (1 .. L) \X Q |-> Spread(x[2])]
<1>2. Reach = f[L]
  BY <1>1 DEF Reach, Start1, Spread
<1>3. \A X \in Q : Spread(X) \in Q
  BY DEF Spread, Near
<1>4. \A g : From(g)[0] = {Start1} /\ \A n \in 1 .. L : From(g)[n] = Spread(g[n - 1])
  OBVIOUS
<1>5. \E g : g = From(g)
  <2>1. {Start1} \in Q
    OBVIOUS
  <2>2. step \in [(1 .. L) \X Q -> Q]
    BY <1>3
  <2>3. PICK g \in [0 .. L -> Q] : g[0] = {Start1} /\ \A n \in 1 .. L : g[n] = step[<<n, g[n - 1]>>]
    <3> HIDE DEF step, Q
    <3>1. HasRun(Q, {Start1}, L, step)
      BY <2>1, <2>2, LoopRuns
    <3>2. QED BY <3>1 DEF HasRun
  <2>4. ASSUME NEW n \in 1 .. L
        PROVE  g[n] = Spread(g[n - 1])
    <3>1. n - 1 \in 0 .. L /\ g[n - 1] \in Q
      OBVIOUS
    <3>2. step[<<n, g[n - 1]>>] = Spread(g[n - 1])
      BY <3>1
    <3>3. QED BY <2>3, <3>2
  <2>5. ASSUME NEW n \in 0 .. L
        PROVE  g[n] = From(g)[n]
    <3>1. CASE n = 0
      BY <2>3, <3>1
    <3>2. CASE n # 0
      BY <2>4, <3>2
    <3>3. QED BY <3>1, <3>2
  <2>6. g = From(g)
    BY <2>5
  <2>7. QED BY <2>6
<1>6. f = From(f)
  <2> HIDE DEF From
  <2> QED BY <1>5
<1>7. f[0] = {Start1} /\ \A n \in 1 .. L : f[n] = Spread(f[n - 1])
  <2> HIDE DEF From, f
  <2> QED BY <1>4, <1>6
<1>8. QED
  <2> HIDE DEF f
  <2> QED BY <1>1, <1>2, <1>7

\* Every turn reaches another tile until all of the floor is reached.
LEMMA ReachAll ==
    ASSUME floor \subseteq Inner, Linked(floor, Start1)
    PROVE  floor \subseteq Reach
<1>1. PICK L \in Nat : L = Width * Height
  BY Sizes
<1>2. Start1 \in floor
  BY DEF Linked
<1>3. PICK f : f[0] = {Start1} /\ Reach = f[L] /\ \A n \in 1 .. L : f[n] = Spread(f[n - 1])
  BY <1>1, <1>2, ReachSteps
<1>4. IsFiniteSet(floor) /\ Cardinality(floor) <= L
  <2>1. IsFiniteSet(1 .. Width) /\ Cardinality(1 .. Width) = Width
    BY FS_Interval, Sizes
  <2>2. IsFiniteSet(1 .. Height) /\ Cardinality(1 .. Height) = Height
    BY FS_Interval, Sizes
  <2>3. IsFiniteSet((1 .. Width) \X (1 .. Height)) /\ Cardinality((1 .. Width) \X (1 .. Height)) = L
    BY <1>1, <2>1, <2>2, FS_Product
  <2>4. Inner \subseteq (1 .. Width) \X (1 .. Height)
    BY Sizes DEF Inner
  <2>5. floor \in SUBSET ((1 .. Width) \X (1 .. Height))
    BY <2>4
  <2>6. QED BY <2>3, <2>5, FS_Subset
<1> DEFINE Ok == {n \in 0 .. L : /\ f[n] \subseteq floor /\ Start1 \in f[n]
                                 /\ f[n] = floor \/ Cardinality(f[n]) >= n + 1}
<1>5. 0 \in Ok
  <2>1. Cardinality({Start1}) = 1
    BY FS_Singleton
  <2>2. Cardinality(f[0]) >= 0 + 1
    BY <1>3, <2>1
  <2>3. QED BY <1>2, <1>3, <2>2
<1>6. ASSUME NEW n \in 1 .. L, n - 1 \in Ok
      PROVE  n \in Ok
  <2> DEFINE X == f[n - 1]
  <2>1. X \subseteq floor /\ Start1 \in X /\ (X = floor \/ Cardinality(X) >= n)
    BY <1>6
  <2>2. f[n] = Spread(X)
    BY <1>3
  <2>3. X \subseteq f[n] /\ f[n] \subseteq floor
    BY <2>1, <2>2 DEF Spread, Near
  <2>4. CASE X = floor
    BY <2>1, <2>3, <2>4
  <2>5. CASE X # floor
    <3>1. ~ClosedIn(X, floor)
      BY <2>1, <2>5 DEF Linked
    <3>2. PICK p \in X : ~(Cross(p) \cap floor \subseteq X)
      BY <3>1 DEF ClosedIn
    <3>3. Near(p) = Cross(p) \cap floor /\ Near(p) \subseteq f[n]
      BY <2>2 DEF Near, Cross, Spread
    <3>4. X # f[n]
      BY <3>2, <3>3
    <3>5. IsFiniteSet(f[n]) /\ Cardinality(f[n]) \in Nat
      BY <1>4, <2>3, FS_Subset, FS_CardinalityType
    <3>6. X \in SUBSET f[n]
      BY <2>3
    <3>7. IsFiniteSet(X) /\ Cardinality(X) <= Cardinality(f[n]) /\ Cardinality(X) # Cardinality(f[n])
      BY <3>4, <3>5, <3>6, FS_Subset
    <3>8. Cardinality(X) \in Nat
      BY <3>7, FS_CardinalityType
    <3>9. Cardinality(f[n]) >= n + 1
      BY <2>1, <2>5, <3>5, <3>7, <3>8
    <3>10. QED BY <2>1, <2>3, <3>9
  <2>6. QED BY <2>4, <2>5
<1>7. L \in Ok
  <2> HIDE DEF Ok
  <2> QED BY <1>5, <1>6, UpTo
<1>8. CASE Cardinality(f[L]) >= L + 1
  <2>1. f[L] \in SUBSET floor
    BY <1>7
  <2>2. IsFiniteSet(f[L]) /\ Cardinality(f[L]) <= Cardinality(floor)
    BY <1>4, <2>1, FS_Subset
  <2>3. Cardinality(f[L]) \in Nat /\ Cardinality(floor) \in Nat
    BY <1>4, <2>2, FS_CardinalityType
  <2>4. QED BY <1>4, <1>8, <2>2, <2>3
<1>9. QED BY <1>3, <1>7, <1>8

-----------------------------------------------------------------------------
(* Player and monsters *)

Actor == [pos : Tiles, hp : Int]

\* The player and the living monsters stand on the floor, each on a tile of
\* its own.
Apart(pl, ms) ==
    /\ pl \in Actor /\ ms \in Seq(Actor) /\ pl.pos \in floor
    /\ \A k \in 1 .. Len(ms) : ms[k].hp > 0 => ms[k].pos \in floor /\ ms[k].pos # pl.pos
    /\ \A j, k \in 1 .. Len(ms) : j # k /\ ms[j].hp > 0 /\ ms[k].hp > 0 => ms[j].pos # ms[k].pos

\* monster_at finds the living monsters.
LEMMA NobodyAt ==
    ASSUME NEW ms \in Seq(Actor), NEW p, monster_at(ms, p) = {}
    PROVE  \A k \in 1 .. Len(ms) : ms[k].hp > 0 => ms[k].pos # p
<1> DEFINE hit == {k \in DOMAIN ms : ms[k].pos = p /\ ms[k].hp > 0}
<1>1. hit = {}
  BY DEF monster_at
<1>2. DOMAIN ms = 1 .. Len(ms)
  OBVIOUS
<1>3. QED BY <1>1, <1>2

LEMMA SomebodyAt ==
    ASSUME NEW ms \in Seq(Actor), NEW p, monster_at(ms, p) # {}
    PROVE  \E k \in 1 .. Len(ms) : k = Min(monster_at(ms, p)) /\ ms[k].hp > 0
<1> DEFINE hit == {k \in DOMAIN ms : ms[k].pos = p /\ ms[k].hp > 0}
<1>1. hit # {} /\ monster_at(ms, p) = {Min(hit)}
  BY DEF monster_at
<1>2. hit \in SUBSET Nat /\ hit \subseteq 1 .. Len(ms)
  OBVIOUS
<1>3. Min(hit) \in hit
  <2> HIDE DEF hit
  <2> QED BY <1>1, <1>2, MinIn
<1> HIDE DEF hit
<1>4. Min(hit) \in 1 .. Len(ms) /\ ms[Min(hit)].hp > 0
  BY <1>2, <1>3 DEF hit
<1>5. PICK i \in 1 .. Len(ms) : monster_at(ms, p) = {i} /\ ms[i].hp > 0
  BY <1>1, <1>4
<1>6. Min({i}) = i
  BY DEF Min
<1>7. QED BY <1>5, <1>6

\* Monster k steps to a free tile.
StepsToFree(ms, k, p, ns) ==
    \E q \in Tiles : /\ q \in floor /\ q # p /\ monster_at(ms, q) = {}
                    /\ ns = [ms EXCEPT ![k].pos = q]

\* What Chase does: nothing, or one step of a monster to a free tile.
LEMMA ChaseSteps ==
    ASSUME NEW ms \in Seq(Actor), NEW k \in 1 .. Len(ms), NEW p \in Tiles
    PROVE  Chase(ms, k, p) = ms \/ StepsToFree(ms, k, p, Chase(ms, k, p))
<1> DEFINE m  == ms[k].pos
           d  == <<p[1] - m[1], p[2] - m[2]>>
           h  == <<m[1] + signum(d[1]), m[2]>>
           v  == <<m[1], m[2] + signum(d[2])>>
           tr == IF Abs(d[1]) >= Abs(d[2]) THEN <<h, v>> ELSE <<v, h>>
           ok == {n \in 1 .. 2 : tr[n] # m /\ walkable(tr[n]) /\ tr[n] # p /\ monster_at(ms, tr[n]) = {}}
<1>1. ms[k] \in Actor
  OBVIOUS
<1>2. m \in Tiles
  BY <1>1 DEF Actor
<1>3. h \in Tiles /\ v \in Tiles
  BY <1>2 DEF Tiles, signum
<1>4. \A n \in 1 .. 2 : tr[n] \in Tiles
  <2> HIDE DEF h, v, d, m
  <2> QED BY <1>3
<1>5. Chase(ms, k, p) = IF ok = {} THEN ms ELSE [ms EXCEPT ![k].pos = tr[Min(ok)]]
  BY DEF Chase
<1>6. CASE ok # {}
  <2>1. ok \in SUBSET Nat
    OBVIOUS
  <2>2. Min(ok) \in ok
    <3> HIDE DEF ok
    <3> QED BY <1>6, <2>1, MinIn
  <2> HIDE DEF tr
  <2>3. PICK n \in 1 .. 2 : n = Min(ok) /\ walkable(tr[n]) /\ tr[n] # p /\ monster_at(ms, tr[n]) = {}
    BY <2>2
  <2>4. QED BY <1>4, <1>5, <1>6, <2>3 DEF walkable, StepsToFree
<1>7. QED BY <1>5, <1>6

\* A living monster's step to a free tile keeps everyone apart.
LEMMA StepApart ==
    ASSUME NEW pl, NEW ms, Apart(pl, ms), NEW k \in 1 .. Len(ms), NEW q \in Tiles,
           q \in floor, q # pl.pos, monster_at(ms, q) = {}
    PROVE  Apart(pl, [ms EXCEPT ![k].pos = q]) /\ Len([ms EXCEPT ![k].pos = q]) = Len(ms)
<1> DEFINE ns == [ms EXCEPT ![k].pos = q]
<1>1. ms \in Seq(Actor) /\ pl \in Actor /\ pl.pos \in floor
  BY DEF Apart
<1>2. PICK L \in Nat : L = Len(ms)
  BY <1>1
<1>3. ms \in [1 .. L -> Actor]
  BY <1>1, <1>2
<1>4. /\ \A j \in 1 .. L : ns[j].hp = ms[j].hp /\ ns[j].pos = IF j = k THEN q ELSE ms[j].pos
      /\ ns \in [1 .. L -> Actor]
  BY <1>2, <1>3 DEF Actor
<1>5. \A j \in 1 .. L : ms[j].hp > 0 => ms[j].pos # q
  BY <1>1, <1>2, NobodyAt
<1> HIDE DEF ns
<1>6. ns \in Seq(Actor) /\ Len(ns) = L
  BY <1>4, IsASeq, LenProperties
<1>7. \A j \in 1 .. L : ns[j].hp > 0 => ns[j].pos \in floor /\ ns[j].pos # pl.pos
  BY <1>2, <1>4 DEF Apart
<1>8. \A i, j \in 1 .. L : i # j /\ ns[i].hp > 0 /\ ns[j].hp > 0 => ns[i].pos # ns[j].pos
  BY <1>2, <1>4, <1>5 DEF Apart
<1>9. QED BY <1>1, <1>2, <1>6, <1>7, <1>8 DEF Apart, ns

\* A turn of the loop of monsters_act keeps everyone apart.
LEMMA ActApart ==
    ASSUME NEW pl, NEW ms, Apart(pl, ms), NEW k \in 1 .. Len(ms)
    PROVE  \E pl2, ms2 : Act(<<pl, ms>>, k) = <<pl2, ms2>> /\ Apart(pl2, ms2) /\ Len(ms2) = Len(ms)
<1> DEFINE dist == Max({Abs(pl.pos[1] - ms[k].pos[1]), Abs(pl.pos[2] - ms[k].pos[2])})
           one == ms[k].hp <= 0 \/ dist > Sight
           two == ms[k].hp > 0 /\ dist <= Sight /\ dist <= 1
           hurt == [pl EXCEPT !.hp = @ - OrcPower]
<1>1. Act(<<pl, ms>>, k) = CASE one -> <<pl, ms>> [] two -> <<hurt, ms>>
                             [] OTHER -> <<pl, Chase(ms, k, pl.pos)>>
  BY DEF Act
<1>2. ms \in Seq(Actor) /\ ms[k] \in Actor /\ pl \in Actor /\ pl.pos \in Tiles
  <2>1. ms \in Seq(Actor) /\ pl \in Actor
    BY DEF Apart
  <2>2. ms[k] \in Actor
    BY <2>1
  <2>3. QED BY <2>1, <2>2 DEF Actor
<1>3. Apart(hurt, ms)
  <2>1. hurt \in Actor /\ hurt.pos = pl.pos
    <3>1. OrcPower \in Int
      BY RogueAssumption
    <3>2. QED BY <1>2, <3>1 DEF Actor
  <2> HIDE DEF hurt
  <2>2. QED BY <2>1 DEF Apart
<1>4. \E ns : ns = Chase(ms, k, pl.pos) /\ Apart(pl, ns) /\ Len(ns) = Len(ms)
  <2>1. CASE Chase(ms, k, pl.pos) = ms
    BY <2>1
  <2>2. CASE Chase(ms, k, pl.pos) # ms
    <3>1. StepsToFree(ms, k, pl.pos, Chase(ms, k, pl.pos))
      BY <1>2, <2>2, ChaseSteps
    <3>2. PICK q \in Tiles : /\ q \in floor /\ q # pl.pos /\ monster_at(ms, q) = {}
                             /\ Chase(ms, k, pl.pos) = [ms EXCEPT ![k].pos = q]
      BY <3>1 DEF StepsToFree
    <3>3. QED BY <3>2, StepApart
  <2>3. QED BY <2>1, <2>2
<1>5. ~(one /\ two)
  <2>1. ms[k].hp \in Int /\ Sight \in Int
    BY <1>2, RogueAssumption DEF Actor
  <2>2. dist \in Int
    <3>1. /\ pl.pos[1] \in Int /\ pl.pos[2] \in Int /\ ms[k].pos[1] \in Int /\ ms[k].pos[2] \in Int
      BY <1>2 DEF Actor, Tiles
    <3>2. \A a, b \in Int : Abs(a - b) \in Int
      BY DEF Abs
    <3>3. \A a, b \in Int : Max({a, b}) \in Int
      BY MinMaxOfTwo
    <3>4. QED BY <3>1, <3>2, <3>3
  <2> HIDE DEF dist
  <2>3. QED BY <2>1, <2>2
<1> HIDE DEF one, two, hurt
<1>6. CASE one
  <2>1. Act(<<pl, ms>>, k) = <<pl, ms>>
    BY <1>1, <1>5, <1>6
  <2>2. QED BY <2>1
<1>7. CASE two
  <2>1. Act(<<pl, ms>>, k) = <<hurt, ms>>
    BY <1>1, <1>5, <1>7
  <2>2. QED BY <1>3, <2>1
<1>8. CASE ~one /\ ~two
  <2>1. Act(<<pl, ms>>, k) = <<pl, Chase(ms, k, pl.pos)>>
    BY <1>1, <1>8
  <2>2. QED BY <1>4, <2>1
<1>9. QED BY <1>6, <1>7, <1>8

\* So does the whole loop, for any number of monsters.
LEMMA MonstersApart ==
    ASSUME NEW pl, NEW ms, Apart(pl, ms)
    PROVE  Apart(monsters_act(<<pl, ms>>)[1], monsters_act(<<pl, ms>>)[2])
<1>1. PICK L \in Nat : L = Len(ms)
  BY DEF Apart
<1> DEFINE g == <<pl, ms>>
           Q == {s \in Actor \X Seq(Actor) : Apart(s[1], s[2]) /\ Len(s[2]) = L}
           From(f) == [k \in 0 .. L |-> IF k = 0 THEN g ELSE Act(f[k - 1], k)]
           after == CHOOSE f : f = From(f)
           step == [x \in (1 .. L) \X Q |-> Act(x[2], x[1])]
<1>2. monsters_act(g) = after[L]
  BY <1>1 DEF monsters_act
<1>3. g \in Q
  BY <1>1 DEF Apart
<1>4. ASSUME NEW s \in Q, NEW k \in 1 .. L
      PROVE  Act(s, k) \in Q
  <2>1. s = <<s[1], s[2]>> /\ Apart(s[1], s[2]) /\ Len(s[2]) = L
    OBVIOUS
  <2>2. PICK pl2, ms2 : Act(<<s[1], s[2]>>, k) = <<pl2, ms2>> /\ Apart(pl2, ms2) /\ Len(ms2) = L
    BY <2>1, ActApart
  <2>3. <<pl2, ms2>> \in Q
    BY <2>2 DEF Apart
  <2>4. QED BY <2>1, <2>2, <2>3
<1>5. \A f : From(f)[0] = g /\ \A k \in 1 .. L : From(f)[k] = Act(f[k - 1], k)
  OBVIOUS
<1>6. \E f : f = From(f)
  <2>1. step \in [(1 .. L) \X Q -> Q]
    <3> HIDE DEF Q
    <3> QED BY <1>4
  <2>2. PICK f \in [0 .. L -> Q] : f[0] = g /\ \A k \in 1 .. L : f[k] = step[<<k, f[k - 1]>>]
    <3> HIDE DEF step, Q, g
    <3>1. HasRun(Q, g, L, step)
      BY <1>3, <2>1, LoopRuns
    <3>2. QED BY <3>1 DEF HasRun
  <2> HIDE DEF Q, g
  <2>3. ASSUME NEW k \in 0 .. L
        PROVE  f[k] = From(f)[k]
    <3>1. CASE k = 0
      BY <2>2, <3>1
    <3>2. CASE k # 0
      <4>1. k - 1 \in 0 .. L /\ f[k - 1] \in Q /\ k \in 1 .. L
        BY <3>2
      <4>2. step[<<k, f[k - 1]>>] = Act(f[k - 1], k)
        BY <4>1
      <4>3. QED BY <2>2, <3>2, <4>1, <4>2
    <3>3. QED BY <3>1, <3>2
  <2>4. f = From(f)
    BY <2>3
  <2>5. QED BY <2>4
<1>7. after = From(after)
  <2> HIDE DEF From
  <2> QED BY <1>6
<1>8. after[0] = g /\ \A k \in 1 .. L : after[k] = Act(after[k - 1], k)
  <2> HIDE DEF From, after, g
  <2> QED BY <1>5, <1>7
<1>9. \A k \in 0 .. L : k \in {j \in 0 .. L : after[j] \in Q}
  <2> DEFINE U == {j \in 0 .. L : after[j] \in Q}
  <2> HIDE DEF after, Q, g
  <2>1. 0 \in U
    BY <1>3, <1>8
  <2>2. ASSUME NEW k \in 1 .. L, k - 1 \in U
        PROVE  k \in U
    BY <1>4, <1>8, <2>2
  <2>3. QED
    <3> HIDE DEF U
    <3>1. \A k \in 0 .. L : k \in U
      BY <2>1, <2>2, UpTo
    <3>2. QED BY <3>1 DEF U
<1>10. after[L] \in Q
  <2> HIDE DEF after, Q
  <2> QED BY <1>9
<1>11. QED BY <1>2, <1>10

\* A blow at a living monster, or a step of the player to a free tile, keeps
\* everyone apart.
LEMMA BlowApart ==
    ASSUME NEW pl, NEW ms, Apart(pl, ms), NEW k \in 1 .. Len(ms), ms[k].hp > 0
    PROVE  Apart(pl, [ms EXCEPT ![k].hp = @ - PlayerPower])
<1> DEFINE ns == [ms EXCEPT ![k].hp = @ - PlayerPower]
<1>1. ms \in Seq(Actor) /\ pl \in Actor /\ pl.pos \in floor
  BY DEF Apart
<1>2. PICK L \in Nat : L = Len(ms)
  BY <1>1
<1>3. ms \in [1 .. L -> Actor] /\ PlayerPower \in Int
  BY <1>1, <1>2, RogueAssumption
<1>4. /\ \A j \in 1 .. L : ns[j].pos = ms[j].pos /\ (j # k => ns[j].hp = ms[j].hp)
      /\ ns \in [1 .. L -> Actor]
  BY <1>2, <1>3 DEF Actor
<1> HIDE DEF ns
<1>5. ns \in Seq(Actor) /\ Len(ns) = L
  BY <1>4, IsASeq, LenProperties
<1>6. \A j \in 1 .. L : ns[j].hp > 0 => ms[j].hp > 0
  BY <1>2, <1>4
<1>7. \A j \in 1 .. L : ns[j].hp > 0 => ns[j].pos \in floor /\ ns[j].pos # pl.pos
  BY <1>2, <1>4, <1>6 DEF Apart
<1>8. \A i, j \in 1 .. L : i # j /\ ns[i].hp > 0 /\ ns[j].hp > 0 => ns[i].pos # ns[j].pos
  BY <1>2, <1>4, <1>6 DEF Apart
<1>9. QED BY <1>1, <1>2, <1>5, <1>7, <1>8 DEF Apart, ns

LEMMA WalkApart ==
    ASSUME NEW pl, NEW ms, Apart(pl, ms), NEW n \in Tiles, n \in floor, monster_at(ms, n) = {}
    PROVE  Apart([pl EXCEPT !.pos = n], ms)
<1> DEFINE np == [pl EXCEPT !.pos = n]
<1>1. ms \in Seq(Actor) /\ pl \in Actor
  BY DEF Apart
<1>2. np \in Actor /\ np.pos = n
  BY <1>1 DEF Actor
<1>3. \A k \in 1 .. Len(ms) : ms[k].hp > 0 => ms[k].pos # n
  BY <1>1, NobodyAt
<1> HIDE DEF np
<1>4. QED BY <1>2, <1>3 DEF Apart, np

\* Rooms that do not intersect share no tile.
LEMMA RoomsDisjoint ==
    ASSUME NEW r \in Room, NEW o \in Room, ~intersects(r, o), NEW p \in carve_room(r)
    PROVE  p \notin carve_room(o)
<1>1. PICK rx \in Int, ry \in Int, rw \in Int, rh \in Int : rx = r.x /\ ry = r.y /\ rw = r.w /\ rh = r.h
  BY RoomInside
<1>2. PICK ox \in Int, oy \in Int, ow \in Int, oh \in Int : ox = o.x /\ oy = o.y /\ ow = o.w /\ oh = o.h
  BY RoomInside
<1>3. ~(rx <= ox + ow /\ rx + rw >= ox /\ ry <= oy + oh /\ ry + rh >= oy)
  BY <1>1, <1>2 DEF intersects
<1>4. p \in (rx .. rx + rw - 1) \X (ry .. ry + rh - 1)
  BY <1>1 DEF carve_room
<1>5. PICK a \in rx .. rx + rw - 1, b \in ry .. ry + rh - 1 : p = <<a, b>>
  BY <1>4
<1>6. ~(a \in ox .. ox + ow - 1 /\ b \in oy .. oy + oh - 1)
  BY <1>3
<1>7. <<a, b>> \notin (ox .. ox + ow - 1) \X (oy .. oy + oh - 1)
  BY <1>6
<1>8. QED BY <1>2, <1>5, <1>7 DEF carve_room

-----------------------------------------------------------------------------
(* The inductive invariant and the theorems *)

RogueInd ==
    /\ MapOk(rooms, floor) /\ tries \in Int
    /\ rooms = << >> => tries = Attempts
    /\ tries = -1 => Apart(player, monsters)

LEMMA RogueIndInit == RogueInit => RogueInd
<1> SUFFICES ASSUME RogueInit PROVE RogueInd
  OBVIOUS
<1>1. MapOk(<< >>, {})
  <2>1. << >> \in Seq(Room) /\ Len(<< >>) = 0
    OBVIOUS
  <2>2. QED BY <2>1 DEF MapOk
<1>2. Attempts \in Int /\ Attempts # -1
  BY RogueAssumption
<1>3. QED BY <1>1, <1>2 DEF RogueInit, RogueInd

LEMMA RogueIndPlace == RogueInd /\ Place => RogueInd'
<1> SUFFICES ASSUME RogueInd, Place PROVE RogueInd'
  OBVIOUS
<1>1. MapOk(rooms, floor) /\ tries \in Int /\ tries > 0 /\ tries' = tries - 1
  BY DEF RogueInd, Place
<1>2. PICK w \in RoomW, h \in RoomH : \E x \in 1 .. Width - w - 2, y \in 1 .. Height - h - 2 :
         LET room == [x |-> x, y |-> y, w |-> w, h |-> h]
         IN \/ /\ \E k \in DOMAIN rooms : intersects(rooms[k], room)
               /\ UNCHANGED <<rooms, floor>>
            \/ /\ \A k \in DOMAIN rooms : ~intersects(rooms[k], room)
               /\ rooms' = Append(rooms, room)
               /\ \E first \in {"h", "v"} :
                    floor' = floor \cup carve_room(room)
                               \cup IF rooms = << >> THEN {} ELSE Corridor(center(Last(rooms)), center(room), first)
  BY DEF Place
<1>3. PICK x \in 1 .. Width - w - 2, y \in 1 .. Height - h - 2 :
         LET room == [x |-> x, y |-> y, w |-> w, h |-> h]
         IN \/ /\ \E k \in DOMAIN rooms : intersects(rooms[k], room)
               /\ UNCHANGED <<rooms, floor>>
            \/ /\ \A k \in DOMAIN rooms : ~intersects(rooms[k], room)
               /\ rooms' = Append(rooms, room)
               /\ \E first \in {"h", "v"} :
                    floor' = floor \cup carve_room(room)
                               \cup IF rooms = << >> THEN {} ELSE Corridor(center(Last(rooms)), center(room), first)
  BY <1>2
<1> DEFINE room == [x |-> x, y |-> y, w |-> w, h |-> h]
<1>4. room \in Room
  <2>1. Width \in Int /\ Height \in Int /\ w \in Int /\ h \in Int
    BY Sizes
  <2>2. x \in Nat /\ y \in Nat /\ x > 0 /\ y > 0 /\ x + w <= Width - 2 /\ y + h <= Height - 2
    BY <2>1
  <2>3. room \in [x : Nat, y : Nat, w : RoomW, h : RoomH]
    BY <2>2
  <2>4. QED BY <2>2, <2>3 DEF Room
<1>5. rooms \in Seq(Room) /\ DOMAIN rooms = 1 .. Len(rooms)
  BY <1>1 DEF MapOk
<1>6. CASE UNCHANGED <<rooms, floor>> /\ \E k \in DOMAIN rooms : intersects(rooms[k], room)
  <2>1. rooms # << >>
    BY <1>5, <1>6
  <2>2. MapOk(rooms, floor)'
    BY <1>1, <1>6 DEF MapOk, Inner
  <2>3. QED BY <1>1, <1>6, <2>1, <2>2 DEF RogueInd
<1>7. CASE /\ \A k \in DOMAIN rooms : ~intersects(rooms[k], room)
           /\ rooms' = Append(rooms, room)
           /\ \E first \in {"h", "v"} :
                floor' = floor \cup carve_room(room)
                           \cup IF rooms = << >> THEN {} ELSE Corridor(center(Last(rooms)), center(room), first)
  <2> HIDE DEF room
  <2>1. PICK first \in {"h", "v"} :
          floor' = floor \cup carve_room(room)
                     \cup IF rooms = << >> THEN {} ELSE Corridor(center(Last(rooms)), center(room), first)
    BY <1>7
  <2>2. \A k \in 1 .. Len(rooms) : ~intersects(rooms[k], room)
    BY <1>5, <1>7
  <2>3. MapOk(rooms', floor')
    BY <1>1, <1>4, <1>7, <2>1, <2>2, RoomJoins
  <2>4. MapOk(rooms, floor)'
    BY <2>3 DEF MapOk, Inner
  <2>5. rooms' # << >>
    BY <1>4, <1>5, <1>7
  <2>6. QED BY <1>1, <2>4, <2>5 DEF RogueInd
<1>8. QED BY <1>3, <1>6, <1>7

LEMMA RogueIndStart == RogueInd /\ Start => RogueInd'
<1> SUFFICES ASSUME RogueInd, Start PROVE RogueInd'
  OBVIOUS
<1>1. MapOk(rooms, floor) /\ rooms # << >> /\ UNCHANGED <<rooms, floor>> /\ tries' = -1
  <2>1. Attempts # 0
    BY RogueAssumption
  <2>2. QED BY <2>1 DEF RogueInd, Start
<1>2. MapOk(rooms, floor)'
  BY <1>1 DEF MapOk, Inner
<1>3. PICK at \in [2 .. Len(rooms) -> floor] :
         /\ \A k \in 2 .. Len(rooms) : at[k] \in carve_room(rooms[k])
         /\ monsters' = [k \in 1 .. Len(rooms) - 1 |-> [pos |-> at[k + 1], hp |-> OrcHp]]
  BY DEF Start
<1>4. PICK L \in Nat : L = Len(rooms) /\ L >= 1
  BY <1>1 DEF MapOk
<1>5. \A k \in 1 .. L : rooms[k] \in Room
  BY <1>1, <1>4 DEF MapOk
<1>6. floor \subseteq Tiles
  <2>1. Inner \subseteq Tiles
    BY Sizes DEF Inner, Tiles
  <2>2. QED BY <1>1, <2>1 DEF MapOk
<1>7. player' \in Actor /\ player'.pos = center(rooms[1]) /\ player'.pos \in carve_room(rooms[1]) /\ player'.pos \in floor
  <2>1. PICK c : c = center(rooms[1]) /\ c \in carve_room(rooms[1])
    BY <1>4, <1>5, RoomInside
  <2>2. c \in floor
    BY <1>1, <1>4, <2>1 DEF MapOk
  <2>3. player' = [pos |-> c, hp |-> PlayerHp]
    BY <2>1 DEF Start
  <2>4. PlayerHp \in Int
    BY RogueAssumption
  <2>5. QED BY <1>6, <2>1, <2>2, <2>3, <2>4 DEF Actor
<1>8. /\ monsters' \in Seq(Actor) /\ Len(monsters') = L - 1
      /\ \A k \in 1 .. L - 1 : monsters'[k].pos = at[k + 1]
  <2> DEFINE ns == [k \in 1 .. L - 1 |-> [pos |-> at[k + 1], hp |-> OrcHp]]
  <2>1. OrcHp \in Int
    BY RogueAssumption
  <2>2. \A k \in 1 .. L - 1 : at[k + 1] \in Tiles
    BY <1>3, <1>4, <1>6
  <2>3. ns \in [1 .. L - 1 -> Actor]
    BY <2>1, <2>2 DEF Actor
  <2>4. monsters' = ns /\ \A k \in 1 .. L - 1 : ns[k].pos = at[k + 1]
    BY <1>3, <1>4
  <2> HIDE DEF ns
  <2>5. L - 1 \in Nat
    BY <1>4
  <2>6. ns \in Seq(Actor) /\ Len(ns) = L - 1
    BY <2>3, <2>5, IsASeq, LenProperties
  <2>7. QED BY <2>4, <2>6
<1>9. \A k \in 1 .. L - 1 : at[k + 1] \in carve_room(rooms[k + 1]) /\ at[k + 1] \in floor
  BY <1>3, <1>4
<1>10. \A j, k \in 1 .. L : j < k => ~intersects(rooms[j], rooms[k])
  BY <1>1, <1>4 DEF MapOk
<1>11. \A k \in 1 .. L - 1 : monsters'[k].pos # player'.pos
  <2> SUFFICES ASSUME NEW k \in 1 .. L - 1 PROVE at[k + 1] # player'.pos
    BY <1>8
  <2>1. 1 \in 1 .. L /\ k + 1 \in 1 .. L /\ 1 < k + 1
    BY <1>4
  <2>2. ~intersects(rooms[1], rooms[k + 1])
    BY <1>10, <2>1
  <2>3. QED BY <1>5, <1>7, <1>9, <2>1, <2>2, RoomsDisjoint
<1>12. \A j, k \in 1 .. L - 1 : j # k => monsters'[j].pos # monsters'[k].pos
  <2>1. ASSUME NEW j \in 1 .. L - 1, NEW k \in 1 .. L - 1, j < k
        PROVE  at[j + 1] # at[k + 1]
    <3>1. j + 1 \in 1 .. L /\ k + 1 \in 1 .. L /\ j + 1 < k + 1
      BY <1>4, <2>1
    <3>2. ~intersects(rooms[j + 1], rooms[k + 1])
      BY <1>10, <3>1
    <3>3. QED BY <1>5, <1>9, <3>1, <3>2, RoomsDisjoint
  <2>2. \A j, k \in 1 .. L - 1 : j # k => j < k \/ k < j
    BY <1>4
  <2>3. QED BY <1>8, <2>1, <2>2
<1>13. Apart(player, monsters)'
  BY <1>1, <1>7, <1>8, <1>9, <1>11, <1>12 DEF Apart, Actor, Tiles
<1>14. QED BY <1>1, <1>2, <1>13 DEF RogueInd

LEMMA RogueIndMove == RogueInd /\ player_move => RogueInd'
<1> SUFFICES ASSUME RogueInd, player_move PROVE RogueInd'
  OBVIOUS
<1>1. MapOk(rooms, floor) /\ UNCHANGED <<rooms, floor, tries>> /\ tries = -1 /\ Apart(player, monsters)
  BY DEF RogueInd, player_move
<1>2. MapOk(rooms, floor)'
  BY <1>1 DEF MapOk, Inner
<1>3. PICK d \in (-1 .. 1) \X (-1 .. 1) :
         LET n   == <<player.pos[1] + d[1], player.pos[2] + d[2]>>
             hit == monster_at(monsters, n)
             g   == IF hit # {} THEN <<player, [monsters EXCEPT ![Min(hit)].hp = @ - PlayerPower]>>
                    ELSE <<[player EXCEPT !.pos = n], monsters>>
         IN /\ hit # {} \/ walkable(n)
            /\ player' = monsters_act(g)[1] /\ monsters' = monsters_act(g)[2]
  BY DEF player_move
<1> DEFINE n   == <<player.pos[1] + d[1], player.pos[2] + d[2]>>
           hit == monster_at(monsters, n)
           g   == IF hit # {} THEN <<player, [monsters EXCEPT ![Min(hit)].hp = @ - PlayerPower]>>
                  ELSE <<[player EXCEPT !.pos = n], monsters>>
<1>4. /\ hit # {} \/ walkable(n)
      /\ player' = monsters_act(g)[1] /\ monsters' = monsters_act(g)[2]
  BY <1>3
<1>5. monsters \in Seq(Actor) /\ player \in Actor /\ n \in Tiles
  <2>1. monsters \in Seq(Actor) /\ player \in Actor
    BY <1>1 DEF Apart
  <2>2. player.pos \in Tiles
    BY <2>1 DEF Actor
  <2>3. QED BY <2>1, <2>2 DEF Tiles
<1> HIDE DEF n
<1>6. CASE hit # {}
  <2>1. PICK k \in 1 .. Len(monsters) : k = Min(hit) /\ monsters[k].hp > 0
    BY <1>5, <1>6, SomebodyAt
  <2>2. g = <<player, [monsters EXCEPT ![k].hp = @ - PlayerPower]>>
    BY <1>6, <2>1
  <2>3. Apart(player, [monsters EXCEPT ![k].hp = @ - PlayerPower])
    BY <1>1, <2>1, BlowApart
  <2>4. Apart(player', monsters')
    <3> HIDE DEF g, hit
    <3> QED BY <1>4, <2>2, <2>3, MonstersApart
  <2>5. QED BY <1>1, <1>2, <2>4 DEF RogueInd, Apart, Actor, Tiles
<1>7. CASE hit = {}
  <2>1. Apart([player EXCEPT !.pos = n], monsters)
    BY <1>1, <1>4, <1>5, <1>7, WalkApart DEF walkable
  <2>2. g = <<[player EXCEPT !.pos = n], monsters>>
    BY <1>7
  <2>3. Apart(player', monsters')
    <3> HIDE DEF g, hit
    <3> QED BY <1>4, <2>1, <2>2, MonstersApart
  <2>4. QED BY <1>1, <1>2, <2>3 DEF RogueInd, Apart, Actor, Tiles
<1>8. QED BY <1>6, <1>7

LEMMA RogueIndStutter == RogueInd /\ UNCHANGED game => RogueInd'
BY DEF RogueInd, game, MapOk, Inner, Apart, Actor, Tiles

LEMMA RogueIndImplies == RogueInd => Connected /\ ActorsApart
<1> SUFFICES ASSUME RogueInd PROVE Connected /\ ActorsApart
  OBVIOUS
<1>1. MapOk(rooms, floor)
  BY DEF RogueInd
<1>2. rooms # << >> => floor \subseteq Reach
  BY <1>1, ReachAll DEF MapOk, Start1
<1>3. \A p \in floor : p[1] \in 1 .. Width - 2 /\ p[2] \in 1 .. Height - 2
  BY <1>1 DEF MapOk, Inner
<1>4. ActorsApart
  <2>1. CASE tries # -1
    BY <2>1 DEF ActorsApart
  <2>2. CASE tries = -1
    <3>1. Apart(player, monsters)
      BY <2>2 DEF RogueInd
    <3>2. DOMAIN monsters = 1 .. Len(monsters)
      BY <3>1 DEF Apart
    <3>3. QED BY <3>1, <3>2 DEF Apart, ActorsApart
  <2>3. QED BY <2>1, <2>2
<1>5. QED BY <1>2, <1>3, <1>4 DEF Connected

\* Map generation and play keep RogueInd: rooms never overlap, the floor hangs
\* together, and the actors stay apart.
THEOREM RogueInvariant == RogueSpec => []RogueInd
<1>1. RogueInd /\ [RogueNext]_game => RogueInd'
  BY RogueIndPlace, RogueIndStart, RogueIndMove, RogueIndStutter DEF RogueNext
<1>2. QED BY <1>1, RogueIndInit, PTL DEF RogueSpec

\* For every size of the map and of rooms, and however the rooms fall, every
\* tile generate carves can be reached from the first room and the outer wall
\* stays closed.
THEOREM MapConnected == RogueSpec => []Connected
BY RogueInvariant, RogueIndImplies, PTL

\* For any number of monsters and moves, player_move and monsters_act never put
\* two living actors on one tile, nor one into a wall.
THEOREM NobodyShares == RogueSpec => []ActorsApart
BY RogueInvariant, RogueIndImplies, PTL

-----------------------------------------------------------------------------
(* The editor *)

-----------------------------------------------------------------------------
(* Rows and the text they stand for *)

Glyph == STRING \cup {NL}
Line1 == Seq(Glyph)
Text == Seq(Line1)
Ended(rs) == [k \in DOMAIN rs |-> Append(rs[k], NL)]

LEMMA NLGlyph == NL \in Glyph
BY DEF Glyph

LEMMA EndedType ==
    ASSUME NEW rs \in Text
    PROVE  Ended(rs) \in Text /\ Len(Ended(rs)) = Len(rs) /\ \A k \in 1 .. Len(rs) : Ended(rs)[k] = Append(rs[k], NL)
<1>1. PICK L \in Nat : L = Len(rs) /\ DOMAIN rs = 1 .. L
  BY DEF Text
<1> DEFINE es == [k \in 1 .. L |-> Append(rs[k], NL)]
<1>2. Ended(rs) = es
  BY <1>1 DEF Ended
<1>3. \A k \in 1 .. L : Append(rs[k], NL) \in Line1
  <2> SUFFICES ASSUME NEW k \in 1 .. L PROVE Append(rs[k], NL) \in Line1
    OBVIOUS
  <2>1. rs[k] \in Line1
    BY <1>1 DEF Text
  <2>2. QED BY <2>1, NLGlyph, AppendProperties DEF Line1
<1>4. es \in [1 .. L -> Line1] /\ \A k \in 1 .. L : es[k] = Append(rs[k], NL)
  BY <1>3
<1> HIDE DEF es
<1>5. es \in Seq(Line1) /\ Len(es) = L
  BY <1>4, IsASeq, LenProperties
<1>6. QED BY <1>1, <1>2, <1>4, <1>5 DEF Text

LEMMA FlatIs ==
    ASSUME NEW rs \in Text
    PROVE  Flat(rs) = FlattenSeq(Ended(rs)) /\ Flat(rs) \in Seq(Glyph)
<1>1. Flat(rs) = FlattenSeq(Ended(rs))
  BY DEF Flat, Ended
<1>2. Ended(rs) \in Seq(Seq(Glyph))
  BY EndedType DEF Text, Line1
<1>3. QED BY <1>1, <1>2, FlattenType

LEMMA FlatNone == Flat(<< >>) = << >>
<1>1. << >> \in Text /\ Len(<< >>) = 0
  BY DEF Text
<1>2. Ended(<< >>) \in Text /\ Len(Ended(<< >>)) = 0
  BY <1>1, EndedType
<1>3. Ended(<< >>) = << >>
  BY <1>2, EmptySeq DEF Text
<1>4. QED BY <1>1, <1>3, FlatIs, FlattenEmpty

LEMMA FlatOne ==
    ASSUME NEW r \in Seq(Glyph)
    PROVE  Flat(<<r>>) = r \o <<NL>>
<1>1. <<r>> \in Text /\ Len(<<r>>) = 1 /\ <<r>>[1] = r
  BY DEF Text, Line1
<1>2. Ended(<<r>>) \in Text /\ Len(Ended(<<r>>)) = 1 /\ Ended(<<r>>)[1] = Append(r, NL)
  <2>1. PICK o : o = <<r>> /\ o \in Text /\ Len(o) = 1 /\ o[1] = r
    BY <1>1
  <2>2. Ended(o) \in Text /\ Len(Ended(o)) = Len(o) /\ \A k \in 1 .. Len(o) : Ended(o)[k] = Append(o[k], NL)
    BY <2>1, EndedType
  <2>3. 1 \in 1 .. Len(o)
    BY <2>1
  <2>4. Ended(o)[1] = Append(r, NL)
    BY <2>1, <2>2, <2>3, Zenon
  <2>5. QED BY <2>1, <2>2, <2>4
<1>3. Append(r, NL) \in Seq(Glyph) /\ Append(r, NL) = r \o <<NL>>
  BY NLGlyph, AppendProperties, AppendIsConcat
<1>4. Ended(<<r>>) = <<Append(r, NL)>>
  <2>1. <<Append(r, NL)>> \in Text /\ Len(<<Append(r, NL)>>) = 1 /\ <<Append(r, NL)>>[1] = Append(r, NL)
    BY <1>3 DEF Text, Line1
  <2>2. QED BY <1>2, <2>1, SeqEqual DEF Text
<1>5. FlattenSeq(<<Append(r, NL)>>) = Append(r, NL)
  BY <1>3, FlattenOne
<1>6. QED BY <1>1, <1>3, <1>4, <1>5, FlatIs

LEMMA FlatConcat ==
    ASSUME NEW a \in Text, NEW b \in Text
    PROVE  Flat(a \o b) = Flat(a) \o Flat(b)
<1>1. a \o b \in Text /\ Len(a \o b) = Len(a) + Len(b)
  BY ConcatProperties DEF Text
<1>2. PICK A \in Nat, B \in Nat : A = Len(a) /\ B = Len(b)
  BY DEF Text
<1> DEFINE ea == Ended(a)
           eb == Ended(b)
           e  == Ended(a \o b)
<1>3. /\ ea \in Text /\ Len(ea) = A /\ \A k \in 1 .. A : ea[k] = Append(a[k], NL)
      /\ eb \in Text /\ Len(eb) = B /\ \A k \in 1 .. B : eb[k] = Append(b[k], NL)
      /\ e \in Text /\ Len(e) = A + B /\ \A k \in 1 .. A + B : e[k] = Append((a \o b)[k], NL)
  <2>1. e \in Text /\ Len(e) = Len(a \o b) /\ \A k \in 1 .. Len(a \o b) : e[k] = Append((a \o b)[k], NL)
    BY <1>1, EndedType
  <2>2. QED BY <1>1, <1>2, <2>1, EndedType
<1> HIDE DEF ea, eb, e
<1>4. \A k \in 1 .. A + B : (a \o b)[k] = IF k <= A THEN a[k] ELSE b[k - A]
  BY <1>2, ConcatProperties DEF Text
<1>5. ea \o eb \in Text /\ Len(ea \o eb) = A + B
      /\ \A k \in 1 .. A + B : (ea \o eb)[k] = IF k <= A THEN ea[k] ELSE eb[k - A]
  BY <1>3, ConcatProperties DEF Text
<1>6. ASSUME NEW k \in 1 .. A + B PROVE e[k] = (ea \o eb)[k]
  <2>1. CASE k <= A
    <3>1. k \in 1 .. A
      BY <2>1
    <3>2. QED BY <1>3, <1>4, <1>5, <2>1, <3>1
  <2>2. CASE k > A
    <3>1. k - A \in 1 .. B /\ ~(k <= A)
      BY <2>2
    <3>2. (a \o b)[k] = b[k - A] /\ (ea \o eb)[k] = eb[k - A]
      BY <1>4, <1>5, <3>1
    <3>3. e[k] = Append((a \o b)[k], NL) /\ eb[k - A] = Append(b[k - A], NL)
      BY <1>3, <3>1, Zenon
    <3>4. QED BY <3>2, <3>3, Zenon
  <2>3. k <= A \/ k > A
    OBVIOUS
  <2>4. QED BY <2>1, <2>2, <2>3, Zenon
<1>7. e = ea \o eb
  BY <1>3, <1>5, <1>6, SeqEqual DEF Text
<1>8. FlattenSeq(ea \o eb) = FlattenSeq(ea) \o FlattenSeq(eb)
  BY <1>3, FlattenConcat DEF Text, Line1
<1>9. Flat(a) = FlattenSeq(ea) /\ Flat(b) = FlattenSeq(eb) /\ Flat(a \o b) = FlattenSeq(e)
  BY <1>1, FlatIs DEF ea, eb, e
<1>10. QED BY <1>7, <1>8, <1>9

-----------------------------------------------------------------------------
(* The cursor *)

Pos == [x : Nat, y : Nat]
RowLen(rs, y) == IF y < Len(rs) THEN Len(rs[y + 1]) ELSE 0

\* The cursor is at a character of the text, or behind a row or the last one.
On(rs, c) == c \in Pos /\ c.y <= Len(rs) /\ c.x <= RowLen(rs, c.y)

LEMMA AtPos ==
    ASSUME NEW x \in Nat, NEW y \in Nat
    PROVE  At(x, y) \in Pos /\ At(x, y).x = x /\ At(x, y).y = y
BY DEF At, Pos

LEMMA RowLenNat ==
    ASSUME NEW rs \in Text, NEW y \in Nat
    PROVE  RowLen(rs, y) \in Nat /\ (y < Len(rs) => y + 1 \in 1 .. Len(rs) /\ rs[y + 1] \in Line1)
<1>1. PICK L \in Nat : L = Len(rs)
  BY DEF Text
<1>2. CASE y < L
  <2>1. y + 1 \in 1 .. Len(rs)
    BY <1>1, <1>2
  <2>2. rs[y + 1] \in Line1
    BY <2>1, ElementOfSeq DEF Text
  <2>3. Len(rs[y + 1]) \in Nat
    BY <2>2, LenProperties DEF Line1
  <2>4. QED BY <1>1, <1>2, <2>1, <2>2, <2>3 DEF RowLen
<1>3. QED BY <1>1, <1>2 DEF RowLen

Keys == {"Up", "Down", "Left", "Right", "PageUp", "PageDown", "Home", "End"}

\* Where a key takes the cursor before it is clamped to the row.
Target(rs, c, key) ==
    CASE key = "Up" -> At(c.x, IF c.y = 0 THEN 0 ELSE c.y - 1)
      [] key = "Down" -> At(c.x, Min({c.y + 1, Len(rs)}))
      [] key = "Left" -> IF c.x > 0 THEN At(c.x - 1, c.y)
                         ELSE IF c.y > 0 THEN At(RowLen(rs, c.y - 1), c.y - 1) ELSE c
      [] key = "Right" -> IF c.x < RowLen(rs, c.y) THEN At(c.x + 1, c.y)
                          ELSE IF c.y < Len(rs) THEN At(0, c.y + 1) ELSE c
      [] key = "PageUp" -> At(c.x, IF c.y < ScreenHeight THEN 0 ELSE c.y - ScreenHeight)
      [] key = "PageDown" -> At(c.x, Min({c.y + ScreenHeight, Len(rs)}))
      [] key = "Home" -> At(0, c.y)
      [] key = "End" -> At(RowLen(rs, c.y), c.y)

LEMMA MovedIs ==
    ASSUME NEW rs, NEW c, NEW key
    PROVE  Moved(rs, c, key) =
             At(Min({Target(rs, c, key).x, RowLen(rs, Target(rs, c, key).y)}), Target(rs, c, key).y)
BY DEF Moved, Target, RowLen

LEMMA TargetPos ==
    ASSUME NEW rs \in Text, NEW c \in Pos, NEW key \in Keys
    PROVE  \E x, y \in Nat : /\ Target(rs, c, key) = At(x, y)
                             /\ c.y <= Len(rs) => y <= Len(rs)
<1>1. PICK L \in Nat : L = Len(rs)
  BY DEF Text
<1>2. PICK a \in Nat, b \in Nat : a = c.x /\ b = c.y
  BY DEF Pos
<1>3. ScreenHeight \in Nat \ {0}
  BY EditorAssumption
<1>4. c = At(a, b)
  BY <1>2 DEF Pos, At
<1>5. \A n \in Nat : Min({n, L}) \in Nat /\ Min({n, L}) <= L
  BY MinMaxOfTwo
<1>6. RowLen(rs, b) \in Nat /\ (b > 0 => RowLen(rs, b - 1) \in Nat)
  <2>1. b > 0 => b - 1 \in Nat
    OBVIOUS
  <2>2. QED BY <2>1, RowLenNat
<1>7. CASE key = "Up"
  BY <1>1, <1>2, <1>7 DEF Target
<1>8. CASE key = "Down"
  <2>1. Target(rs, c, key) = At(a, Min({b + 1, L}))
    BY <1>1, <1>2, <1>8 DEF Target
  <2>2. b + 1 \in Nat
    OBVIOUS
  <2>3. QED BY <1>1, <1>5, <2>1, <2>2
<1>9. CASE key = "Left"
  <2>1. Target(rs, c, key) = IF a > 0 THEN At(a - 1, b) ELSE IF b > 0 THEN At(RowLen(rs, b - 1), b - 1) ELSE At(a, b)
    BY <1>2, <1>4, <1>9 DEF Target
  <2>2. (a > 0 => a - 1 \in Nat) /\ (b > 0 => b - 1 \in Nat)
    OBVIOUS
  <2>3. QED BY <1>1, <1>2, <1>6, <2>1, <2>2
<1>10. CASE key = "Right"
  <2>1. Target(rs, c, key) = IF a < RowLen(rs, b) THEN At(a + 1, b) ELSE IF b < L THEN At(0, b + 1) ELSE At(a, b)
    BY <1>1, <1>2, <1>4, <1>10 DEF Target
  <2>2. QED BY <1>1, <1>2, <2>1
<1>11. CASE key = "PageUp"
  <2>1. Target(rs, c, key) = At(a, IF b < ScreenHeight THEN 0 ELSE b - ScreenHeight)
    BY <1>2, <1>11 DEF Target
  <2>2. QED BY <1>1, <1>2, <1>3, <2>1
<1>12. CASE key = "PageDown"
  <2>1. Target(rs, c, key) = At(a, Min({b + ScreenHeight, L}))
    BY <1>1, <1>2, <1>12 DEF Target
  <2>2. b + ScreenHeight \in Nat
    BY <1>3
  <2>3. QED BY <1>1, <1>5, <2>1, <2>2
<1>13. CASE key = "Home"
  <2>1. Target(rs, c, key) = At(0, b)
    BY <1>2, <1>13 DEF Target
  <2>2. QED BY <1>2, <2>1
<1>14. CASE key = "End"
  <2>1. Target(rs, c, key) = At(RowLen(rs, b), b)
    BY <1>2, <1>14 DEF Target
  <2>2. QED BY <1>2, <1>6, <2>1
<1>15. QED BY <1>7, <1>8, <1>9, <1>10, <1>11, <1>12, <1>13, <1>14 DEF Keys

\* A key leaves the cursor at a place of the text, if its row was one.
LEMMA MovedOn ==
    ASSUME NEW rs \in Text, NEW c \in Pos, NEW key \in Keys
    PROVE  Moved(rs, c, key) \in Pos /\ (c.y <= Len(rs) => On(rs, Moved(rs, c, key)))
<1>1. PICK x \in Nat, y \in Nat : Target(rs, c, key) = At(x, y) /\ (c.y <= Len(rs) => y <= Len(rs))
  BY TargetPos
<1>2. RowLen(rs, y) \in Nat
  BY RowLenNat
<1>3. PICK z \in Nat : z = Min({x, RowLen(rs, y)}) /\ z <= RowLen(rs, y)
  BY <1>2, MinMaxOfTwo
<1>4. Moved(rs, c, key) = At(z, y)
  <2>1. Target(rs, c, key).x = x /\ Target(rs, c, key).y = y
    BY <1>1, AtPos
  <2>2. QED BY <1>3, <2>1, MovedIs
<1>5. At(z, y) \in Pos /\ At(z, y).x = z /\ At(z, y).y = y
  BY AtPos
<1>6. QED BY <1>1, <1>3, <1>4, <1>5 DEF On

LEMMA Clamped ==
    ASSUME NEW rs \in Text, NEW c, NEW key, NEW x \in Nat, NEW y \in Nat,
           Target(rs, c, key) = At(x, y), x <= RowLen(rs, y)
    PROVE  Moved(rs, c, key) = At(x, y)
<1>1. RowLen(rs, y) \in Nat
  BY RowLenNat
<1>2. Min({x, RowLen(rs, y)}) = x
  BY <1>1, MinMaxOfTwo
<1>3. Target(rs, c, key).x = x /\ Target(rs, c, key).y = y
  BY AtPos
<1>4. QED BY <1>2, <1>3, MovedIs

LEMMA RightAndLeft ==
    ASSUME NEW rs \in Text, NEW x \in Nat, NEW y \in Nat
    PROVE  /\ x < RowLen(rs, y) => Moved(rs, At(x, y), "Right") = At(x + 1, y)
           /\ x = RowLen(rs, y) /\ y < Len(rs) => Moved(rs, At(x, y), "Right") = At(0, y + 1)
           /\ x > 0 /\ x <= RowLen(rs, y) => Moved(rs, At(x, y), "Left") = At(x - 1, y)
           /\ x = 0 /\ y > 0 => Moved(rs, At(x, y), "Left") = At(RowLen(rs, y - 1), y - 1)
<1>1. At(x, y).x = x /\ At(x, y).y = y
  BY AtPos
<1>2. RowLen(rs, y) \in Nat /\ RowLen(rs, y + 1) \in Nat /\ (y > 0 => y - 1 \in Nat /\ RowLen(rs, y - 1) \in Nat)
  <2>1. y + 1 \in Nat /\ (y > 0 => y - 1 \in Nat)
    OBVIOUS
  <2>2. QED BY <2>1, RowLenNat
<1>3. ASSUME x < RowLen(rs, y) PROVE Moved(rs, At(x, y), "Right") = At(x + 1, y)
  <2>1. Target(rs, At(x, y), "Right") = At(x + 1, y)
    BY <1>1, <1>3 DEF Target
  <2>2. x + 1 \in Nat /\ x + 1 <= RowLen(rs, y)
    BY <1>2, <1>3
  <2>3. QED BY <2>1, <2>2, Clamped
<1>4. ASSUME x = RowLen(rs, y), y < Len(rs) PROVE Moved(rs, At(x, y), "Right") = At(0, y + 1)
  <2>1. Target(rs, At(x, y), "Right") = At(0, y + 1)
    BY <1>1, <1>2, <1>4 DEF Target
  <2>2. y + 1 \in Nat /\ 0 \in Nat /\ 0 <= RowLen(rs, y + 1)
    BY <1>2
  <2>3. QED BY <2>1, <2>2, Clamped
<1>5. ASSUME x > 0, x <= RowLen(rs, y) PROVE Moved(rs, At(x, y), "Left") = At(x - 1, y)
  <2>1. Target(rs, At(x, y), "Left") = At(x - 1, y)
    BY <1>1, <1>5 DEF Target
  <2>2. x - 1 \in Nat /\ x - 1 <= RowLen(rs, y)
    BY <1>2, <1>5
  <2>3. QED BY <2>1, <2>2, Clamped
<1>6. ASSUME x = 0, y > 0 PROVE Moved(rs, At(x, y), "Left") = At(RowLen(rs, y - 1), y - 1)
  <2>1. Target(rs, At(x, y), "Left") = At(RowLen(rs, y - 1), y - 1)
    BY <1>1, <1>6 DEF Target
  <2>2. RowLen(rs, y - 1) \in Nat /\ y - 1 \in Nat /\ RowLen(rs, y - 1) <= RowLen(rs, y - 1)
    BY <1>2, <1>6
  <2>3. QED BY <2>1, <2>2, Clamped
<1>7. QED BY <1>3, <1>4, <1>5, <1>6

-----------------------------------------------------------------------------
(* Edits of rows are edits of the text *)

PointOf(rs, c) == Len(Flat(SubSeq(rs, 1, c.y))) + c.x

Regrouped(f, p, q, n, g) == (f \o ((p \o q) \o n)) \o g = (f \o p) \o ((q \o n) \o g)

LEMMA Regroup ==
    ASSUME NEW S, NEW f \in Seq(S), NEW p \in Seq(S), NEW q \in Seq(S), NEW n \in Seq(S), NEW g \in Seq(S)
    PROVE  Regrouped(f, p, q, n, g)
<1>1. PICK qn \in Seq(S) : qn = q \o n
  BY ConcatProperties
<1>2. PICK fp \in Seq(S) : fp = f \o p
  BY ConcatProperties
<1>3. Assoc(p, q, n) /\ Assoc(f, p, qn) /\ Assoc(fp, qn, g)
  BY AssocHolds
<1>4. f \o ((p \o q) \o n) = fp \o qn
  BY <1>1, <1>2, <1>3, Zenon DEF Assoc
<1>5. (fp \o qn) \o g = fp \o (qn \o g)
  BY <1>3, Zenon DEF Assoc
<1>6. QED BY <1>1, <1>2, <1>4, <1>5, Zenon DEF Regrouped

\* The text around a place in a row.
FlatAroundIs(a, p, q, b) ==
    /\ Flat((a \o <<p \o q>>) \o b) = (Flat(a) \o p) \o ((q \o <<NL>>) \o Flat(b))
    /\ Flat(a) \o p \in Line1 /\ Len(Flat(a) \o p) = Len(Flat(a)) + Len(p)
    /\ (q \o <<NL>>) \o Flat(b) \in Line1
    /\ Len((q \o <<NL>>) \o Flat(b)) = Len(q) + 1 + Len(Flat(b))

LEMMA FlatAround ==
    ASSUME NEW a \in Text, NEW p \in Line1, NEW q \in Line1, NEW b \in Text
    PROVE  FlatAroundIs(a, p, q, b)
<1> DEFINE fa == Flat(a)
           fb == Flat(b)
           nl == <<NL>>
           r  == p \o q
           o  == <<r>>
<1>1. fa \in Seq(Glyph) /\ fb \in Seq(Glyph) /\ p \in Seq(Glyph) /\ q \in Seq(Glyph)
  BY FlatIs DEF Line1
<1>2. nl \in Seq(Glyph) /\ Len(nl) = 1
  BY NLGlyph
<1>3. r \in Seq(Glyph)
  BY <1>1, ConcatProperties
<1> HIDE DEF fa, fb, nl
<1>4. o \in Text /\ Flat(o) = r \o nl
  <2> HIDE DEF r
  <2>1. <<r>> \in Text
    BY <1>3 DEF Text, Line1
  <2>2. QED BY <1>3, <2>1, FlatOne DEF nl
<1>5. Flat(a \o o) = fa \o (r \o nl) /\ a \o o \in Text
  <2> HIDE DEF o
  <2>1. a \o o \in Text
    BY <1>4, ConcatProperties DEF Text
  <2>2. Flat(a \o o) = Flat(a) \o Flat(o)
    BY <1>4, FlatConcat
  <2>3. QED BY <1>4, <2>1, <2>2, Zenon DEF fa
<1>6. Flat((a \o o) \o b) = (fa \o (r \o nl)) \o fb
  <2> DEFINE ao == a \o o
  <2>1. ao \in Text /\ Flat(ao) = fa \o (r \o nl)
    BY <1>5
  <2> HIDE DEF ao
  <2>2. Flat(ao \o b) = Flat(ao) \o Flat(b)
    BY <2>1, FlatConcat
  <2>3. QED BY <2>1, <2>2, Zenon DEF ao, fb
<1>7. (fa \o ((p \o q) \o nl)) \o fb = (fa \o p) \o ((q \o nl) \o fb)
  <2> HIDE DEF r, o
  <2>1. Regrouped(fa, p, q, nl, fb)
    BY <1>1, <1>2, Regroup
  <2>2. QED BY <2>1, Zenon DEF Regrouped
<1>8. fa \o p \in Seq(Glyph) /\ Len(fa \o p) = Len(fa) + Len(p)
  BY <1>1, ConcatProperties
<1>9. (q \o nl) \o fb \in Seq(Glyph) /\ Len((q \o nl) \o fb) = Len(q) + 1 + Len(fb)
  <2> DEFINE qn == q \o nl
  <2>1. qn \in Seq(Glyph) /\ Len(qn) = Len(q) + Len(nl)
    BY <1>1, <1>2, ConcatProperties
  <2> HIDE DEF qn
  <2>2. qn \o fb \in Seq(Glyph) /\ Len(qn \o fb) = Len(qn) + Len(fb)
    BY <1>1, <2>1, ConcatProperties
  <2>3. Len(qn \o fb) = Len(q) + 1 + Len(fb)
    <3>1. PICK v : v = qn \o fb
      OBVIOUS
    <3>2. Len(v) = Len(q) + 1 + Len(fb)
      BY <1>1, <1>2, <2>1, <2>2, <3>1
    <3>3. QED BY <3>1, <3>2, Zenon
  <2>4. QED BY <2>2, <2>3, Zenon DEF qn
<1>10. Flat((a \o <<p \o q>>) \o b) = (fa \o p) \o ((q \o nl) \o fb)
  BY <1>6, <1>7, Zenon DEF o, r
<1>11. QED BY <1>8, <1>9, <1>10, Zenon DEF fa, fb, nl, Line1, FlatAroundIs

LEMMA AboveKept ==
    ASSUME NEW a \in Text, NEW o \in Text, NEW b \in Text
    PROVE  SubSeq((a \o o) \o b, 1, Len(a)) = a
<1> DEFINE ob == o \o b
<1>1. (a \o o) \o b = a \o ob
  BY ConcatAssociative DEF Text
<1>2. ob \in Text
  BY ConcatProperties DEF Text
<1>3. SubSeq(a \o ob, 1, Len(a)) = a
  <2> HIDE DEF ob
  <2> QED BY <1>2, ConcatCut DEF Text
<1>4. QED BY <1>1, <1>3, Zenon

\* A row of the document, cut at the cursor.
CutRow(rs, x, y, a, p, q, b) ==
    /\ a \in Text /\ p \in Line1 /\ q \in Line1 /\ b \in Text
    /\ a = SubSeq(rs, 1, y) /\ p = SubSeq(rs[y + 1], 1, x)
    /\ q = SubSeq(rs[y + 1], x + 1, Len(rs[y + 1])) /\ b = SubSeq(rs, y + 2, Len(rs))
    /\ Len(a) = y /\ Len(p) = x /\ Len(q) = Len(rs[y + 1]) - x
    /\ rs[y + 1] = p \o q /\ rs = (a \o <<p \o q>>) \o b
    /\ \A e \in Line1 : [rs EXCEPT ![y + 1] = e] = (a \o <<e>>) \o b

LEMMA CutRowExists ==
    ASSUME NEW rs \in Text, NEW x \in Nat, NEW y \in Nat, y < Len(rs), x <= Len(rs[y + 1])
    PROVE  \E a, p, q, b : CutRow(rs, x, y, a, p, q, b)
<1> DEFINE r == rs[y + 1]
           a == SubSeq(rs, 1, y)
           b == SubSeq(rs, y + 2, Len(rs))
           p == SubSeq(r, 1, x)
           q == SubSeq(r, x + 1, Len(r))
<1>1. r \in Line1
  BY RowLenNat
<1>2. y \in 0 .. Len(rs) - 1 /\ x \in 0 .. Len(r)
  BY <1>1 DEF Text, Line1
<1>3. /\ a \in Text /\ b \in Text /\ Len(a) = y /\ rs = (a \o <<r>>) \o b
      /\ \A e \in Line1 : [rs EXCEPT ![y + 1] = e] = (a \o <<e>>) \o b
  <2>1. rs \in Seq(Line1)
    BY DEF Text
  <2>2. CutAroundIs(Line1, rs, y)
    BY <1>2, <2>1, CutAround
  <2>3. QED BY <2>2, Zenon DEF Text, CutAroundIs
<1> HIDE DEF r
<1>4. p \in Line1 /\ q \in Line1 /\ Len(p) = x /\ Len(q) = Len(r) - x /\ p \o q = r
  BY <1>1, <1>2, CutAt DEF Line1
<1>5. CutRow(rs, x, y, a, p, q, b)
  <2> HIDE DEF a, p, q, b
  <2>1. rs = (a \o <<p \o q>>) \o b
    BY <1>3, <1>4, Zenon
  <2>2. a = SubSeq(rs, 1, y) /\ p = SubSeq(rs[y + 1], 1, x) /\ b = SubSeq(rs, y + 2, Len(rs))
        /\ q = SubSeq(rs[y + 1], x + 1, Len(rs[y + 1]))
    BY Zenon DEF a, p, q, b, r
  <2>3. Len(q) = Len(rs[y + 1]) - x /\ rs[y + 1] = p \o q
    BY <1>4, Zenon DEF r
  <2>4. QED BY <1>3, <1>4, <2>1, <2>2, <2>3, Zenon DEF CutRow
<1>6. QED BY <1>5

\* Where the point is in the text.
LEMMA PointIn ==
    ASSUME NEW rs \in Text, NEW x \in Nat, NEW y \in Nat, On(rs, At(x, y))
    PROVE  /\ y = Len(rs) => x = 0 /\ PointOf(rs, At(x, y)) = Len(Flat(rs))
           /\ y # Len(rs) => /\ y < Len(rs) /\ x <= Len(rs[y + 1])
                             /\ PointOf(rs, At(x, y)) < Len(Flat(rs))
           /\ PointOf(rs, At(x, y)) \in 0 .. Len(Flat(rs))
<1>1. PICK L \in Nat : L = Len(rs)
  BY DEF Text
<1>2. At(x, y).x = x /\ At(x, y).y = y
  BY AtPos
<1>3. y <= L /\ x <= RowLen(rs, y)
  BY <1>1, <1>2 DEF On
<1>4. PointOf(rs, At(x, y)) = Len(Flat(SubSeq(rs, 1, y))) + x
  BY <1>2 DEF PointOf
<1>5. Len(Flat(rs)) \in Nat
  BY FlatIs, LenProperties
<1>6. CASE y = L
  <2>1. x = 0
    BY <1>1, <1>3, <1>6 DEF RowLen
  <2>2. SubSeq(rs, 1, y) = rs
    BY <1>1, <1>6, SubSeqFull DEF Text
  <2>3. PointOf(rs, At(x, y)) = Len(Flat(rs)) + 0
    BY <1>4, <2>1, <2>2, Zenon
  <2>4. QED BY <1>1, <1>5, <1>6, <2>1, <2>3
<1>7. CASE y < L
  <2>1. x <= Len(rs[y + 1])
    BY <1>1, <1>3, <1>7 DEF RowLen
  <2>2. PICK a, p, q, b : CutRow(rs, x, y, a, p, q, b)
    BY <1>1, <1>7, <2>1, CutRowExists
  <2>3. a \in Text /\ p \in Line1 /\ q \in Line1 /\ b \in Text /\ a = SubSeq(rs, 1, y) /\ Len(p) = x
        /\ rs = (a \o <<p \o q>>) \o b
    BY <2>2, Zenon DEF CutRow
  <2> DEFINE u == Flat(a) \o p
             v == (q \o <<NL>>) \o Flat(b)
  <2>4. Flat(rs) = u \o v /\ u \in Line1 /\ v \in Line1
        /\ Len(u) = Len(Flat(a)) + Len(p) /\ Len(v) = Len(q) + 1 + Len(Flat(b))
    <3>1. FlatAroundIs(a, p, q, b)
      BY <2>3, FlatAround
    <3>2. QED BY <2>3, <3>1, Zenon DEF FlatAroundIs
  <2> HIDE DEF u, v
  <2>5. Len(u \o v) = Len(u) + Len(v)
    BY <2>4, ConcatProperties DEF Line1
  <2>6. Len(Flat(rs)) = Len(u) + Len(v)
    BY <2>4, <2>5, Zenon
  <2>7. Len(Flat(a)) \in Nat /\ Len(q) \in Nat /\ Len(Flat(b)) \in Nat
    BY <2>3, FlatIs, LenProperties DEF Line1
  <2>8. PointOf(rs, At(x, y)) = Len(Flat(a)) + x
    BY <1>4, <2>3, Zenon
  <2>9. QED BY <1>1, <1>7, <2>1, <2>3, <2>4, <2>6, <2>7, <2>8
<1>8. QED BY <1>3, <1>6, <1>7

LEMMA OneGlyph ==
    ASSUME NEW d \in Glyph
    PROVE  <<d>> \in Seq(Glyph) /\ <<d>> \in Line1 /\ Len(<<d>>) = 1
BY DEF Line1

LEMMA OneRow ==
    ASSUME NEW r \in Line1
    PROVE  <<r>> \in Text /\ Len(<<r>>) = 1 /\ <<r>>[1] = r
BY DEF Text

\* The rows stand for the text u \o v, with the cursor between u and v.
Placed(rs, c, u, v) ==
    /\ rs \in Text /\ On(rs, c) /\ u \in Line1 /\ v \in Line1
    /\ Flat(rs) = u \o v /\ PointOf(rs, c) = Len(u)

LEMMA PlacedAt ==
    ASSUME NEW a \in Text, NEW p \in Line1, NEW q \in Line1, NEW b \in Text
    PROVE  Placed((a \o <<p \o q>>) \o b, At(Len(p), Len(a)), Flat(a) \o p, (q \o <<NL>>) \o Flat(b))
<1>1. PICK r \in Line1 : r = p \o q /\ Len(r) = Len(p) + Len(q)
  BY ConcatProperties DEF Line1
<1>2. PICK o \in Text : o = <<r>> /\ Len(o) = 1 /\ o[1] = r
  BY OneRow
<1>3. PICK ao \in Text : ao = a \o o /\ Len(ao) = Len(a) + 1 /\ ao[Len(a) + 1] = r
  <2> DEFINE w == a \o o
  <2>1. w \in Text /\ Len(w) = Len(a) + Len(o)
        /\ \A i \in 1 .. Len(a) + Len(o) : w[i] = IF i <= Len(a) THEN a[i] ELSE o[i - Len(a)]
    BY ConcatProperties DEF Text
  <2> HIDE DEF w
  <2>2. Len(a) \in Nat
    BY DEF Text
  <2>3. Len(w) = Len(a) + 1 /\ w[Len(a) + 1] = r
    BY <1>2, <2>1, <2>2
  <2>4. QED BY <2>1, <2>3 DEF w
<1> DEFINE ns == ao \o b
<1>4. ns \in Text /\ Len(ns) = Len(a) + 1 + Len(b) /\ ns[Len(a) + 1] = r
  <2>1. ns \in Text /\ Len(ns) = Len(ao) + Len(b)
        /\ \A i \in 1 .. Len(ao) + Len(b) : ns[i] = IF i <= Len(ao) THEN ao[i] ELSE b[i - Len(ao)]
    BY ConcatProperties DEF Text
  <2> HIDE DEF ns
  <2>2. Len(a) \in Nat /\ Len(b) \in Nat
    BY DEF Text
  <2>3. QED BY <1>3, <2>1, <2>2
<1>5. ns = (a \o <<p \o q>>) \o b
  BY <1>1, <1>2, <1>3, Zenon
<1>6. SubSeq(ns, 1, Len(a)) = a
  <2>1. SubSeq((a \o o) \o b, 1, Len(a)) = a
    BY AboveKept
  <2>2. QED BY <1>3, <2>1, Zenon
<1> HIDE DEF ns
<1>7. Len(a) \in Nat /\ Len(b) \in Nat /\ Len(p) \in Nat /\ Len(q) \in Nat
  BY LenProperties DEF Text, Line1
<1>8. At(Len(p), Len(a)) \in Pos /\ At(Len(p), Len(a)).x = Len(p) /\ At(Len(p), Len(a)).y = Len(a)
  BY <1>7, AtPos
<1>9. On(ns, At(Len(p), Len(a)))
  <2>1. RowLen(ns, Len(a)) = Len(r) /\ Len(a) <= Len(ns)
    BY <1>4, <1>7 DEF RowLen
  <2>2. QED BY <1>1, <1>7, <1>8, <2>1 DEF On
<1>10. FlatAroundIs(a, p, q, b)
  BY FlatAround
<1>11. PointOf(ns, At(Len(p), Len(a))) = Len(Flat(a)) + Len(p)
  BY <1>6, <1>8, Zenon DEF PointOf
<1>12. Placed(ns, At(Len(p), Len(a)), Flat(a) \o p, (q \o <<NL>>) \o Flat(b))
  BY <1>4, <1>5, <1>9, <1>10, <1>11, Zenon DEF Placed, FlatAroundIs
<1>13. QED BY <1>5, <1>12, Zenon

LEMMA PlacedEnd ==
    ASSUME NEW rs \in Text
    PROVE  Placed(rs, At(0, Len(rs)), Flat(rs), << >>)
<1>1. Len(rs) \in Nat
  BY DEF Text
<1>2. At(0, Len(rs)) \in Pos /\ At(0, Len(rs)).x = 0 /\ At(0, Len(rs)).y = Len(rs)
  BY <1>1, AtPos
<1>3. On(rs, At(0, Len(rs)))
  BY <1>1, <1>2 DEF On, RowLen
<1>4. Flat(rs) \in Line1 /\ << >> \in Line1 /\ Flat(rs) \o << >> = Flat(rs) /\ Len(Flat(rs)) \in Nat
  BY FlatIs, ConcatEmptySeq, LenProperties DEF Line1
<1>5. SubSeq(rs, 1, Len(rs)) = rs
  BY SubSeqFull DEF Text
<1>6. PointOf(rs, At(0, Len(rs))) = Len(Flat(rs)) + 0
  BY <1>2, <1>5, Zenon DEF PointOf
<1>7. PointOf(rs, At(0, Len(rs))) = Len(Flat(rs))
  BY <1>4, <1>6
<1>8. QED BY <1>3, <1>4, <1>7, Zenon DEF Placed

\* A character goes in at the cursor, which stays behind it.
Typed(rs, c, ch) ==
    IF c.y = Len(rs) THEN Append(rs, <<ch>>)
    ELSE [rs EXCEPT ![c.y + 1] = InsertAt(@, Min({c.x, RowLen(rs, c.y)}) + 1, ch)]

LEMMA TypedPlaced ==
    ASSUME NEW rs \in Text, NEW c, On(rs, c), NEW ch \in Glyph
    PROVE  \E u, v : /\ Placed(rs, c, u, v)
                     /\ Placed(Typed(rs, c, ch), Moved(Typed(rs, c, ch), c, "Right"), u \o <<ch>>,
                               IF PointOf(rs, c) = Len(Flat(rs)) THEN <<NL>> ELSE v)
                     /\ PointOf(rs, c) = Len(Flat(rs)) => v = << >>
<1>1. PICK x \in Nat, y \in Nat : c = At(x, y) /\ c.x = x /\ c.y = y
  BY DEF On, Pos, At
<1>2. PICK L \in Nat : L = Len(rs)
  BY DEF Text
<1>3. y <= L /\ x <= RowLen(rs, y)
  BY <1>1, <1>2 DEF On
<1>4. CASE y = L
  <2>1. x = 0
    BY <1>2, <1>3, <1>4 DEF RowLen
  <2>2. Placed(rs, c, Flat(rs), << >>)
    BY <1>1, <1>2, <1>4, <2>1, PlacedEnd
  <2> DEFINE p == <<ch>>
             q == << >>
             b == << >>
             ns == (rs \o <<p \o q>>) \o b
  <2>3. p \in Line1 /\ Len(p) = 1 /\ q \in Line1 /\ b \in Text
    BY DEF Line1, Text
  <2>4. p \o q = p
    BY <2>3, ConcatEmptySeq DEF Line1
  <2>5. ns = Append(rs, p)
    <3> HIDE DEF p
    <3>1. PICK o \in Text : o = <<p>>
      BY <2>3, OneRow
    <3>2. rs \o o = Append(rs, p)
      BY <2>3, <3>1, AppendIsConcat DEF Text
    <3>3. PICK w \in Text : w = rs \o o
      BY ConcatProperties DEF Text
    <3>4. w \o << >> = w
      BY ConcatEmptySeq DEF Text
    <3>5. QED BY <2>4, <3>1, <3>2, <3>3, <3>4, Zenon
  <2>6. Typed(rs, c, ch) = ns
    BY <1>1, <1>2, <1>4, <2>5, Zenon DEF Typed
  <2>7. Placed(ns, At(Len(p), Len(rs)), Flat(rs) \o p, (q \o <<NL>>) \o Flat(b))
    <3> HIDE DEF p, q, b
    <3> QED BY <2>3, PlacedAt
  <2>8. (q \o <<NL>>) \o Flat(b) = <<NL>>
    <3>1. <<NL>> \in Seq(Glyph)
      BY NLGlyph
    <3>2. << >> \o <<NL>> = <<NL>> /\ <<NL>> \o << >> = <<NL>>
      BY <3>1, ConcatEmptySeq
    <3>3. QED BY <3>2, FlatNone, Zenon
  <2>9. Moved(ns, c, "Right") = At(1, y)
    <3> HIDE DEF ns
    <3>1. ns \in Text /\ On(ns, At(1, y))
      BY <1>2, <1>4, <2>3, <2>7 DEF Placed
    <3>2. 0 < RowLen(ns, y)
      <4>1. RowLen(ns, y) \in Nat
        BY <3>1, RowLenNat
      <4>2. At(1, y).x = 1 /\ At(1, y).y = y
        BY AtPos
      <4>3. QED BY <3>1, <4>1, <4>2 DEF On
    <3>3. Moved(ns, At(0, y), "Right") = At(0 + 1, y)
      BY <3>1, <3>2, RightAndLeft
    <3>4. QED BY <1>1, <2>1, <3>3
  <2>10. Placed(ns, Moved(ns, c, "Right"), Flat(rs) \o <<ch>>, <<NL>>)
    <3>1. At(Len(p), Len(rs)) = At(1, y)
      BY <1>2, <1>4, <2>3, Zenon
    <3>2. QED BY <2>7, <2>8, <2>9, <3>1, Zenon
  <2>11. PointOf(rs, c) = Len(Flat(rs))
    BY <2>2 DEF Placed
  <2>12. QED
    <3> HIDE DEF ns
    <3> QED BY <2>2, <2>6, <2>10, <2>11, Zenon
<1>5. CASE y < L
  <2>1. x <= Len(rs[y + 1]) /\ RowLen(rs, y) = Len(rs[y + 1])
    BY <1>2, <1>3, <1>5 DEF RowLen
  <2>2. PICK a, p, q, b : CutRow(rs, x, y, a, p, q, b)
    BY <1>2, <1>5, <2>1, CutRowExists
  <2>3. /\ a \in Text /\ p \in Line1 /\ q \in Line1 /\ b \in Text /\ Len(a) = y /\ Len(p) = x
        /\ rs[y + 1] = p \o q /\ rs = (a \o <<p \o q>>) \o b
        /\ \A e \in Line1 : [rs EXCEPT ![y + 1] = e] = (a \o <<e>>) \o b
    BY <2>2, Zenon DEF CutRow
  <2> DEFINE u == Flat(a) \o p
             v == (q \o <<NL>>) \o Flat(b)
             pe == p \o <<ch>>
             ns == (a \o <<pe \o q>>) \o b
  <2>4. Placed(rs, c, u, v)
    <3>1. Placed((a \o <<p \o q>>) \o b, At(Len(p), Len(a)), u, v)
      BY <2>3, PlacedAt
    <3>2. QED BY <1>1, <2>3, <3>1, Zenon
  <2>5. pe \in Line1 /\ Len(pe) = x + 1
    <3>1. <<ch>> \in Line1 /\ Len(<<ch>>) = 1
      BY DEF Line1
    <3>2. pe \in Line1 /\ Len(pe) = Len(p) + Len(<<ch>>)
      BY <2>3, <3>1, ConcatProperties DEF Line1
    <3> HIDE DEF pe
    <3>3. QED BY <2>3, <3>1, <3>2
  <2>6. InsertAt(rs[y + 1], x + 1, ch) = pe \o q /\ pe \o q \in Line1
    <3>1. Inserted(p, q, ch)
      BY <2>3, InsertInto DEF Line1
    <3>2. pe \o q \in Line1
      <4> HIDE DEF pe
      <4> QED BY <2>3, <2>5, ConcatProperties DEF Line1
    <3>3. QED BY <2>3, <3>1, <3>2, Zenon DEF Inserted
  <2>7. Typed(rs, c, ch) = ns
    <3>1. Min({x, RowLen(rs, y)}) = x
      <4>1. RowLen(rs, y) \in Nat
        BY RowLenNat
      <4>2. QED BY <1>3, <4>1, MinMaxOfTwo
    <3>2. y # Len(rs)
      BY <1>2, <1>5
    <3>3. Typed(rs, c, ch) = [rs EXCEPT ![y + 1] = InsertAt(rs[y + 1], x + 1, ch)]
      BY <1>1, <3>1, <3>2, Zenon DEF Typed
    <3>4. QED BY <2>3, <2>6, <3>3, Zenon
  <2>8. Placed(ns, At(x + 1, y), Flat(a) \o pe, v)
    <3>1. Placed(ns, At(Len(pe), Len(a)), Flat(a) \o pe, v)
      <4> HIDE DEF pe
      <4> QED BY <2>3, <2>5, PlacedAt
    <3>2. QED BY <2>3, <2>5, <3>1, Zenon
  <2>9. Flat(a) \o pe = u \o <<ch>>
    <3>1. <<ch>> \in Seq(Glyph) /\ Flat(a) \in Seq(Glyph) /\ p \in Seq(Glyph)
      BY <2>3, FlatIs DEF Line1
    <3>2. Assoc(Flat(a), p, <<ch>>)
      BY <3>1, AssocHolds
    <3>3. QED BY <3>2, Zenon DEF Assoc
  <2>10. Moved(ns, c, "Right") = At(x + 1, y)
    <3> HIDE DEF ns, v, u, pe
    <3>1. ns \in Text /\ On(ns, At(x + 1, y))
      BY <2>8 DEF Placed
    <3>2. x < RowLen(ns, y)
      <4>1. RowLen(ns, y) \in Nat
        BY <3>1, RowLenNat
      <4>2. At(x + 1, y).x = x + 1 /\ At(x + 1, y).y = y
        BY AtPos
      <4>3. QED BY <3>1, <4>1, <4>2 DEF On
    <3>3. QED BY <1>1, <3>1, <3>2, RightAndLeft
  <2>11. PointOf(rs, c) # Len(Flat(rs))
    <3>1. PointOf(rs, At(x, y)) < Len(Flat(rs)) /\ PointOf(rs, At(x, y)) \in 0 .. Len(Flat(rs))
      BY <1>1, <1>2, <1>5, PointIn
    <3>2. Len(Flat(rs)) \in Nat
      BY FlatIs, LenProperties
    <3>3. QED BY <1>1, <3>1, <3>2
  <2>12. QED
    <3> HIDE DEF ns, v, u, pe
    <3> QED BY <2>4, <2>7, <2>8, <2>9, <2>10, <2>11, Zenon
<1>6. QED BY <1>3, <1>4, <1>5

RowIs(rs, y, r, below) == rs \in Text /\ Len(rs) = y + 1 + below /\ rs[y + 1] = r

LEMMA RowAt ==
    ASSUME NEW a \in Text, NEW r \in Line1, NEW b \in Text
    PROVE  RowIs((a \o <<r>>) \o b, Len(a), r, Len(b))
<1>1. PICK o \in Text : o = <<r>> /\ Len(o) = 1 /\ o[1] = r
  BY OneRow
<1>2. PICK A \in Nat, B \in Nat : A = Len(a) /\ B = Len(b)
  BY DEF Text
<1> DEFINE w == a \o o
           ns == w \o b
<1>3. w \in Text /\ Len(w) = Len(a) + Len(o)
      /\ \A i \in 1 .. Len(a) + Len(o) : w[i] = IF i <= Len(a) THEN a[i] ELSE o[i - Len(a)]
  BY ConcatProperties DEF Text
<1> HIDE DEF w
<1>4. Len(w) = A + 1 /\ w[A + 1] = r
  BY <1>1, <1>2, <1>3
<1>9. w \in Seq(Line1) /\ b \in Seq(Line1)
  BY <1>3 DEF Text
<1>5. ns \in Text /\ Len(ns) = Len(w) + Len(b)
      /\ \A i \in 1 .. Len(w) + Len(b) : ns[i] = IF i <= Len(w) THEN w[i] ELSE b[i - Len(w)]
  BY <1>9, ConcatProperties DEF Text
<1> HIDE DEF ns
<1>6. Len(ns) = A + 1 + B /\ ns[A + 1] = r
  BY <1>2, <1>4, <1>5
<1>7. ns = (a \o <<r>>) \o b
  BY <1>1, Zenon DEF ns, w
<1>8. QED BY <1>2, <1>5, <1>6, <1>7, Zenon DEF RowIs

\* The row is split at the cursor, which goes to the start of the new one.
Split(rs, c) ==
    LET x == Min({c.x, RowLen(rs, c.y)})
    IN IF c.y = Len(rs) THEN Append(rs, << >>)
       ELSE SubSeq(rs, 1, c.y) \o <<SubSeq(rs[c.y + 1], 1, x), SubSeq(rs[c.y + 1], x + 1, RowLen(rs, c.y))>>
            \o SubSeq(rs, c.y + 2, Len(rs))

LEMMA SplitPlaced ==
    ASSUME NEW rs \in Text, NEW c, On(rs, c)
    PROVE  \E u, v : /\ Placed(rs, c, u, v)
                     /\ Placed(Split(rs, c), Moved(Split(rs, c), c, "Right"), u \o <<NL>>, v)
<1>1. PICK x \in Nat, y \in Nat : c = At(x, y) /\ c.x = x /\ c.y = y
  BY DEF On, Pos, At
<1>2. PICK L \in Nat : L = Len(rs)
  BY DEF Text
<1>3. y <= L /\ x <= RowLen(rs, y)
  BY <1>1, <1>2 DEF On
<1>4. CASE y = L
  <2>1. x = 0
    BY <1>2, <1>3, <1>4 DEF RowLen
  <2>2. Placed(rs, c, Flat(rs), << >>)
    BY <1>1, <1>2, <1>4, <2>1, PlacedEnd
  <2> DEFINE ns == Append(rs, << >>)
  <2>3. Split(rs, c) = ns
    BY <1>1, <1>2, <1>4, Zenon DEF Split
  <2>4. << >> \in Line1 /\ Len(<< >>) = 0
    BY DEF Line1
  <2>5. ns \in Text /\ Len(ns) = L + 1 /\ ns[L + 1] = << >>
    BY <1>2, <2>4, AppendProperties DEF Text
  <2>6. Flat(ns) = Flat(rs) \o <<NL>>
    <3>1. PICK e \in Line1 : e = << >>
      BY <2>4
    <3>2. PICK o \in Text : o = <<e>>
      BY OneRow
    <3>3. Append(rs, e) = rs \o o
      BY <3>2, AppendIsConcat DEF Text
    <3>4. Flat(rs \o o) = Flat(rs) \o Flat(o)
      BY FlatConcat
    <3>5. Flat(o) = e \o <<NL>>
      BY <3>2, FlatOne DEF Line1
    <3>6. <<NL>> \in Seq(Glyph)
      BY NLGlyph
    <3>7. << >> \o <<NL>> = <<NL>>
      BY <3>6, ConcatEmptySeq
    <3>8. QED BY <3>1, <3>3, <3>4, <3>5, <3>7, Zenon
  <2> HIDE DEF ns
  <2>7. Moved(ns, c, "Right") = At(0, Len(ns))
    <3>1. RowLen(ns, y) = 0 /\ y < Len(ns)
      BY <1>4, <2>4, <2>5 DEF RowLen
    <3>2. Moved(ns, At(x, y), "Right") = At(0, y + 1)
      BY <2>1, <2>5, <3>1, RightAndLeft
    <3>3. QED BY <1>1, <1>4, <2>5, <3>2, Zenon
  <2>8. Placed(ns, At(0, Len(ns)), Flat(ns), << >>)
    BY <2>5, PlacedEnd
  <2>9. QED BY <2>2, <2>3, <2>6, <2>7, <2>8, Zenon
<1>5. CASE y < L
  <2>1. x <= Len(rs[y + 1]) /\ RowLen(rs, y) = Len(rs[y + 1])
    BY <1>2, <1>3, <1>5 DEF RowLen
  <2>2. PICK a, p, q, b : CutRow(rs, x, y, a, p, q, b)
    BY <1>2, <1>5, <2>1, CutRowExists
  <2>3. /\ a \in Text /\ p \in Line1 /\ q \in Line1 /\ b \in Text /\ Len(a) = y /\ Len(p) = x
        /\ rs = (a \o <<p \o q>>) \o b
        /\ a = SubSeq(rs, 1, y) /\ p = SubSeq(rs[y + 1], 1, x)
        /\ q = SubSeq(rs[y + 1], x + 1, Len(rs[y + 1])) /\ b = SubSeq(rs, y + 2, Len(rs))
    BY <2>2, Zenon DEF CutRow
  <2> DEFINE u == Flat(a) \o p
             v == (q \o <<NL>>) \o Flat(b)
             ns == (a \o <<p, q>>) \o b
  <2>4. Placed(rs, c, u, v)
    <3>1. Placed((a \o <<p \o q>>) \o b, At(Len(p), Len(a)), u, v)
      BY <2>3, PlacedAt
    <3>2. QED BY <1>1, <2>3, <3>1, Zenon
  <2>5. Split(rs, c) = ns
    <3>1. Min({x, RowLen(rs, y)}) = x
      <4>1. RowLen(rs, y) \in Nat
        BY RowLenNat
      <4>2. QED BY <1>3, <4>1, MinMaxOfTwo
    <3>2. y # Len(rs)
      BY <1>2, <1>5
    <3>3. Split(rs, c) = SubSeq(rs, 1, y) \o <<SubSeq(rs[y + 1], 1, x), SubSeq(rs[y + 1], x + 1, RowLen(rs, y))>>
                           \o SubSeq(rs, y + 2, Len(rs))
      BY <1>1, <3>1, <3>2, Zenon DEF Split
    <3>4. QED BY <2>1, <2>3, <3>3, Zenon
  <2>6. PICK op \in Text, oq \in Text : op = <<p>> /\ oq = <<q>>
    BY <2>3, OneRow
  <2>7. PICK ap \in Text : ap = a \o <<p>> /\ Len(ap) = y + 1
    <3>1. a \o op \in Text /\ Len(a \o op) = Len(a) + Len(op)
      BY <2>3, ConcatProperties DEF Text
    <3>2. Len(op) = 1
      BY <2>6
    <3>3. PICK w \in Text : w = a \o op /\ Len(w) = Len(a) + Len(op)
      BY <3>1
    <3>4. Len(w) = y + 1
      BY <2>3, <3>2, <3>3
    <3>5. QED BY <2>6, <3>3, <3>4, Zenon
  <2>8. <<p, q>> = op \o oq
    <3>1. op = <<p>> /\ oq = <<q>>
      BY <2>6
    <3>2. <<p, q>> = <<p>> \o <<q>>
      BY <2>3, PairIsConcat
    <3>3. QED BY <3>1, <3>2, Zenon
  <2>9. ns = (ap \o <<q>>) \o b
    <3>1. Assoc(a, op, oq)
      BY <2>3, AssocHolds DEF Text
    <3>2. QED BY <2>6, <2>7, <2>8, <3>1, Zenon DEF Assoc
  <2>10. << >> \in Line1 /\ Len(<< >>) = 0 /\ << >> \o q = q
    <3>1. << >> \o q = q
      BY <2>3, ConcatEmptySeq DEF Line1
    <3>2. << >> \in Line1 /\ Len(<< >>) = 0
      BY DEF Line1
    <3>3. QED BY <3>1, <3>2, Zenon
  <2>11. Placed(ns, At(0, y + 1), Flat(ap) \o << >>, v)
    <3>1. PICK e \in Line1 : e = << >> /\ Len(e) = 0 /\ e \o q = q
      BY <2>10
    <3>2. Placed((ap \o <<e \o q>>) \o b, At(Len(e), Len(ap)), Flat(ap) \o e, v)
      BY <2>3, PlacedAt
    <3>3. QED BY <2>7, <2>9, <3>1, <3>2, Zenon
  <2>12. Flat(ap) \o << >> = u \o <<NL>>
    <3>1. Flat(a \o op) = Flat(a) \o Flat(op)
      BY <2>3, FlatConcat
    <3>2. Flat(op) = p \o <<NL>>
      BY <2>3, <2>6, FlatOne DEF Line1
    <3>3. Flat(ap) \in Seq(Glyph) /\ Flat(a) \in Seq(Glyph) /\ <<NL>> \in Seq(Glyph)
      <4>1. <<NL>> \in Seq(Glyph)
        BY NLGlyph
      <4>2. QED BY <2>3, <4>1, FlatIs
    <3>4. Assoc(Flat(a), p, <<NL>>)
      BY <2>3, <3>3, AssocHolds DEF Line1
    <3>5. Flat(ap) \o << >> = Flat(ap)
      BY <3>3, ConcatEmptySeq
    <3>6. QED BY <2>6, <2>7, <3>1, <3>2, <3>4, <3>5, Zenon DEF Assoc
  <2>13. Moved(ns, c, "Right") = At(0, y + 1)
    <3>1. PICK qb \in Text : qb = oq \o b /\ Len(qb) \in Nat
      BY <2>3, ConcatProperties, LenProperties DEF Text
    <3>2. ns = (a \o <<p>>) \o qb
      <4>1. Assoc(ap, oq, b)
        BY <2>3, AssocHolds DEF Text
      <4>2. QED BY <2>6, <2>7, <2>9, <3>1, <4>1, Zenon DEF Assoc
    <3>3. RowIs((a \o <<p>>) \o qb, Len(a), p, Len(qb))
      BY <2>3, RowAt
    <3>6. RowIs(ns, y, p, Len(qb))
      BY <2>3, <3>2, <3>3, Zenon
    <3> HIDE DEF ns
    <3>4. RowLen(ns, y) = x /\ y < Len(ns)
      <4>1. y < Len(ns) /\ ns[y + 1] = p
        BY <3>1, <3>6 DEF RowIs
      <4>2. QED BY <2>3, <4>1, Zenon DEF RowLen
    <3>5. QED BY <1>1, <3>4, <3>6, RightAndLeft DEF RowIs
  <2>14. QED
    <3> HIDE DEF ns, u, v
    <3> QED BY <2>4, <2>5, <2>11, <2>12, <2>13, Zenon
<1>6. QED BY <1>3, <1>4, <1>5

\* The character behind the cursor goes, or the break behind the row.
DeletedAt(rs, c) ==
    CASE c.y < Len(rs) /\ c.x = RowLen(rs, c.y) /\ c.y + 1 < Len(rs) ->
           SubSeq(rs, 1, c.y) \o <<rs[c.y + 1] \o rs[c.y + 2]>> \o SubSeq(rs, c.y + 3, Len(rs))
      [] c.y < Len(rs) /\ c.x < RowLen(rs, c.y) -> [rs EXCEPT ![c.y + 1] = RemoveAt(@, c.x + 1)]
      [] OTHER -> rs

\* v begins with d; what stands for u \o w is ns.
DropsOne(ns, c, u, v) ==
    \E d, w : d \in Glyph /\ w \in Line1 /\ Len(w) > 0 /\ v = <<d>> \o w /\ Placed(ns, c, u, w)

LEMMA DeletedPlaced ==
    ASSUME NEW rs \in Text, NEW c, On(rs, c)
    PROVE  \E u, v : /\ Placed(rs, c, u, v)
                     /\ \/ Len(v) <= 1 /\ DeletedAt(rs, c) = rs
                        \/ DropsOne(DeletedAt(rs, c), c, u, v)
<1>1. PICK x \in Nat, y \in Nat : c = At(x, y) /\ c.x = x /\ c.y = y
  BY DEF On, Pos, At
<1>2. PICK L \in Nat : L = Len(rs)
  BY DEF Text
<1>3. y <= L /\ x <= RowLen(rs, y)
  BY <1>1, <1>2 DEF On
<1>4. CASE y = L
  <2>1. x = 0
    BY <1>2, <1>3, <1>4 DEF RowLen
  <2>2. Placed(rs, c, Flat(rs), << >>)
    BY <1>1, <1>2, <1>4, <2>1, PlacedEnd
  <2>3. ~(c.y < Len(rs))
    BY <1>1, <1>2, <1>4
  <2>4. DeletedAt(rs, c) = rs
    BY <2>3, Zenon DEF DeletedAt
  <2>5. Len(<< >>) <= 1
    OBVIOUS
  <2>6. QED BY <2>2, <2>4, <2>5
<1>5. CASE y < L
  <2>1. x <= Len(rs[y + 1]) /\ RowLen(rs, y) = Len(rs[y + 1]) /\ Len(rs[y + 1]) \in Nat /\ rs[y + 1] \in Line1
    <3>1. RowLen(rs, y) = Len(rs[y + 1])
      BY <1>2, <1>5 DEF RowLen
    <3>2. RowLen(rs, y) \in Nat /\ rs[y + 1] \in Line1
      BY <1>2, <1>5, RowLenNat
    <3>3. QED BY <1>3, <3>1, <3>2
  <2>2. PICK a, p, q, b : CutRow(rs, x, y, a, p, q, b)
    BY <1>2, <1>5, <2>1, CutRowExists
  <2>3. /\ a \in Text /\ p \in Line1 /\ q \in Line1 /\ b \in Text /\ Len(a) = y /\ Len(p) = x
        /\ Len(q) = Len(rs[y + 1]) - x /\ rs[y + 1] = p \o q /\ rs = (a \o <<p \o q>>) \o b
        /\ a = SubSeq(rs, 1, y) /\ b = SubSeq(rs, y + 2, Len(rs)) /\ p = SubSeq(rs[y + 1], 1, x)
        /\ \A e \in Line1 : [rs EXCEPT ![y + 1] = e] = (a \o <<e>>) \o b
    BY <2>2, Zenon DEF CutRow
  <2> DEFINE u == Flat(a) \o p
             v == (q \o <<NL>>) \o Flat(b)
  <2>4. Placed(rs, c, u, v)
    <3>1. Placed((a \o <<p \o q>>) \o b, At(Len(p), Len(a)), u, v)
      BY <2>3, PlacedAt
    <3>2. QED BY <1>1, <2>3, <3>1, Zenon
  <2>5. <<NL>> \in Seq(Glyph) /\ Len(<<NL>>) = 1
    BY NLGlyph
  <2>6. CASE x = Len(rs[y + 1])
    <3>1. q = << >>
      <4>3. PICK n \in Nat : n = Len(rs[y + 1])
        BY <2>1
      <4>4. Len(q) = n - x /\ x = n
        BY <2>3, <2>6, <4>3, Zenon
      <4>1. Len(q) = 0
        BY <4>4
      <4>2. QED BY <2>3, <4>1, EmptySeq DEF Line1
    <3>2. v = <<NL>> \o Flat(b)
      <4>1. << >> \o <<NL>> = <<NL>>
        BY <2>5, ConcatEmptySeq
      <4>2. QED BY <3>1, <4>1, Zenon
    <3>3. p = rs[y + 1]
      <4>1. SubSeq(rs[y + 1], 1, Len(rs[y + 1])) = rs[y + 1]
        BY <2>1, SubSeqFull DEF Line1
      <4>2. QED BY <2>3, <2>6, <4>1, Zenon
    <3>4. CASE y + 1 < L
      <4>1. PICK r2 \in Line1, b2 \in Text : r2 = rs[y + 2] /\ b2 = SubSeq(rs, y + 3, Len(rs)) /\ b = <<r2>> \o b2
        <5>1. y + 2 \in 1 .. Len(rs) /\ Len(rs) \in y + 2 .. Len(rs) /\ (y + 2) + 1 = y + 3
          BY <1>2, <3>4
        <5>2. rs[y + 2] \in Line1
          BY <5>1, ElementOfSeq DEF Text
        <5>3. SubSeq(rs, y + 3, Len(rs)) \in Text
          BY <1>2 DEF Text
        <5>4. SubSeq(rs, y + 2, Len(rs)) = <<rs[y + 2]>> \o SubSeq(rs, (y + 2) + 1, Len(rs))
          BY <5>1, SubSeqRecursiveFirst DEF Text
        <5>5. QED BY <2>3, <5>1, <5>2, <5>3, <5>4, Zenon
      <4> DEFINE w == (r2 \o <<NL>>) \o Flat(b2)
                 ns == (a \o <<p \o r2>>) \o b2
      <4>2. DeletedAt(rs, c) = ns
        <5>1. c.y < Len(rs) /\ c.x = RowLen(rs, c.y) /\ c.y + 1 < Len(rs) /\ ~(c.x < RowLen(rs, c.y))
          BY <1>1, <1>2, <1>5, <2>1, <2>6, <3>4
        <5>2. DeletedAt(rs, c) = SubSeq(rs, 1, c.y) \o <<rs[c.y + 1] \o rs[c.y + 2]>> \o SubSeq(rs, c.y + 3, Len(rs))
          BY <5>1, Zenon DEF DeletedAt
        <5>3. QED BY <1>1, <2>3, <3>3, <4>1, <5>2, Zenon
      <4>3. Placed(ns, c, u, w)
        <5>1. Placed(ns, At(Len(p), Len(a)), u, w)
          BY <2>3, PlacedAt
        <5>2. QED BY <1>1, <2>3, <5>1, Zenon
      <4>4. Flat(b) = w /\ w \in Line1 /\ Len(w) > 0
        <5>1. PICK o \in Text : o = <<r2>>
          BY OneRow
        <5>2. Flat(o \o b2) = Flat(o) \o Flat(b2)
          BY FlatConcat
        <5>3. Flat(o) = r2 \o <<NL>>
          BY <5>1, FlatOne DEF Line1
        <5>4. Flat(b) = w
          BY <4>1, <5>1, <5>2, <5>3, Zenon
        <5>5. FlatAroundIs(a, p, r2, b2)
          BY <2>3, FlatAround
        <5>6. w \in Line1 /\ Len(w) = Len(r2) + 1 + Len(Flat(b2))
          BY <5>5, Zenon DEF FlatAroundIs
        <5>7. Len(r2) \in Nat /\ Len(Flat(b2)) \in Nat
          BY FlatIs, LenProperties DEF Line1
        <5> HIDE DEF w
        <5>8. Len(w) > 0
          BY <5>6, <5>7
        <5>9. QED BY <5>4, <5>6, <5>8, Zenon
      <4>5. DropsOne(ns, c, u, v)
        <5> HIDE DEF ns, u, w
        <5> QED BY <3>2, <4>3, <4>4, NLGlyph, Zenon DEF DropsOne
      <4>6. QED
        <5> HIDE DEF ns, u, v
        <5> QED BY <2>4, <4>2, <4>5, Zenon
    <3>5. CASE y + 1 = L
      <4>1. b = << >>
        <5>1. y + 2 \in Int /\ Len(rs) \in Int /\ Len(rs) < y + 2
          BY <1>2, <3>5
        <5>2. SubSeq(rs, y + 2, Len(rs)) = << >>
          BY <5>1, SubSeqEmpty
        <5>3. QED BY <2>3, <5>2, Zenon
      <4>2. v = <<NL>>
        <5>1. <<NL>> \o << >> = <<NL>>
          BY <2>5, ConcatEmptySeq
        <5>2. QED BY <3>2, <4>1, <5>1, FlatNone, Zenon
      <4>3. ~(c.y + 1 < Len(rs)) /\ ~(c.x < RowLen(rs, c.y))
        BY <1>1, <1>2, <2>1, <2>6, <3>5
      <4>4. DeletedAt(rs, c) = rs
        BY <4>3, Zenon DEF DeletedAt
      <4> HIDE DEF u, v
      <4>5. Len(v) <= 1
        BY <2>5, <4>2
      <4>6. QED BY <2>4, <4>4, <4>5
    <3>6. QED BY <1>5, <3>4, <3>5
  <2>7. CASE x < Len(rs[y + 1])
    <3> DEFINE r == rs[y + 1]
               d == r[x + 1]
               q2 == SubSeq(r, x + 2, Len(r))
               w == (q2 \o <<NL>>) \o Flat(b)
               ns == (a \o <<p \o q2>>) \o b
               pd == p \o <<d>>
    <3>1. CutAroundIs(Glyph, r, x)
      <4>1. x \in 0 .. Len(r) - 1
        BY <2>1, <2>7
      <4>2. r \in Seq(Glyph)
        BY <2>1 DEF Line1
      <4> HIDE DEF r
      <4>3. QED BY <4>1, <4>2, CutAround
    <3>2. q2 \in Line1 /\ d \in Glyph /\ r = pd \o q2
      BY <2>3, <3>1, Zenon DEF CutAroundIs, Line1
    <3>3. RemoveAt(r, x + 1) = p \o q2 /\ p \o q2 \in Line1
      <4> HIDE DEF q2, d
      <4>1. Removed(p, d, q2)
        BY <2>3, <3>2, RemoveFrom DEF Line1
      <4>2. p \o q2 \in Line1
        BY <2>3, <3>2, ConcatProperties DEF Line1
      <4>3. QED BY <2>3, <3>2, <4>1, <4>2, Zenon DEF Removed
    <3>4. DeletedAt(rs, c) = ns
      <4>1. c.y < Len(rs) /\ ~(c.x = RowLen(rs, c.y)) /\ c.x < RowLen(rs, c.y)
        BY <1>1, <1>2, <1>5, <2>1, <2>7
      <4>2. DeletedAt(rs, c) = [rs EXCEPT ![c.y + 1] = RemoveAt(rs[c.y + 1], c.x + 1)]
        BY <4>1, Zenon DEF DeletedAt
      <4>3. DeletedAt(rs, c) = [rs EXCEPT ![y + 1] = RemoveAt(r, x + 1)]
        BY <1>1, <4>2, Zenon
      <4> HIDE DEF r, q2
      <4>4. DeletedAt(rs, c) = [rs EXCEPT ![y + 1] = p \o q2]
        BY <3>3, <4>3, Zenon
      <4>5. QED BY <2>3, <3>3, <4>4, Zenon
    <3>5. Placed(ns, c, u, w)
      <4> HIDE DEF q2
      <4>1. Placed(ns, At(Len(p), Len(a)), u, w)
        BY <2>3, <3>2, PlacedAt
      <4>2. QED BY <1>1, <2>3, <4>1, Zenon
    <3>6. w \in Line1 /\ Len(w) > 0
      <4> HIDE DEF q2
      <4>1. FlatAroundIs(a, p, q2, b)
        BY <2>3, <3>2, FlatAround
      <4>2. w \in Line1 /\ Len(w) = Len(q2) + 1 + Len(Flat(b))
        BY <4>1, Zenon DEF FlatAroundIs
      <4>3. Len(q2) \in Nat /\ Len(Flat(b)) \in Nat
        BY <2>3, <3>2, FlatIs, LenProperties DEF Line1
      <4> HIDE DEF w
      <4>4. QED BY <4>2, <4>3
    <3>7. v = <<d>> \o w
      <4>1. PICK D \in Seq(Glyph) : D = <<d>>
        BY <3>2, OneGlyph
      <4>2. PICK N \in Seq(Glyph) : N = <<NL>>
        BY <2>5
      <4>3. PICK B \in Seq(Glyph) : B = Flat(b)
        BY <2>3, FlatIs
      <4>4. p \in Seq(Glyph) /\ q \in Seq(Glyph) /\ q2 \in Seq(Glyph)
        BY <2>3, <3>2 DEF Line1
      <4> HIDE DEF r, d, q2
      <4>5. PICK dq \in Seq(Glyph) : dq = D \o q2
        BY <4>4, ConcatProperties
      <4>6. q = dq
        <5>1. Assoc(p, D, q2)
          BY <4>4, AssocHolds
        <5>2. p \o q = p \o dq
          BY <2>3, <3>2, <4>1, <4>5, <5>1, Zenon DEF Assoc, r
        <5>3. \A s, t, z \in Seq(Glyph) : s \o t = s \o z => t = z
          BY ConcatSimplifications
        <5>4. QED BY <4>4, <5>2, <5>3, Zenon
      <4>7. PICK qn \in Seq(Glyph) : qn = q2 \o N
        BY <4>4, ConcatProperties
      <4>8. Assoc(D, q2, N) /\ Assoc(D, qn, B)
        BY <4>4, AssocHolds
      <4>9. QED BY <4>1, <4>2, <4>3, <4>5, <4>6, <4>7, <4>8, Zenon DEF Assoc
    <3>8. DropsOne(ns, c, u, v)
      <4> HIDE DEF ns, u, v, w, d
      <4> QED BY <3>2, <3>5, <3>6, <3>7, Zenon DEF DropsOne
    <3>9. QED
      <4> HIDE DEF ns, u, v
      <4> QED BY <2>4, <3>4, <3>8, Zenon
  <2>8. QED BY <2>1, <2>6, <2>7
<1>6. QED BY <1>3, <1>4, <1>5

\* What is left of the text when the character behind the point goes.
Shorter(t, n) == IF n + 1 < Len(t) THEN RemoveAt(t, n + 1) ELSE t

DeleteIs(rs, c, ns) ==
    /\ ns \in Text /\ On(ns, c) /\ PointOf(ns, c) = PointOf(rs, c)
    /\ Flat(ns) = Shorter(Flat(rs), PointOf(rs, c))

LEMMA DeleteText ==
    ASSUME NEW rs \in Text, NEW c, On(rs, c)
    PROVE  DeleteIs(rs, c, DeletedAt(rs, c))
<1>1. PICK u, v : /\ Placed(rs, c, u, v)
                  /\ \/ Len(v) <= 1 /\ DeletedAt(rs, c) = rs
                     \/ DropsOne(DeletedAt(rs, c), c, u, v)
  BY DeletedPlaced
<1>2. u \in Line1 /\ v \in Line1 /\ Flat(rs) = u \o v /\ PointOf(rs, c) = Len(u)
  BY <1>1, Zenon DEF Placed
<1>3. PICK m \in Nat, n \in Nat : m = Len(u) /\ n = Len(v) /\ Len(u \o v) = m + n
  BY <1>2, ConcatProperties, LenProperties DEF Line1
<1>4. Len(Flat(rs)) = m + n /\ PointOf(rs, c) = m
  BY <1>2, <1>3, Zenon
<1>5. CASE Len(v) <= 1 /\ DeletedAt(rs, c) = rs
  <2>1. ~(m + 1 < m + n)
    BY <1>3, <1>5
  <2>2. Flat(rs) = Shorter(Flat(rs), PointOf(rs, c))
    BY <1>4, <2>1, Zenon DEF Shorter
  <2>3. QED BY <1>5, <2>2, Zenon DEF DeleteIs
<1>6. CASE DropsOne(DeletedAt(rs, c), c, u, v)
  <2>1. PICK d, w : d \in Glyph /\ w \in Line1 /\ Len(w) > 0 /\ v = <<d>> \o w /\ Placed(DeletedAt(rs, c), c, u, w)
    BY <1>6, Zenon DEF DropsOne
  <2>2. PICK D \in Seq(Glyph) : D = <<d>> /\ Len(D) = 1
    BY <2>1, OneGlyph
  <2>3. PICK k \in Nat : k = Len(w) /\ k > 0 /\ Len(D \o w) = 1 + k
    <3>1. Len(D \o w) = Len(D) + Len(w)
      BY <2>1, ConcatProperties DEF Line1
    <3>2. Len(w) \in Nat
      BY <2>1, LenProperties DEF Line1
    <3>3. PICK z : z = Len(D \o w)
      OBVIOUS
    <3>4. z = 1 + Len(w)
      BY <2>2, <3>1, <3>2, <3>3
    <3>5. QED BY <2>1, <3>2, <3>3, <3>4
  <2>4. n = 1 + k
    BY <1>3, <2>1, <2>2, <2>3, Zenon
  <2>5. m + 1 < m + n
    BY <2>3, <2>4
  <2>6. Flat(rs) = (u \o <<d>>) \o w
    <3>1. Assoc(u, D, w)
      BY <1>2, <2>1, AssocHolds DEF Line1
    <3>2. QED BY <1>2, <2>1, <2>2, <3>1, Zenon DEF Assoc
  <2>7. Removed(u, d, w)
    BY <1>2, <2>1, RemoveFrom DEF Line1
  <2>8. RemoveAt(Flat(rs), m + 1) = u \o w
    BY <1>3, <2>6, <2>7, Zenon DEF Removed
  <2>9. Shorter(Flat(rs), PointOf(rs, c)) = u \o w
    BY <1>4, <2>5, <2>8, Zenon DEF Shorter
  <2>10. QED BY <1>2, <2>1, <2>9, Zenon DEF DeleteIs, Placed
<1>7. QED BY <1>1, <1>5, <1>6

\* One key to the left is one character of the text.
LEMMA LeftPoint ==
    ASSUME NEW rs \in Text, NEW c, On(rs, c), c # At(0, 0)
    PROVE  LET d == Moved(rs, c, "Left") IN On(rs, d) /\ PointOf(rs, d) + 1 = PointOf(rs, c)
<1> DEFINE d == Moved(rs, c, "Left")
<1>1. PICK x \in Nat, y \in Nat : c = At(x, y) /\ c.x = x /\ c.y = y /\ c \in Pos
  BY DEF On, Pos, At
<1>2. PICK L \in Nat : L = Len(rs)
  BY DEF Text
<1>3. y <= L /\ x <= RowLen(rs, y)
  BY <1>1, <1>2 DEF On
<1>4. On(rs, d)
  BY <1>1, <1>2, <1>3, MovedOn DEF Keys
<1>5. CASE x > 0
  <2>1. d = At(x - 1, y)
    BY <1>1, <1>3, <1>5, RightAndLeft
  <2>2. x - 1 \in Nat
    BY <1>5
  <2>3. d.x = x - 1 /\ d.y = y
    BY <2>1, <2>2, AtPos
  <2> HIDE DEF d
  <2>4. PICK f : f = Len(Flat(SubSeq(rs, 1, y)))
    OBVIOUS
  <2>5. f \in Nat
    <3>1. SubSeq(rs, 1, y) \in Text
      BY <1>2, <1>3 DEF Text
    <3>2. QED BY <2>4, <3>1, FlatIs, LenProperties
  <2>6. PointOf(rs, d) = f + (x - 1) /\ PointOf(rs, c) = f + x
    BY <1>1, <2>3, <2>4, Zenon DEF PointOf
  <2>7. PointOf(rs, d) + 1 = PointOf(rs, c)
    BY <2>5, <2>6
  <2>8. QED BY <1>4, <2>7 DEF d
<1>6. CASE x = 0
  <2>1. y > 0
    BY <1>1, <1>6
  <2>2. d = At(RowLen(rs, y - 1), y - 1)
    BY <1>1, <1>6, <2>1, RightAndLeft
  <2>3. y - 1 \in Nat /\ y - 1 < Len(rs) /\ (y - 1) + 1 = y /\ y \in 1 .. Len(rs)
    BY <1>2, <1>3, <2>1
  <2>4. rs[y] \in Line1 /\ RowLen(rs, y - 1) = Len(rs[y]) /\ RowLen(rs, y - 1) \in Nat
    <3>1. RowLen(rs, y - 1) \in Nat
      BY <2>3, RowLenNat
    <3>2. RowLen(rs, y - 1) = Len(rs[(y - 1) + 1])
      BY <2>3, Zenon DEF RowLen
    <3>3. rs[y] \in Line1
      BY <2>3, ElementOfSeq DEF Text
    <3>4. QED BY <2>3, <3>1, <3>2, <3>3, Zenon
  <2>5. d.x = Len(rs[y]) /\ d.y = y - 1
    BY <2>2, <2>3, <2>4, AtPos
  <2> HIDE DEF d
  <2>6. PICK a \in Text, o \in Text : a = SubSeq(rs, 1, y - 1) /\ o = <<rs[y]>>
    <3>1. SubSeq(rs, 1, y - 1) \in Text
      BY <1>2, <1>3, <2>3 DEF Text
    <3>2. QED BY <2>4, <3>1, OneRow
  <2>7. SubSeq(rs, 1, y) = a \o o
    <3>1. 1 \in 1 .. Len(rs) /\ y \in 1 .. Len(rs)
      BY <2>3
    <3>2. SubSeq(rs, 1, y) = SubSeq(rs, 1, y - 1) \o <<rs[y]>>
      BY <3>1, SubSeqRecursiveSecond DEF Text
    <3>3. QED BY <2>6, <3>2, Zenon
  <2>8. Flat(a \o o) = Flat(a) \o Flat(o)
    BY FlatConcat
  <2>9. Flat(o) = rs[y] \o <<NL>>
    BY <2>4, <2>6, FlatOne DEF Line1
  <2>10. Len(Flat(o)) = Len(rs[y]) + 1
    <3>1. PICK r \in Seq(Glyph), nl \in Seq(Glyph) : r = rs[y] /\ nl = <<NL>> /\ Len(nl) = 1
      BY <2>4, NLGlyph, OneGlyph DEF Line1
    <3>2. Len(r \o nl) = Len(r) + Len(nl)
      BY ConcatProperties
    <3>3. QED BY <2>9, <3>1, <3>2, Zenon
  <2>11. Len(Flat(a) \o Flat(o)) = Len(Flat(a)) + Len(Flat(o))
    BY FlatIs, ConcatProperties
  <2>12. PICK f \in Nat, n \in Nat : f = Len(Flat(a)) /\ n = Len(rs[y])
    BY <2>4, FlatIs, LenProperties DEF Line1
  <2>13. PointOf(rs, d) = f + n /\ PointOf(rs, c) = (f + (n + 1)) + 0
    BY <1>1, <1>6, <2>5, <2>6, <2>7, <2>8, <2>10, <2>11, <2>12, Zenon DEF PointOf
  <2>14. PointOf(rs, d) + 1 = PointOf(rs, c)
    BY <2>13
  <2>15. QED BY <1>4, <2>14 DEF d
<1>7. QED BY <1>5, <1>6

-----------------------------------------------------------------------------
(* The search *)

\* A word of one-character parts, or of parts of one and two.
LEMMA LowercaseLen ==
    ASSUME NEW s \in Line1
    PROVE  Len(lowercase(s)) \in Nat /\ (Dotted = {} => Len(lowercase(s)) = Len(s))
<1> DEFINE G == Glyph \cup {"dot"}
<1>1. PICK L \in Nat : L = Len(s) /\ DOMAIN s = 1 .. L
  BY LenProperties DEF Line1
<1> DEFINE ps == [k \in 1 .. L |-> IF s[k] \in Dotted THEN <<s[k], "dot">> ELSE <<s[k]>>]
<1>2. lowercase(s) = FlattenSeq(ps)
  BY <1>1 DEF lowercase
<1>3. \A k \in 1 .. L : ps[k] \in Seq(G)
  <2> SUFFICES ASSUME NEW k \in 1 .. L PROVE ps[k] \in Seq(G)
    OBVIOUS
  <2>1. s[k] \in G /\ "dot" \in G
    BY <1>1, ElementOfSeq DEF Line1
  <2> HIDE DEF G
  <2>2. \A a, b \in G : <<a, b>> \in Seq(G) /\ <<a>> \in Seq(G)
    OBVIOUS
  <2>3. QED BY <2>1, <2>2
<1>4. ps \in Seq(Seq(G)) /\ Len(ps) = L
  <2>1. ps \in [1 .. L -> Seq(G)]
    BY <1>3
  <2> HIDE DEF ps, G
  <2>2. QED BY <2>1, IsASeq, LenProperties
<1>5. Dotted = {} => \A k \in 1 .. L : Len(ps[k]) = 1
  OBVIOUS
<1> HIDE DEF ps, G
<1>6. PICK f : Joins(G, ps, f)
  BY <1>4, JoinsExists
<1>7. FlattenSeq(ps) = f[L] /\ FlattenSeq(ps) \in Seq(G)
  BY <1>4, <1>6, FlattenIs
<1>8. /\ f \in [0 .. L -> Seq(G)] /\ f[0] = << >>
      /\ \A i \in 1 .. L : f[i] = f[i - 1] \o ps[i]
  BY <1>4, <1>6 DEF Joins
<1>9. Len(lowercase(s)) \in Nat
  BY <1>2, <1>7, LenProperties
<1>10. ASSUME Dotted = {} PROVE Len(f[L]) = L
  <2> DEFINE Ok == {i \in 0 .. L : Len(f[i]) = i}
  <2>1. 0 \in Ok
    BY <1>8
  <2>2. ASSUME NEW n \in 1 .. L, n - 1 \in Ok PROVE n \in Ok
    <3>1. f[n - 1] \in Seq(G) /\ ps[n] \in Seq(G) /\ Len(f[n - 1]) = n - 1 /\ Len(ps[n]) = 1
      <4>1. ps[n] \in Seq(G)
        BY <1>4, ElementOfSeq
      <4>2. QED BY <1>5, <1>8, <1>10, <2>2, <4>1
    <3>2. Len(f[n - 1] \o ps[n]) = Len(f[n - 1]) + Len(ps[n])
      BY <3>1, ConcatProperties
    <3>3. Len(f[n]) = Len(f[n - 1]) + Len(ps[n])
      BY <1>8, <3>2, Zenon
    <3>4. QED BY <3>1, <3>3
  <2>3. \A n \in 0 .. L : n \in Ok
    <3> HIDE DEF Ok
    <3> QED BY <2>1, <2>2, UpTo
  <2>4. QED BY <2>3
<1>11. QED BY <1>1, <1>2, <1>7, <1>9, <1>10, Zenon

\* Row::find stays in the row, if lower case has as many characters.
LEMMA RowFindIn ==
    ASSUME NEW r \in Line1, NEW query, NEW from \in Nat, NEW x \in RowFind(r, query, from)
    PROVE  x \in Nat /\ (Dotted = {} => x <= Len(r))
<1> DEFINE rest == SubSeq(r, from + 1, Len(r))
           hay  == lowercase(rest)
           hits == {k \in 0 .. Len(hay) : IsPrefix(lowercase(query), SubSeq(hay, k + 1, Len(hay)))}
<1>1. ~(query = << >> \/ from > Len(r)) /\ hits # {} /\ x = from + Min(hits)
  BY DEF RowFind
<1>2. PICK L \in Nat : L = Len(r)
  BY LenProperties DEF Line1
<1>3. rest \in Line1 /\ Len(rest) = L - from
  <2>1. from \in 0 .. Len(r)
    BY <1>1, <1>2
  <2>2. QED BY <1>2, <2>1, CutAt DEF Line1
<1> HIDE DEF rest
<1>4. Len(hay) \in Nat /\ (Dotted = {} => Len(hay) = L - from)
  BY <1>3, LowercaseLen
<1> HIDE DEF hay
<1>5. hits \in SUBSET Nat
  BY <1>4
<1>6. Min(hits) \in hits
  <2> HIDE DEF hits
  <2> QED BY <1>1, <1>5, MinIn
<1>7. Min(hits) \in 0 .. Len(hay)
  BY <1>6
<1> HIDE DEF hits
<1>8. QED BY <1>1, <1>2, <1>4, <1>7

\* Document::find stays in the document.
LEMMA FindIn ==
    ASSUME rows \in Text, NEW query, NEW from \in Pos, NEW c \in find(query, from)
    PROVE  c \in Pos /\ c.y < Len(rows) /\ (Dotted = {} => On(rows, c))
<1> DEFINE start(y) == IF y = from.y THEN from.x ELSE 0
           below == {y \in from.y .. Len(rows) - 1 : RowFind(rows[y + 1], query, start(y)) # {}}
           above == {y \in 0 .. Min({from.y, Len(rows)}) - 1 : RowFind(rows[y + 1], query, 0) # {}}
<1>1. PICK L \in Nat : L = Len(rows)
  BY DEF Text
<1>2. from.x \in Nat /\ from.y \in Nat
  BY DEF Pos
<1>3. \A y \in Nat : start(y) \in Nat
  BY <1>2
<1>4. find(query, from) =
        IF below # {} THEN {At(x, Min(below)) : x \in RowFind(rows[Min(below) + 1], query, start(Min(below)))}
        ELSE IF above # {} THEN {At(x, Min(above)) : x \in RowFind(rows[Min(above) + 1], query, 0)}
        ELSE {}
  BY DEF find
<1>5. below \in SUBSET Nat /\ \A y \in below : y < L
  BY <1>1, <1>2
<1>6. above \in SUBSET Nat /\ \A y \in above : y < L
  <2>1. PICK m \in Nat : m = Min({from.y, Len(rows)}) /\ m <= L
    BY <1>1, <1>2, MinMaxOfTwo
  <2>2. above \subseteq 0 .. m - 1
    BY <2>1, Zenon
  <2> HIDE DEF above
  <2>3. \A y \in 0 .. m - 1 : y \in Nat /\ y < L
    BY <2>1
  <2>4. QED BY <2>2, <2>3, Zenon
<1> HIDE DEF start, below, above
<1>7. PICK y, n, x : y \in Nat /\ n \in Nat /\ x \in RowFind(rows[y + 1], query, n) /\ y < L /\ c = At(x, y)
  <2>1. CASE below # {}
    <3>1. Min(below) \in below
      BY <1>5, <2>1, MinIn
    <3>2. QED BY <1>3, <1>4, <1>5, <2>1, <3>1
  <2>2. CASE below = {} /\ above # {}
    <3>1. Min(above) \in above
      BY <1>6, <2>2, MinIn
    <3>2. QED BY <1>4, <1>6, <2>2, <3>1
  <2>3. QED BY <1>4, <2>1, <2>2
<1>8. rows[y + 1] \in Line1 /\ RowLen(rows, y) = Len(rows[y + 1])
  BY <1>1, <1>7, RowLenNat DEF RowLen
<1>9. x \in Nat /\ (Dotted = {} => x <= Len(rows[y + 1]))
  BY <1>7, <1>8, RowFindIn
<1>10. c \in Pos /\ c.x = x /\ c.y = y
  BY <1>7, <1>9, AtPos
<1>11. QED BY <1>1, <1>7, <1>8, <1>9, <1>10 DEF On

-----------------------------------------------------------------------------
(* The key loop *)

Prompt == [prompt : {"none", "save", "search"}, query : Line1, old : Pos]
InRows(rs, c) == c \in Pos /\ c.y <= Len(rs)

\* Clean text is what the file holds; warnings given and warnings left add up
\* to QUIT_TIMES while keys are read; a session that has ended has no prompt.
EditorInd ==
    /\ rows \in Text /\ InRows(rows, cursor) /\ offset \in Pos /\ CursorOnScreen
    /\ mode \in Prompt /\ InRows(rows, mode.old)
    /\ mode.prompt = "none" => mode = EditMode
    /\ quit => mode = EditMode
    /\ quits \in Nat /\ presses \in Nat
    /\ Editing => quits + presses = QuitTimes
    /\ ~dirty /\ ~failed => rows = IF named THEN disk ELSE << >>
    /\ NothingLost

LEMMA EditConstants ==
    /\ Chars \subseteq Glyph /\ Files \subseteq Text
    /\ ScreenWidth \in Nat \ {0} /\ ScreenHeight \in Nat \ {0} /\ QuitTimes \in Nat
<1>1. /\ Chars \subseteq STRING /\ Files \subseteq Seq(Seq(STRING))
      /\ ScreenWidth \in Nat \ {0} /\ ScreenHeight \in Nat \ {0} /\ QuitTimes \in Nat
  BY EditorAssumption
<1>2. STRING \subseteq Glyph
  BY DEF Glyph
<1>3. Seq(STRING) \subseteq Line1
  BY <1>2, SeqMonotonic DEF Line1
<1>4. Seq(Seq(STRING)) \subseteq Text
  BY <1>3, SeqMonotonic DEF Text
<1>5. QED BY <1>1, <1>2, <1>4

LEMMA EditModeType ==
    /\ EditMode \in Prompt /\ EditMode.prompt = "none"
    /\ \A rs \in Text : InRows(rs, EditMode.old) /\ On(rs, At(0, 0))
<1>1. EditMode = [prompt |-> "none", query |-> << >>, old |-> At(0, 0)]
  BY DEF EditMode
<1>2. At(0, 0) \in Pos /\ At(0, 0).x = 0 /\ At(0, 0).y = 0
  BY AtPos
<1>3. << >> \in Line1
  BY DEF Line1
<1>4. EditMode \in Prompt /\ EditMode.prompt = "none" /\ EditMode.old = At(0, 0)
  BY <1>1, <1>2, <1>3 DEF Prompt
<1>5. ASSUME NEW rs \in Text PROVE 0 <= Len(rs) /\ 0 <= RowLen(rs, 0)
  <2>1. Len(rs) \in Nat
    BY DEF Text
  <2>2. RowLen(rs, 0) \in Nat
    BY RowLenNat
  <2>3. QED BY <2>1, <2>2
<1>6. QED BY <1>2, <1>4, <1>5, Zenon DEF InRows, On

\* scroll brings the cursor on the screen.
LEMMA ScrollShows ==
    ASSUME NEW at \in Nat, NEW off \in Nat, NEW size \in Nat \ {0}
    PROVE  /\ Scrolled(at, off, size) \in Nat /\ at >= Scrolled(at, off, size)
           /\ at - Scrolled(at, off, size) \in 0 .. size - 1
BY DEF Scrolled

LEMMA PutCursorShows ==
    ASSUME NEW c \in Pos, offset \in Pos, PutCursor(c)
    PROVE  cursor' = c /\ offset' \in Pos /\ CursorOnScreen'
<1>1. PICK x \in Nat, y \in Nat : x = c.x /\ y = c.y
  BY DEF Pos
<1>2. PICK ox \in Nat, oy \in Nat : ox = offset.x /\ oy = offset.y
  BY DEF Pos
<1>3. PICK nx \in Nat, ny \in Nat : nx = Scrolled(x, ox, ScreenWidth) /\ ny = Scrolled(y, oy, ScreenHeight)
                                   /\ x >= nx /\ y >= ny
                                   /\ x - nx \in 0 .. ScreenWidth - 1 /\ y - ny \in 0 .. ScreenHeight - 1
  BY EditConstants, ScrollShows
<1>4. cursor' = c /\ offset' = At(nx, ny)
  BY <1>1, <1>2, <1>3, Zenon DEF PutCursor
<1>5. offset' \in Pos /\ offset'.x = nx /\ offset'.y = ny
  BY <1>4, AtPos
<1>6. CursorOnScreen'
  <2>1. cursor'.x = x /\ cursor'.y = y
    BY <1>1, <1>4
  <2>2. QED BY <1>3, <1>5, <2>1 DEF CursorOnScreen
<1>7. QED BY <1>4, <1>5, <1>6

\* Typing and splitting clamp the column first.
Clamp(rs, c) == At(Min({c.x, RowLen(rs, c.y)}), c.y)

LEMMA ClampOn ==
    ASSUME NEW rs \in Text, NEW c, InRows(rs, c), NEW ch
    PROVE  /\ On(rs, Clamp(rs, c))
           /\ Typed(rs, c, ch) = Typed(rs, Clamp(rs, c), ch) /\ Split(rs, c) = Split(rs, Clamp(rs, c))
<1>1. PICK x \in Nat, y \in Nat : x = c.x /\ y = c.y /\ y <= Len(rs)
  BY DEF InRows, Pos
<1>2. PICK n \in Nat : n = RowLen(rs, y)
  BY RowLenNat
<1>3. PICK m \in Nat : m = Min({x, n}) /\ m <= n
  BY MinMaxOfTwo
<1>4. Min({m, n}) = m
  BY <1>3, MinMaxOfTwo
<1>5. Clamp(rs, c) = At(m, y)
  BY <1>1, <1>2, <1>3, Zenon DEF Clamp
<1>6. Clamp(rs, c) \in Pos /\ Clamp(rs, c).x = m /\ Clamp(rs, c).y = y
  BY <1>5, AtPos
<1>7. Min({c.x, RowLen(rs, c.y)}) = m /\ Min({m, RowLen(rs, y)}) = m
  BY <1>1, <1>2, <1>3, <1>4, Zenon
<1>8. Typed(rs, c, ch) = Typed(rs, Clamp(rs, c), ch)
  BY <1>1, <1>6, <1>7, Zenon DEF Typed
<1>9. Split(rs, c) = Split(rs, Clamp(rs, c))
  BY <1>1, <1>6, <1>7, Zenon DEF Split
<1>10. QED BY <1>1, <1>2, <1>3, <1>6, <1>8, <1>9 DEF On

LEMMA EditsTyped ==
    ASSUME NEW rs \in Text, NEW c, InRows(rs, c), NEW ch \in Glyph
    PROVE  /\ Typed(rs, c, ch) \in Text /\ c.y <= Len(Typed(rs, c, ch))
           /\ Split(rs, c) \in Text /\ c.y <= Len(Split(rs, c))
           /\ DeletedAt(rs, c) \in Text /\ c.y <= Len(DeletedAt(rs, c))
           /\ (~(c.y < Len(rs)) => DeletedAt(rs, c) = rs)
<1> DEFINE d == Clamp(rs, c)
<1>1. On(rs, d) /\ Typed(rs, c, ch) = Typed(rs, d, ch) /\ Split(rs, c) = Split(rs, d)
  BY ClampOn
<1>2. c \in Pos /\ c.y \in Nat /\ c.x \in Nat /\ Len(rs) \in Nat /\ c.y <= Len(rs) /\ RowLen(rs, c.y) \in Nat
  <2>1. c \in Pos /\ c.y \in Nat /\ c.x \in Nat /\ c.y <= Len(rs)
    BY DEF InRows, Pos
  <2>2. Len(rs) \in Nat
    BY DEF Text
  <2>3. QED BY <2>1, <2>2, RowLenNat
<1>3. Typed(rs, c, ch) \in Text
  <2>1. Typed(rs, d, ch) \in Text
    <3> HIDE DEF d
    <3> QED BY <1>1, TypedPlaced DEF Placed
  <2>2. QED BY <1>1, <2>1
<1>4. Split(rs, c) \in Text
  <2>1. Split(rs, d) \in Text
    <3> HIDE DEF d
    <3> QED BY <1>1, SplitPlaced DEF Placed
  <2>2. QED BY <1>1, <2>1
<1> HIDE DEF d
<1>5. c.y <= Len(Typed(rs, c, ch))
  <2>1. CASE c.y = Len(rs)
    <3>1. Typed(rs, c, ch) = Append(rs, <<ch>>) /\ <<ch>> \in Line1
      BY <2>1, OneGlyph DEF Typed
    <3>2. PICK r \in Line1 : r = <<ch>>
      BY <3>1
    <3>3. Len(Append(rs, r)) = Len(rs) + 1
      BY AppendProperties DEF Text
    <3>4. QED BY <1>2, <2>1, <3>1, <3>2, <3>3
  <2>2. CASE c.y # Len(rs)
    <3>1. PICK e : Typed(rs, c, ch) = [rs EXCEPT ![c.y + 1] = e]
      BY <2>2 DEF Typed
    <3>2. PICK N \in Nat : N = Len(Typed(rs, c, ch)) /\ DOMAIN Typed(rs, c, ch) = 1 .. N
      BY <1>3 DEF Text
    <3>3. DOMAIN Typed(rs, c, ch) = DOMAIN rs /\ DOMAIN rs = 1 .. Len(rs)
      BY <3>1 DEF Text
    <3>4. PICK M \in Nat : M = Len(rs) /\ 1 .. N = 1 .. M
      BY <1>2, <3>2, <3>3
    <3>5. N = M
      BY <3>4
    <3>6. QED BY <1>2, <3>2, <3>4, <3>5
  <2>3. QED BY <2>1, <2>2
<1>6. c.y <= Len(Split(rs, c))
  <2>2. CASE c.y = Len(rs)
    <3>1. Split(rs, c) = Append(rs, << >>)
      BY <2>2 DEF Split
    <3>2. PICK r \in Line1 : r = << >>
      <4>1. << >> \in Line1
        BY DEF Line1
      <4>2. QED BY <4>1
    <3>3. Len(Append(rs, r)) = Len(rs) + 1
      BY AppendProperties DEF Text
    <3>4. QED BY <1>2, <2>2, <3>1, <3>2, <3>3
  <2>3. CASE c.y # Len(rs)
    <3> DEFINE x == Min({c.x, RowLen(rs, c.y)})
               p == SubSeq(rs[c.y + 1], 1, x)
               q == SubSeq(rs[c.y + 1], x + 1, RowLen(rs, c.y))
    <3>1. Split(rs, c) = (SubSeq(rs, 1, c.y) \o <<p, q>>) \o SubSeq(rs, c.y + 2, Len(rs))
      BY <2>3, Zenon DEF Split
    <3>2. x \in 0 .. RowLen(rs, c.y)
      BY <1>2, MinMaxOfTwo
    <3>3. rs[c.y + 1] \in Line1 /\ RowLen(rs, c.y) = Len(rs[c.y + 1])
      BY <1>2, <2>3, RowLenNat DEF RowLen
    <3>4. p \in Line1 /\ q \in Line1
      <4> HIDE DEF x
      <4> QED BY <3>2, <3>3, CutAt DEF Line1
    <3> HIDE DEF p, q
    <3>5. <<p, q>> \in Text /\ Len(<<p, q>>) = 2
      BY <3>4 DEF Text
    <3>6. PICK a \in Text, o \in Text, b \in Text :
            a = SubSeq(rs, 1, c.y) /\ o = <<p, q>> /\ b = SubSeq(rs, c.y + 2, Len(rs)) /\ Len(a) = c.y /\ Len(o) = 2
      <4>1. SubSeq(rs, 1, c.y) \in Text /\ Len(SubSeq(rs, 1, c.y)) = c.y
        BY <1>2 DEF Text
      <4>2. SubSeq(rs, c.y + 2, Len(rs)) \in Text
        BY <1>2 DEF Text
      <4>3. QED BY <3>5, <4>1, <4>2
    <3>7. PICK w \in Text : w = a \o o /\ Len(w) = Len(a) + Len(o)
      BY ConcatProperties DEF Text
    <3>8. PICK z \in Text : z = w \o b /\ Len(z) = Len(w) + Len(b)
      BY ConcatProperties DEF Text
    <3>9. Len(b) \in Nat
      BY DEF Text
    <3>10. c.y <= Len(z)
      BY <1>2, <3>6, <3>7, <3>8, <3>9
    <3>11. QED BY <3>1, <3>6, <3>7, <3>8, <3>10, Zenon
  <2>4. QED BY <2>2, <2>3
<1>7. DeletedAt(rs, c) \in Text /\ c.y <= Len(DeletedAt(rs, c))
  <2>1. CASE c.x <= RowLen(rs, c.y)
    <3>1. On(rs, c)
      BY <1>2, <2>1 DEF On
    <3>2. DeleteIs(rs, c, DeletedAt(rs, c))
      BY <3>1, DeleteText
    <3>3. QED BY <3>2 DEF DeleteIs, On
  <2>2. CASE c.x > RowLen(rs, c.y)
    <3>1. ~(c.x = RowLen(rs, c.y)) /\ ~(c.x < RowLen(rs, c.y))
      BY <1>2, <2>2
    <3>2. DeletedAt(rs, c) = rs
      BY <3>1, Zenon DEF DeletedAt
    <3>3. QED BY <1>2, <3>2
  <2>3. QED BY <1>2, <2>1, <2>2
<1>8. ~(c.y < Len(rs)) => DeletedAt(rs, c) = rs
  BY Zenon DEF DeletedAt
<1>9. QED BY <1>3, <1>4, <1>5, <1>6, <1>7, <1>8

\* A change of the rows that sets dirty, or changes nothing.
LEMMA EditStep ==
    ASSUME EditorInd, NEW rs \in Text, NEW c, InRows(rs, c), Edit(rs, c),
           ~dirty' => ~dirty /\ rs = rows
    PROVE  EditorInd'
<1>1. /\ mode = EditMode /\ ~quit /\ rows' = rs /\ PutCursor(c) /\ presses' = 0 /\ quits' = QuitTimes
      /\ UNCHANGED <<named, quit, mode, disk, failed>>
  BY DEF Edit, Editing, KeyDone
<1>2. cursor' = c /\ offset' \in Pos /\ CursorOnScreen'
  BY <1>1, PutCursorShows DEF EditorInd, InRows
<1>3. mode' = EditMode /\ mode' \in Prompt /\ InRows(rs, mode'.old)
  BY <1>1, EditModeType
<1>4. quits' \in Nat /\ presses' \in Nat /\ quits' + presses' = QuitTimes
  BY <1>1, EditConstants
<1>5. ~dirty' /\ ~failed' => rows' = IF named' THEN disk' ELSE << >>
  BY <1>1 DEF EditorInd
<1>6. NothingLost'
  BY <1>1 DEF NothingLost
<1>7. InRows(rows, cursor)' /\ InRows(rows, mode.old)'
  BY <1>1, <1>2, <1>3 DEF InRows, Pos
<1>8. QED BY <1>1, <1>2, <1>3, <1>4, <1>5, <1>6, <1>7 DEF EditorInd, Text, Line1, Glyph, NL, Pos, Prompt, EditMode, At, Editing

\* What a step of another kind leaves alone.
LEMMA PromptStep ==
    ASSUME EditorInd, UNCHANGED rows, InRows(rows, cursor'), offset' \in Pos, CursorOnScreen',
           mode' \in Prompt, InRows(rows, mode'.old), mode'.prompt = "none" => mode' = EditMode,
           UNCHANGED quit, quit => UNCHANGED mode, ~quit, quits' \in Nat, presses' \in Nat,
           mode' = EditMode => quits' + presses' = QuitTimes,
           ~dirty' /\ ~failed' => rows = IF named' THEN disk' ELSE << >>
    PROVE  EditorInd'
<1>1. NothingLost'
  BY DEF NothingLost
<1>2. InRows(rows, cursor)' /\ InRows(rows, mode.old)'
  BY DEF InRows, Pos
<1>3. QED BY <1>1, <1>2 DEF EditorInd, Text, Line1, Glyph, NL, Pos, Prompt, EditMode, At, Editing

LEMMA EditorIndInit == EditorInit => EditorInd
<1> SUFFICES ASSUME EditorInit PROVE EditorInd
  OBVIOUS
<1>1. rows \in Text
  <2>1. << >> \in Text
    BY DEF Text
  <2>2. QED BY <2>1, EditConstants DEF EditorInit
<1>2. cursor = At(0, 0) /\ offset = At(0, 0) /\ mode = EditMode /\ ~quit /\ quits = QuitTimes /\ presses = 0
  BY DEF EditorInit
<1>3. At(0, 0) \in Pos /\ At(0, 0).x = 0 /\ At(0, 0).y = 0
  BY AtPos
<1>4. InRows(rows, cursor) /\ offset \in Pos
  BY <1>1, <1>2, <1>3, EditModeType DEF InRows, On
<1>5. CursorOnScreen
  BY <1>2, <1>3, EditConstants DEF CursorOnScreen
<1>6. quits + presses = QuitTimes /\ quits \in Nat /\ presses \in Nat
  BY <1>2, EditConstants
<1>7. ~dirty /\ ~failed => rows = IF named THEN disk ELSE << >>
  BY DEF EditorInit
<1>8. NothingLost
  BY <1>2 DEF NothingLost
<1>9. mode \in Prompt /\ InRows(rows, mode.old)
  BY <1>1, <1>2, EditModeType
<1>10. QED BY <1>1, <1>2, <1>4, <1>5, <1>6, <1>7, <1>8, <1>9 DEF EditorInd

LEMMA EditorIndMove == EditorInd /\ Move => EditorInd'
<1> SUFFICES ASSUME EditorInd, Move PROVE EditorInd'
  OBVIOUS
<1>1. PICK key \in Keys : PutCursor(Moved(rows, cursor, key))
  BY DEF Move, Keys
<1>2. /\ mode = EditMode /\ ~quit /\ presses' = 0 /\ quits' = QuitTimes
      /\ UNCHANGED <<rows, named, dirty, disk, failed, quit, mode>>
  BY DEF Move, Editing, KeyDone, doc
<1>3. InRows(rows, Moved(rows, cursor, key))
  BY MovedOn DEF EditorInd, InRows, On
<1>4. cursor' = Moved(rows, cursor, key) /\ offset' \in Pos /\ CursorOnScreen'
  BY <1>1, <1>3, PutCursorShows DEF EditorInd, InRows
<1>5. quits' \in Nat /\ presses' \in Nat /\ quits' + presses' = QuitTimes
  BY <1>2, EditConstants
<1>6. mode' \in Prompt /\ InRows(rows, mode'.old) /\ (mode'.prompt = "none" => mode' = EditMode)
      /\ (~dirty' /\ ~failed' => rows = IF named' THEN disk' ELSE << >>)
  BY <1>2 DEF EditorInd
<1>7. QED BY <1>2, <1>3, <1>4, <1>5, <1>6, PromptStep

LEMMA EditorIndEdits == EditorInd /\ (InsertChar \/ InsertNewline \/ Delete \/ Backspace) => EditorInd'
<1> SUFFICES ASSUME EditorInd, InsertChar \/ InsertNewline \/ Delete \/ Backspace PROVE EditorInd'
  OBVIOUS
<1>1. rows \in Text /\ InRows(rows, cursor) /\ cursor \in Pos
  BY DEF EditorInd, InRows
<1>2. \A rs \in Text : cursor.y <= Len(rs) => InRows(rs, Moved(rs, cursor, "Right"))
  BY <1>1, MovedOn DEF InRows, On, Keys
<1>3. \A y : len(y) = RowLen(rows, y)
  BY DEF len, RowLen
<1>4. CASE InsertChar
  <2>1. PICK ch \in Chars : Edit(Typed(rows, cursor, ch), Moved(Typed(rows, cursor, ch), cursor, "Right"))
    BY <1>3, <1>4, Zenon DEF InsertChar, Typed
  <2>2. Typed(rows, cursor, ch) \in Text /\ cursor.y <= Len(Typed(rows, cursor, ch))
    BY <1>1, EditConstants, EditsTyped
  <2>3. dirty' = TRUE
    BY <1>4 DEF InsertChar
  <2>4. QED BY <1>2, <2>1, <2>2, <2>3, EditStep
<1>5. CASE InsertNewline
  <2>1. Edit(Split(rows, cursor), Moved(Split(rows, cursor), cursor, "Right"))
    BY <1>3, <1>5, Zenon DEF InsertNewline, Split
  <2>2. Split(rows, cursor) \in Text /\ cursor.y <= Len(Split(rows, cursor))
    BY <1>1, NLGlyph, EditsTyped
  <2>3. dirty' = TRUE
    BY <1>5 DEF InsertNewline
  <2>4. QED BY <1>2, <2>1, <2>2, <2>3, EditStep
<1>6. \A c : Deleted(c) = DeletedAt(rows, c)
  BY <1>3, Zenon DEF Deleted, DeletedAt
<1>7. CASE Delete
  <2>1. Edit(DeletedAt(rows, cursor), cursor) /\ dirty' = (dirty \/ cursor.y < Len(rows))
    BY <1>6, <1>7, Zenon DEF Delete
  <2>2. DeletedAt(rows, cursor) \in Text /\ cursor.y <= Len(DeletedAt(rows, cursor))
        /\ (~(cursor.y < Len(rows)) => DeletedAt(rows, cursor) = rows)
    BY <1>1, NLGlyph, EditsTyped
  <2>3. InRows(DeletedAt(rows, cursor), cursor)
    BY <1>1, <2>2 DEF InRows
  <2>4. QED BY <2>1, <2>2, <2>3, EditStep
<1>8. CASE Backspace
  <2> DEFINE c == Moved(rows, cursor, "Left")
  <2>1. Edit(DeletedAt(rows, c), c) /\ dirty' = (dirty \/ c.y < Len(rows))
    BY <1>6, <1>8, Zenon DEF Backspace
  <2>2. InRows(rows, c)
    BY <1>1, MovedOn DEF InRows, On, Keys
  <2> HIDE DEF c
  <2>3. DeletedAt(rows, c) \in Text /\ c.y <= Len(DeletedAt(rows, c))
        /\ (~(c.y < Len(rows)) => DeletedAt(rows, c) = rows)
    BY <1>1, <2>2, NLGlyph, EditsTyped
  <2>4. InRows(DeletedAt(rows, c), c)
    BY <2>2, <2>3 DEF InRows
  <2>5. QED BY <2>1, <2>3, <2>4, EditStep
<1>9. QED BY <1>4, <1>5, <1>7, <1>8

LEMMA EditorIndQuit == EditorInd /\ (QuitWarned \/ Quit) => EditorInd'
<1> SUFFICES ASSUME EditorInd, QuitWarned \/ Quit PROVE EditorInd'
  OBVIOUS
<1>1. /\ mode = EditMode /\ ~quit /\ presses' = presses + 1
      /\ UNCHANGED <<rows, named, dirty, disk, failed, cursor, offset, mode>>
  BY DEF QuitWarned, Quit, Editing, doc
<1>2. quits \in Nat /\ presses \in Nat /\ quits + presses = QuitTimes /\ QuitTimes \in Nat
  BY <1>1, EditConstants DEF EditorInd, Editing
<1>3. /\ rows \in Text /\ InRows(rows, cursor) /\ offset \in Pos /\ CursorOnScreen /\ mode \in Prompt /\ InRows(rows, mode.old)
      /\ ~dirty /\ ~failed => rows = IF named THEN disk ELSE << >>
  BY DEF EditorInd
<1>4. CASE QuitWarned
  <2>1. quits' = quits - 1 /\ quits > 0 /\ UNCHANGED quit
    BY <1>4 DEF QuitWarned
  <2>2. quits' \in Nat /\ presses' \in Nat /\ quits' + presses' = QuitTimes
    BY <1>1, <1>2, <2>1
  <2>3. CursorOnScreen'
    BY <1>1, <1>3 DEF CursorOnScreen
  <2>4. InRows(rows, cursor') /\ offset' \in Pos /\ mode' \in Prompt /\ InRows(rows, mode'.old)
    BY <1>1, <1>3
  <2>5. ~dirty' /\ ~failed' => rows = IF named' THEN disk' ELSE << >>
    BY <1>1, <1>3
  <2>6. QED BY <1>1, <2>1, <2>2, <2>3, <2>4, <2>5, PromptStep
<1>5. CASE Quit
  <2>1. quit' /\ quits' = QuitTimes /\ ~(dirty /\ quits > 0)
    BY <1>5 DEF Quit
  <2>2. quits' \in Nat /\ presses' \in Nat
    BY <1>1, <1>2, <2>1
  <2>3. NothingLost'
    <3>1. ASSUME presses' < QuitTimes, ~failed' PROVE rows' = IF named' THEN disk' ELSE << >>
      <4>1. quits > 0
        BY <1>1, <1>2, <3>1
      <4>2. QED BY <1>1, <1>3, <2>1, <3>1, <4>1
    <3>2. QED BY <3>1 DEF NothingLost
  <2>4. CursorOnScreen'
    BY <1>1, <1>3 DEF CursorOnScreen
  <2>5. InRows(rows, cursor)' /\ InRows(rows, mode.old)'
    BY <1>1, <1>3 DEF InRows, Pos
  <2>6. QED BY <1>1, <1>3, <2>1, <2>2, <2>3, <2>4, <2>5
            DEF EditorInd, Text, Line1, Glyph, NL, Pos, Prompt, EditMode, At, Editing
<1>6. QED BY <1>4, <1>5

LEMMA EditorIndSave == EditorInd /\ (Save \/ SaveAs) => EditorInd'
<1> SUFFICES ASSUME EditorInd, Save \/ SaveAs PROVE EditorInd'
  OBVIOUS
<1>1. /\ rows \in Text /\ InRows(rows, cursor) /\ offset \in Pos /\ CursorOnScreen
      /\ ~dirty /\ ~failed => rows = IF named THEN disk ELSE << >>
  BY DEF EditorInd
<1>2. mode' = EditMode /\ presses' = 0 /\ quits' = QuitTimes /\ UNCHANGED <<rows, cursor, offset, quit>> /\ ~quit
  <2>1. CASE Save
    BY <2>1 DEF Save, Editing, KeyDone
  <2>2. CASE SaveAs
    <3>1. mode # EditMode
      BY <2>2, EditModeType DEF SaveAs
    <3>2. QED BY <2>2, <3>1 DEF SaveAs, KeyDone, EditorInd
  <2>3. QED BY <2>1, <2>2
<1>3. ~dirty' /\ ~failed' => rows = IF named' THEN disk' ELSE << >>
  <2>1. CASE Saved /\ named'
    <3>1. CASE disk' = rows /\ dirty' = FALSE /\ failed' = FALSE
      BY <2>1, <3>1
    <3>2. CASE failed' = TRUE
      BY <3>2
    <3>3. QED BY <2>1, <3>1, <3>2 DEF Saved
  <2>2. CASE UNCHANGED <<named, dirty, disk, failed>>
    BY <1>1, <2>2
  <2>3. QED BY <2>1, <2>2 DEF Save, SaveAs
<1>4. quits' \in Nat /\ presses' \in Nat /\ quits' + presses' = QuitTimes
  BY <1>2, EditConstants
<1>5. CursorOnScreen'
  BY <1>1, <1>2 DEF CursorOnScreen
<1>6. mode' \in Prompt /\ InRows(rows, mode'.old)
  BY <1>1, <1>2, EditModeType
<1>7. InRows(rows, cursor') /\ offset' \in Pos
  BY <1>1, <1>2
<1>8. QED BY <1>2, <1>3, <1>4, <1>5, <1>6, <1>7, PromptStep

LEMMA EditorIndAsk == EditorInd /\ (AskName \/ AskSearch) => EditorInd'
<1> SUFFICES ASSUME EditorInd, AskName \/ AskSearch PROVE EditorInd'
  OBVIOUS
<1>1. PICK p \in {"save", "search"} : OpenPrompt(p)
  BY DEF AskName, AskSearch
<1>2. /\ rows \in Text /\ InRows(rows, cursor) /\ offset \in Pos /\ CursorOnScreen /\ quits \in Nat
      /\ ~dirty /\ ~failed => rows = IF named THEN disk ELSE << >>
  BY DEF EditorInd
<1>3. /\ mode' = [prompt |-> p, query |-> << >>, old |-> cursor] /\ presses' = 0 /\ ~quit
      /\ UNCHANGED <<rows, named, dirty, disk, failed, cursor, offset, quits, quit>>
  BY <1>1 DEF OpenPrompt, doc, Editing
<1>4. mode' \in Prompt /\ mode'.prompt = p /\ mode'.old = cursor
  <2>1. << >> \in Line1 /\ cursor \in Pos
    BY <1>2 DEF Line1, InRows
  <2>2. QED BY <1>3, <2>1 DEF Prompt
<1>5. mode' # EditMode
  BY <1>4, EditModeType
<1>6. CursorOnScreen'
  BY <1>2, <1>3 DEF CursorOnScreen
<1>7. InRows(rows, cursor') /\ offset' \in Pos /\ InRows(rows, mode'.old) /\ quits' \in Nat /\ presses' \in Nat
  BY <1>2, <1>3, <1>4
<1>8. ~dirty' /\ ~failed' => rows = IF named' THEN disk' ELSE << >>
  BY <1>2, <1>3
<1>9. QED BY <1>3, <1>4, <1>5, <1>6, <1>7, <1>8, PromptStep

LEMMA EditorIndSearch == EditorInd /\ (SearchKey \/ SearchDone) => EditorInd'
<1> SUFFICES ASSUME EditorInd, SearchKey \/ SearchDone PROVE EditorInd'
  OBVIOUS
<1>1. /\ rows \in Text /\ InRows(rows, cursor) /\ InRows(rows, mode.old) /\ offset \in Pos /\ mode \in Prompt
      /\ quits \in Nat /\ presses \in Nat
      /\ ~dirty /\ ~failed => rows = IF named THEN disk ELSE << >>
  BY DEF EditorInd
<1>2. mode.prompt = "search" /\ ~quit /\ UNCHANGED <<rows, named, dirty, disk, failed, quit>>
  <2>1. mode.prompt = "search"
    BY DEF SearchKey, SearchDone
  <2>2. mode # EditMode
    BY <2>1, EditModeType
  <2>3. QED BY <2>1, <2>2 DEF SearchKey, SearchDone, EditorInd, doc
<1>3. CASE SearchKey
  <2>1. PICK q \in {Append(mode.query, c) : c \in Chars} \cup {mode.query, SubSeq(mode.query, 1, Len(mode.query) - 1)} :
          /\ mode' = [mode EXCEPT !.query = q]
          /\ PutCursor(IF find(q, cursor) = {} THEN cursor ELSE CHOOSE c \in find(q, cursor) : TRUE)
    BY <1>3 DEF SearchKey
  <2>2. mode.query \in Line1 /\ mode.old \in Pos
    BY <1>1 DEF Prompt
  <2>3. q \in Line1
    <3>1. \A c \in Chars : Append(mode.query, c) \in Line1
      BY <2>2, EditConstants, AppendProperties DEF Line1
    <3>2. SubSeq(mode.query, 1, Len(mode.query) - 1) \in Line1
      BY <2>2 DEF Line1
    <3>3. QED BY <2>1, <2>2, <3>1, <3>2
  <2>4. mode' \in Prompt /\ mode'.prompt = "search" /\ mode'.old = mode.old
    BY <1>1, <1>2, <2>1, <2>3 DEF Prompt
  <2>5. mode' # EditMode
    BY <2>4, EditModeType
  <2> DEFINE c == IF find(q, cursor) = {} THEN cursor ELSE CHOOSE d \in find(q, cursor) : TRUE
  <2>6. InRows(rows, c)
    <3>1. CASE find(q, cursor) = {}
      BY <1>1, <3>1
    <3>2. CASE find(q, cursor) # {}
      <4>1. c \in find(q, cursor)
        BY <3>2
      <4> HIDE DEF c
      <4>2. cursor \in Pos
        BY <1>1 DEF InRows
      <4>3. c \in Pos /\ c.y < Len(rows)
        BY <1>1, <4>1, <4>2, FindIn
      <4>4. c.y \in Nat /\ Len(rows) \in Nat
        BY <1>1, <4>3 DEF Pos, Text
      <4>5. QED BY <4>3, <4>4 DEF InRows
    <3>3. QED BY <3>1, <3>2
  <2>7. PutCursor(c)
    BY <2>1
  <2> HIDE DEF c
  <2>8. cursor' = c /\ offset' \in Pos /\ CursorOnScreen'
    BY <1>1, <2>6, <2>7, PutCursorShows DEF InRows
  <2>9. quits' \in Nat /\ presses' \in Nat
    BY <1>1, <1>3 DEF SearchKey
  <2>10. InRows(rows, cursor') /\ InRows(rows, mode'.old)
    BY <1>1, <2>4, <2>6, <2>8
  <2>11. ~dirty' /\ ~failed' => rows = IF named' THEN disk' ELSE << >>
    BY <1>1, <1>2
  <2>12. QED BY <1>2, <2>4, <2>5, <2>8, <2>9, <2>10, <2>11, PromptStep
<1>4. CASE SearchDone
  <2>1. PICK c \in {cursor, mode.old} : PutCursor(c)
    BY <1>4 DEF SearchDone
  <2>2. InRows(rows, c)
    BY <1>1, <2>1
  <2>3. cursor' = c /\ offset' \in Pos /\ CursorOnScreen'
    BY <1>1, <2>1, <2>2, PutCursorShows DEF InRows
  <2>4. mode' = EditMode /\ quits' = QuitTimes /\ presses' = 0
    BY <1>4 DEF SearchDone, KeyDone
  <2>5. quits' \in Nat /\ presses' \in Nat /\ quits' + presses' = QuitTimes
    BY <2>4, EditConstants
  <2>6. mode' \in Prompt /\ InRows(rows, mode'.old)
    BY <1>1, <2>4, EditModeType
  <2>7. ~dirty' /\ ~failed' => rows = IF named' THEN disk' ELSE << >>
    BY <1>1, <1>2
  <2>8. QED BY <1>2, <2>2, <2>3, <2>4, <2>5, <2>6, <2>7, PromptStep
<1>5. QED BY <1>3, <1>4

LEMMA EditorIndStutter == EditorInd /\ UNCHANGED editor => EditorInd'
BY DEF EditorInd, editor, Text, Line1, Glyph, NL, Pos, Prompt, EditMode, At, Editing, InRows, CursorOnScreen, NothingLost

\* Every key and prompt keeps EditorInd.
THEOREM EditorInvariant == EditorSpec => []EditorInd
<1>1. EditorInd /\ [EditorNext]_editor => EditorInd'
  BY EditorIndMove, EditorIndEdits, EditorIndQuit, EditorIndSave, EditorIndAsk, EditorIndSearch, EditorIndStutter
     DEF EditorNext
<1>2. QED BY <1>1, EditorIndInit, PTL DEF EditorSpec

\* Whatever is typed, saved, searched for and asked, for every screen and file:
\* a session that ends with warnings left and no failed save has lost nothing,
\* and the cursor is on the screen.
THEOREM EditorIsSound == EditorSpec => []EditorSound
<1>1. EditorInd => EditorSound
  BY DEF EditorInd, EditorSound
<1>2. QED BY <1>1, EditorInvariant, PTL

-----------------------------------------------------------------------------
(* The edits as edits of one text *)

TypeText(t, n, ch) == IF n = Len(t) THEN t \o <<ch, NL>> ELSE InsertAt(t, n + 1, ch)

\* Document ns with its cursor at d is the text t, with the point at n.
Reads(ns, d, t, n) == ns \in Text /\ On(ns, d) /\ Flat(ns) = t /\ PointOf(ns, d) = n

LEMMA TypedText ==
    ASSUME NEW rs \in Text, NEW c, On(rs, c), NEW ch \in Glyph
    PROVE  Reads(Typed(rs, c, ch), Moved(Typed(rs, c, ch), c, "Right"),
                 TypeText(Flat(rs), PointOf(rs, c), ch), PointOf(rs, c) + 1)
<1> DEFINE ns == Typed(rs, c, ch)
           d == Moved(ns, c, "Right")
           e == IF PointOf(rs, c) = Len(Flat(rs)) THEN <<NL>> ELSE << >>
<1>1. PICK u, v : /\ Placed(rs, c, u, v)
                  /\ Placed(ns, d, u \o <<ch>>, IF PointOf(rs, c) = Len(Flat(rs)) THEN <<NL>> ELSE v)
                  /\ PointOf(rs, c) = Len(Flat(rs)) => v = << >>
  BY TypedPlaced
<1> HIDE DEF ns, d
<1>2. u \in Line1 /\ v \in Line1 /\ Flat(rs) = u \o v /\ PointOf(rs, c) = Len(u)
  BY <1>1, Zenon DEF Placed
<1>3. PICK D \in Line1 : D = <<ch>> /\ Len(D) = 1
  BY OneGlyph
<1>4. PICK N \in Line1 : N = <<NL>>
  BY OneGlyph, NLGlyph
<1>5. ns \in Text /\ On(ns, d) /\ PointOf(ns, d) = Len(u \o D)
  BY <1>1, <1>3, Zenon DEF Placed
<1>6. Len(u \o D) = Len(u) + 1
  <2>1. Len(u \o D) = Len(u) + Len(D)
    BY <1>2, ConcatProperties DEF Line1
  <2>2. QED BY <1>3, <2>1, Zenon
<1>7. PointOf(ns, d) = PointOf(rs, c) + 1
  BY <1>2, <1>5, <1>6, Zenon
<1>8. Flat(ns) = TypeText(Flat(rs), PointOf(rs, c), ch)
  <2>1. CASE PointOf(rs, c) = Len(Flat(rs))
    <3>1. Flat(ns) = (u \o D) \o N
      BY <1>1, <1>3, <1>4, <2>1, Zenon DEF Placed
    <3>2. Flat(rs) = u
      <4>1. u \o << >> = u
        BY <1>2, ConcatEmptySeq DEF Line1
      <4>2. v = << >>
        BY <1>1, <2>1, Zenon
      <4>3. QED BY <1>2, <4>1, <4>2, Zenon
    <3>3. <<ch, NL>> = D \o N
      <4>1. <<ch, NL>> = <<ch>> \o <<NL>>
        BY NLGlyph, PairIsConcat
      <4>2. QED BY <1>3, <1>4, <4>1, Zenon
    <3>4. Assoc(u, D, N)
      BY <1>2, AssocHolds DEF Line1
    <3>5. QED BY <2>1, <3>1, <3>2, <3>3, <3>4, Zenon DEF Assoc, TypeText
  <2>2. CASE PointOf(rs, c) # Len(Flat(rs))
    <3>1. Flat(ns) = (u \o <<ch>>) \o v
      BY <1>1, <2>2, Zenon DEF Placed
    <3>2. Inserted(u, v, ch)
      BY <1>2, InsertInto DEF Line1
    <3>3. QED BY <1>2, <2>2, <3>1, <3>2, Zenon DEF Inserted, TypeText
  <2>3. QED BY <2>1, <2>2
<1>9. QED BY <1>5, <1>7, <1>8, Zenon DEF Reads, ns, d

LEMMA SplitText ==
    ASSUME NEW rs \in Text, NEW c, On(rs, c)
    PROVE  Reads(Split(rs, c), Moved(Split(rs, c), c, "Right"),
                 InsertAt(Flat(rs), PointOf(rs, c) + 1, NL), PointOf(rs, c) + 1)
<1> DEFINE ns == Split(rs, c)
           d == Moved(ns, c, "Right")
<1>1. PICK u, v : Placed(rs, c, u, v) /\ Placed(ns, d, u \o <<NL>>, v)
  BY SplitPlaced
<1> HIDE DEF ns, d
<1>2. u \in Line1 /\ v \in Line1 /\ Flat(rs) = u \o v /\ PointOf(rs, c) = Len(u)
  BY <1>1, Zenon DEF Placed
<1>3. PICK N \in Line1 : N = <<NL>> /\ Len(N) = 1
  BY OneGlyph, NLGlyph
<1>4. ns \in Text /\ On(ns, d) /\ PointOf(ns, d) = Len(u \o N) /\ Flat(ns) = (u \o <<NL>>) \o v
  BY <1>1, <1>3, Zenon DEF Placed
<1>5. Len(u \o N) = Len(u) + 1
  <2>1. Len(u \o N) = Len(u) + Len(N)
    BY <1>2, ConcatProperties DEF Line1
  <2>2. QED BY <1>3, <2>1, Zenon
<1>6. Inserted(u, v, NL)
  BY <1>2, NLGlyph, InsertInto DEF Line1
<1>7. QED BY <1>2, <1>4, <1>5, <1>6, Zenon DEF Reads, ns, d, Inserted

\* The document, the cursor and the place a prompt goes back to are sound when
\* no character is two in lower case.
Pointed == EditorInd /\ On(rows, cursor) /\ On(rows, mode.old)

LEMMA Primes ==
    /\ Flat(rows)' = Flat(rows') /\ PointOf(rows, cursor)' = PointOf(rows', cursor')
    /\ On(rows, cursor)' <=> On(rows', cursor')
    /\ On(rows, mode.old)' <=> On(rows', mode'.old)
BY DEF Flat, PointOf, NL, On, RowLen, Pos

LEMMA BufferSteps ==
    /\ \A ch : Flat(rows') = TypeText(Flat(rows), PointOf(rows, cursor), ch)
               /\ PointOf(rows', cursor') = PointOf(rows, cursor) + 1 => Buffer!Type(ch)
    /\ Flat(rows') = InsertAt(Flat(rows), PointOf(rows, cursor) + 1, NL)
       /\ PointOf(rows', cursor') = PointOf(rows, cursor) + 1 => Buffer!Enter
    /\ Flat(rows') = Shorter(Flat(rows), PointOf(rows, cursor))
       /\ PointOf(rows', cursor') = PointOf(rows, cursor) => Buffer!Delete
    /\ PointOf(rows', cursor') \in 0 .. Len(Flat(rows)) /\ rows' = rows => Buffer!Move
    /\ rows' = rows /\ cursor' = cursor => UNCHANGED Buffer!vars
<1>1. Flat(rows)' = Flat(rows') /\ PointOf(rows, cursor)' = PointOf(rows', cursor')
  BY Primes
<1>2. /\ \A s, i, e : Buffer!InsertAt(s, i, e) = InsertAt(s, i, e)
      /\ \A s, i : Buffer!RemoveAt(s, i) = RemoveAt(s, i)
  BY DEF Buffer!InsertAt, InsertAt, Buffer!RemoveAt, RemoveAt
<1>3. ASSUME NEW ch, Flat(rows') = TypeText(Flat(rows), PointOf(rows, cursor), ch),
                     PointOf(rows', cursor') = PointOf(rows, cursor) + 1
      PROVE  Buffer!Type(ch)
  BY <1>1, <1>3, <1>2, Zenon DEF Buffer!Type, PointOf, TypeText
<1>4. ASSUME Flat(rows') = InsertAt(Flat(rows), PointOf(rows, cursor) + 1, NL),
             PointOf(rows', cursor') = PointOf(rows, cursor) + 1
      PROVE  Buffer!Enter
  BY <1>1, <1>4, <1>2, Zenon DEF Buffer!Enter, PointOf
<1>5. ASSUME Flat(rows') = Shorter(Flat(rows), PointOf(rows, cursor)),
             PointOf(rows', cursor') = PointOf(rows, cursor)
      PROVE  Buffer!Delete
  BY <1>1, <1>5, <1>2, Zenon DEF Buffer!Delete, Buffer!Without, PointOf, Shorter
<1>6. ASSUME PointOf(rows', cursor') \in 0 .. Len(Flat(rows)), rows' = rows PROVE Buffer!Move
  BY <1>1, <1>6, Zenon DEF Buffer!Move, PointOf
<1>7. ASSUME rows' = rows, cursor' = cursor PROVE UNCHANGED Buffer!vars
  BY <1>1, <1>7, Zenon DEF Buffer!vars, PointOf
<1>8. QED BY <1>3, <1>4, <1>5, <1>6, <1>7, Zenon

PointsOn == On(rows', cursor') /\ On(rows', mode'.old)

LEMMA EditPoints ==
    ASSUME NEW rs, NEW d, NEW t, NEW n, Reads(rs, d, t, n), Edit(rs, d)
    PROVE  PointsOn /\ Flat(rows') = t /\ PointOf(rows', cursor') = n
<1>1. rows' = rs /\ cursor' = d /\ mode' = EditMode
  BY DEF Edit, PutCursor, Editing
<1>2. EditMode.old = At(0, 0)
  BY DEF EditMode
<1>3. rs \in Text /\ On(rs, d) /\ Flat(rs) = t /\ PointOf(rs, d) = n
  BY Zenon DEF Reads
<1>4. On(rs, At(0, 0))
  BY <1>3, EditModeType
<1>5. QED BY <1>1, <1>2, <1>3, <1>4, Zenon DEF PointsOn

LEMMA OneTextTyped == Pointed /\ InsertChar => PointsOn /\ \E ch \in Chars : Buffer!Type(ch)
<1> SUFFICES ASSUME Pointed, InsertChar PROVE PointsOn /\ \E ch \in Chars : Buffer!Type(ch)
  OBVIOUS
<1>1. rows \in Text /\ On(rows, cursor)
  BY DEF Pointed, EditorInd
<1>2. \A y : len(y) = RowLen(rows, y)
  BY DEF len, RowLen
<1>3. PICK ch \in Chars : Edit(Typed(rows, cursor, ch), Moved(Typed(rows, cursor, ch), cursor, "Right"))
  BY <1>2, Zenon DEF InsertChar, Typed
<1>4. ch \in Glyph
  BY EditConstants
<1> DEFINE ns == Typed(rows, cursor, ch)
           d == Moved(ns, cursor, "Right")
           t == TypeText(Flat(rows), PointOf(rows, cursor), ch)
           n == PointOf(rows, cursor) + 1
<1>5. Reads(ns, d, t, n) /\ Edit(ns, d)
  BY <1>1, <1>3, <1>4, TypedText
<1> HIDE DEF ns, d, t, n
<1>6. PointsOn /\ Flat(rows') = t /\ PointOf(rows', cursor') = n
  BY <1>5, EditPoints
<1>7. Buffer!Type(ch)
  BY <1>6, BufferSteps, Zenon DEF t, n
<1>8. QED BY <1>6, <1>7

LEMMA OneTextSplit == Pointed /\ InsertNewline => PointsOn /\ Buffer!Enter
<1> SUFFICES ASSUME Pointed, InsertNewline PROVE PointsOn /\ Buffer!Enter
  OBVIOUS
<1>1. rows \in Text /\ On(rows, cursor)
  BY DEF Pointed, EditorInd
<1>2. \A y : len(y) = RowLen(rows, y)
  BY DEF len, RowLen
<1> DEFINE ns == Split(rows, cursor)
           d == Moved(ns, cursor, "Right")
           t == InsertAt(Flat(rows), PointOf(rows, cursor) + 1, NL)
           n == PointOf(rows, cursor) + 1
<1>3. Edit(ns, d)
  BY <1>2, Zenon DEF InsertNewline, Split
<1>4. Reads(ns, d, t, n)
  BY <1>1, SplitText
<1> HIDE DEF ns, d, t, n
<1>5. PointsOn /\ Flat(rows') = t /\ PointOf(rows', cursor') = n
  BY <1>3, <1>4, EditPoints
<1>6. Buffer!Enter
  BY <1>5, BufferSteps, Zenon DEF t, n
<1>7. QED BY <1>5, <1>6

LEMMA DeletedReads ==
    ASSUME rows \in Text, NEW c, On(rows, c)
    PROVE  Reads(Deleted(c), c, Shorter(Flat(rows), PointOf(rows, c)), PointOf(rows, c))
<1>1. \A y : len(y) = RowLen(rows, y)
  BY DEF len, RowLen
<1>2. Deleted(c) = DeletedAt(rows, c)
  BY <1>1, Zenon DEF Deleted, DeletedAt
<1>3. DeleteIs(rows, c, DeletedAt(rows, c))
  BY DeleteText
<1>4. QED BY <1>2, <1>3, Zenon DEF DeleteIs, Reads

LEMMA OneTextDelete == Pointed /\ Delete => PointsOn /\ Buffer!Delete
<1> SUFFICES ASSUME Pointed, Delete PROVE PointsOn /\ Buffer!Delete
  OBVIOUS
<1>1. rows \in Text /\ On(rows, cursor)
  BY DEF Pointed, EditorInd
<1> DEFINE ns == Deleted(cursor)
           t == Shorter(Flat(rows), PointOf(rows, cursor))
           n == PointOf(rows, cursor)
<1>2. Edit(ns, cursor)
  BY Zenon DEF Delete
<1>3. Reads(ns, cursor, t, n)
  BY <1>1, DeletedReads
<1> HIDE DEF ns, t, n
<1>4. PointsOn /\ Flat(rows') = t /\ PointOf(rows', cursor') = n
  BY <1>2, <1>3, EditPoints
<1>5. Buffer!Delete
  BY <1>4, BufferSteps, Zenon DEF t, n
<1>6. QED BY <1>4, <1>5

LEMMA OneTextBackspace == Pointed /\ Backspace => PointsOn /\ Buffer!Backspace
<1> SUFFICES ASSUME Pointed, Backspace PROVE PointsOn /\ Buffer!Backspace
  OBVIOUS
<1>1. rows \in Text /\ On(rows, cursor) /\ cursor # At(0, 0)
  BY DEF Pointed, EditorInd, Backspace
<1> DEFINE c == Moved(rows, cursor, "Left")
           ns == Deleted(c)
           n == PointOf(rows, c)
           t == Shorter(Flat(rows), n)
           p == PointOf(rows, cursor)
<1>2. Edit(ns, c)
  BY Zenon DEF Backspace
<1>3. On(rows, c) /\ n + 1 = p
  BY <1>1, LeftPoint
<1>4. Reads(ns, c, t, n)
  BY <1>1, <1>3, DeletedReads
<1>5. p \in Nat /\ n \in Nat
  <2>1. \A d : On(rows, d) => PointOf(rows, d) \in Nat
    <3> SUFFICES ASSUME NEW d, On(rows, d) PROVE PointOf(rows, d) \in Nat
      OBVIOUS
    <3>1. d.x \in Nat /\ d.y \in Nat /\ d = At(d.x, d.y)
      BY DEF On, Pos, At
    <3>2. PointOf(rows, d) \in 0 .. Len(Flat(rows))
      BY <1>1, <3>1, PointIn
    <3>3. QED BY <3>2
  <2> HIDE DEF c
  <2>2. QED BY <1>1, <1>3, <2>1
<1> HIDE DEF c, ns, n, t, p
<1>6. PointsOn /\ Flat(rows') = t /\ PointOf(rows', cursor') = n
  BY <1>2, <1>4, EditPoints DEF n
<1>7. p > 0 /\ n = p - 1
  BY <1>3, <1>5
<1>8. t = IF p < Len(Flat(rows)) THEN RemoveAt(Flat(rows), p) ELSE Flat(rows)
  BY <1>3, Zenon DEF t, Shorter
<1>9. Buffer!Backspace
  <2>1. \A s, i : Buffer!RemoveAt(s, i) = RemoveAt(s, i)
    BY DEF Buffer!RemoveAt, RemoveAt
  <2>2. Flat(rows)' = t /\ PointOf(rows, cursor)' = p - 1
    BY <1>6, <1>7, Primes, Zenon
  <2>3. QED BY <1>7, <1>8, <2>1, <2>2, Zenon DEF Buffer!Backspace, Buffer!Without, PointOf, p
<1>10. QED BY <1>6, <1>9

LEMMA OneTextMoves ==
    ASSUME Pointed, UNCHANGED rows, On(rows, cursor'), On(rows, mode'.old)
    PROVE  PointsOn /\ Buffer!Move
<1>1. rows \in Text /\ rows' = rows
  BY DEF Pointed, EditorInd
<1>2. cursor'.x \in Nat /\ cursor'.y \in Nat /\ cursor' = At(cursor'.x, cursor'.y)
  BY DEF On, Pos, At
<1>3. PointOf(rows, cursor') \in 0 .. Len(Flat(rows))
  BY <1>1, <1>2, PointIn
<1>4. Buffer!Move
  BY <1>1, <1>3, BufferSteps, Zenon
<1>5. QED BY <1>1, <1>4, Zenon DEF PointsOn

LEMMA OneTextRest ==
    ASSUME Pointed, Dotted = {},
           Move \/ QuitWarned \/ Quit \/ Save \/ AskName \/ SaveAs \/ AskSearch \/ SearchKey \/ SearchDone \/ UNCHANGED editor
    PROVE  PointsOn /\ Buffer!Move
<1>1. /\ rows \in Text /\ On(rows, cursor) /\ On(rows, mode.old) /\ cursor \in Pos /\ cursor.y <= Len(rows)
      /\ On(rows, EditMode.old)
  <2>1. EditMode.old = At(0, 0)
    BY DEF EditMode
  <2>2. QED BY <2>1, EditModeType DEF Pointed, EditorInd, On
<1>2. UNCHANGED rows
  BY DEF Move, QuitWarned, Quit, Save, AskName, SaveAs, AskSearch, SearchKey, SearchDone, OpenPrompt, doc, editor
<1>3. On(rows, mode'.old)
  <2>1. mode' = mode \/ mode' = EditMode \/ mode'.old = cursor \/ mode'.old = mode.old
    <3>1. CASE AskName \/ AskSearch
      BY <3>1 DEF AskName, AskSearch, OpenPrompt
    <3>2. CASE SearchKey
      <4>1. mode \in Prompt
        BY DEF Pointed, EditorInd
      <4>2. QED BY <3>2, <4>1 DEF SearchKey, Prompt
    <3>3. QED BY <3>1, <3>2 DEF Move, QuitWarned, Quit, Save, SaveAs, SearchDone, editor
  <2>2. QED BY <1>1, <2>1
<1>4. On(rows, cursor')
  <2>1. CASE Move
    <3>1. PICK key \in Keys : cursor' = Moved(rows, cursor, key)
      BY <2>1 DEF Move, Keys, PutCursor
    <3>2. QED BY <1>1, <3>1, MovedOn
  <2>2. CASE SearchKey
    <3>1. PICK q : cursor' = IF find(q, cursor) = {} THEN cursor ELSE CHOOSE c \in find(q, cursor) : TRUE
      BY <2>2 DEF SearchKey, PutCursor
    <3>2. CASE find(q, cursor) # {}
      <4>1. cursor' \in find(q, cursor)
        BY <3>1, <3>2
      <4>2. QED BY <1>1, <4>1, FindIn
    <3>3. QED BY <1>1, <3>1, <3>2
  <2>3. CASE SearchDone
    BY <1>1, <2>3 DEF SearchDone, PutCursor
  <2>4. QED
    BY <1>1, <2>1, <2>2, <2>3 DEF QuitWarned, Quit, Save, AskName, SaveAs, AskSearch, OpenPrompt, editor
<1>5. QED BY <1>2, <1>3, <1>4, OneTextMoves

LEMMA PointedStep ==
    ASSUME Pointed, Dotted = {}, [EditorNext]_editor
    PROVE  Pointed' /\ EditsText
<1> DEFINE Rest == Move \/ QuitWarned \/ Quit \/ Save \/ AskName \/ SaveAs \/ AskSearch \/ SearchKey \/ SearchDone
                   \/ UNCHANGED editor
<1>1. EditorInd'
  BY EditorIndMove, EditorIndEdits, EditorIndQuit, EditorIndSave, EditorIndAsk, EditorIndSearch, EditorIndStutter
     DEF EditorNext, Pointed
<1>2. Rest => PointsOn /\ Buffer!Move
  BY OneTextRest
<1>3. InsertChar \/ InsertNewline \/ Delete \/ Backspace \/ Rest
  BY DEF EditorNext
<1> HIDE DEF Rest
<1>4. PointsOn
  BY <1>2, <1>3, OneTextTyped, OneTextSplit, OneTextDelete, OneTextBackspace, Zenon
<1>5. Pointed'
  BY <1>1, <1>4, Primes, Zenon DEF Pointed, PointsOn
<1>6. Buffer!Next
  BY <1>2, <1>3, OneTextTyped, OneTextSplit, OneTextDelete, OneTextBackspace, Zenon DEF Buffer!Next
<1>7. EditsText
  BY <1>6, OneTextTyped, OneTextSplit, OneTextDelete, OneTextBackspace, Zenon DEF EditsText
<1>8. QED BY <1>5, <1>7

\* Every edit, move and search is, key by key, a step of one text with a point
\* in it, for files and screens of any size.  The hypothesis is the one under
\* which the search is right: no character is two in lower case.
THEOREM EditsOneText == Dotted = {} /\ EditorSpec => EditsAsOneText
<1> SUFFICES ASSUME Dotted = {} PROVE EditorSpec => EditsAsOneText
  OBVIOUS
<1>1. EditorInit => Pointed
  <2> SUFFICES ASSUME EditorInit PROVE Pointed
    OBVIOUS
  <2>1. EditorInd /\ cursor = At(0, 0) /\ mode.old = At(0, 0)
    BY EditorIndInit DEF EditorInit, EditMode
  <2>2. QED BY <2>1, EditModeType DEF Pointed, EditorInd
<1>2. Pointed /\ [EditorNext]_editor => Pointed' /\ [EditsText]_editor
  BY PointedStep
<1>3. QED BY <1>1, <1>2, PTL DEF EditorSpec, EditsAsOneText
=============================================================================

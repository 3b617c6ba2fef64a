-------------------------- MODULE EpollServerProofs --------------------------
(***************************************************************************)
(* The epoll server for any number of descriptors, connections, lines and   *)
(* events in a batch, and replies cut into any number of parts.             *)
(***************************************************************************)
EXTENDS EpollServer, BoundedInduction, FiniteSetTheorems, SequenceTheorems

(* The state between two steps, as a value: connections cs, timers ts,      *)
(* lines as, output gt, next generation ng.  A handler is a few changes of  *)
(* this value, one after the other.                                         *)

StreamIn(cs, gt, g) ==
    LET f == {h \in Fds : cs[h].gen = g}
    IN gt[g] \o (IF f = {} THEN << >> ELSE cs[Min(f)].out)

\* A free entry is blank, queued output waits for EPOLLOUT, and QUIT waits for
\* output.
ConnOk(c) ==
    /\ c.gen = 0 => c = NoConn
    /\ c.out # << >> => c.want
    /\ c.close_after_flush => c.out # << >>

TypesIn(cs, ts, as, gt, ng) ==
    /\ cs \in [Fds -> Conn] /\ ts \in [Fds -> Timer]
    /\ as \in [Gens -> Seq(Kinds)] /\ gt \in [Gens -> Seq(Part)]
    /\ ng \in 1 .. MaxConns + 1

\* A descriptor is a connection or a timer; a generation is on one descriptor,
\* a line of it in one timer; a timer is for a line that was handled.
SlotsIn(cs, ts, as, ng) ==
    \A f \in Fds :
      /\ ConnOk(cs[f])
      /\ cs[f].gen # 0 =>
           ts[f].gen = 0 /\ cs[f].gen < ng /\ Len(as[cs[f].gen]) + Len(cs[f].lb) <= MaxLines
      /\ ts[f].gen # 0 =>
           ts[f].gen < ng /\ ts[f].fd \in Fds /\ ts[f].line \in 1 .. Len(as[ts[f].gen])
      /\ \A h \in Fds : h # f =>
           /\ cs[f].gen # 0 => cs[h].gen # cs[f].gen
           /\ ts[f].gen # 0 /\ ts[h].gen = ts[f].gen => ts[h].line # ts[f].line

\* A generation to come has no past.
UnbornIn(as, gt, ng) == \A g \in Gens : g >= ng => as[g] = << >> /\ gt[g] = << >>

Ended(s) == s = << >> \/ s[Len(s)].part = Parts

\* Nothing in s answers line l.
Unanswered(s, l) == \A j \in DOMAIN s : s[j].line # l

\* The stream of an open connection ends with a whole reply; no line that has
\* a timer is answered in it, and none that was not handled.
StreamsIn(cs, ts, as, gt) ==
    \A g \in Gens :
      /\ WholeReplies(StreamIn(cs, gt, g), g)
      /\ \A j \in DOMAIN StreamIn(cs, gt, g) : StreamIn(cs, gt, g)[j].line <= Len(as[g])
      /\ \A f \in Fds : cs[f].gen = g => Ended(StreamIn(cs, gt, g))
      /\ \A f \in Fds : ts[f].gen = g => Unanswered(StreamIn(cs, gt, g), ts[f].line)

StateOk(cs, ts, as, gt, ng) ==
    /\ TypesIn(cs, ts, as, gt, ng) /\ SlotsIn(cs, ts, as, ng)
    /\ UnbornIn(as, gt, ng) /\ StreamsIn(cs, ts, as, gt)

\* The batch in hand: whoever is in the middle of an event has one, of a
\* descriptor, and reads lines only of a connection that is open.
Owners == {"listener", "conn", "timer", "nobody"} \X (Gens \cup {0}) \X (0 .. MaxLines)
Events == [fd : Fds \cup {Listener}, owner : Owners, ev : SUBSET {"in", "hup", "out"}]

BatchOk ==
    /\ batch \in Seq(Events) /\ at \in {"wait", "event", "lines", "out"}
    /\ at # "wait" => batch # << >>
    /\ at \in {"lines", "out"} => Event.fd \in Fds
    /\ at = "lines" => conns[Event.fd].gen # 0

IndInv == StateOk(conns, timers, asked, got, next_gen) /\ BatchOk

-----------------------------------------------------------------------------
(* Streams *)

LEMMA MinIsLeast ==
    ASSUME NEW S \in SUBSET Nat, S # {}
    PROVE  Min(S) \in S /\ \A x \in S : Min(S) <= x
BY LeastExists DEF Min

LEMMA FdsAreNat == Fds \subseteq Nat /\ 0 \notin Fds /\ MaxFds \in Nat /\ MaxConns \in Nat
                   /\ MaxLines \in Nat /\ Parts \in Nat \ {0} /\ 0 \notin Gens /\ Gens \subseteq Nat
BY EpollAssumption DEF Fds, Gens

\* The stream of a connection that is open is what its peer got and what is
\* queued, of any other what its peer got.
LEMMA StreamOpen ==
    ASSUME NEW cs, NEW gt, NEW g, NEW f \in Fds, cs[f].gen = g,
           \A h \in Fds : h # f => cs[h].gen # g
    PROVE  StreamIn(cs, gt, g) = gt[g] \o cs[f].out
<1>1. {h \in Fds : cs[h].gen = g} = {f}
  OBVIOUS
<1>2. Min({f}) = f
  BY MinIsLeast, FdsAreNat
<1>3. QED BY <1>1, <1>2 DEF StreamIn

LEMMA StreamClosed ==
    ASSUME NEW cs, NEW gt, NEW g, \A h \in Fds : cs[h].gen # g, gt[g] \in Seq(Part)
    PROVE  StreamIn(cs, gt, g) = gt[g]
<1>1. {h \in Fds : cs[h].gen = g} = {}
  OBVIOUS
<1>2. gt[g] \o << >> = gt[g]
  BY ConcatEmptySeq
<1>3. QED BY <1>1, <1>2 DEF StreamIn

\* What does not change about generation g leaves its stream alone.
LEMMA StreamSame ==
    ASSUME NEW cs, NEW ds, NEW gt, NEW ht, NEW g, gt[g] = ht[g],
           \A h \in Fds : (cs[h].gen = g <=> ds[h].gen = g) /\ (cs[h].gen = g => cs[h].out = ds[h].out)
    PROVE  StreamIn(cs, gt, g) = StreamIn(ds, ht, g)
<1> DEFINE F == {h \in Fds : cs[h].gen = g}
<1>1. F = {h \in Fds : ds[h].gen = g}
  OBVIOUS
<1>2. F # {} => Min(F) \in F
  BY MinIsLeast, FdsAreNat
<1>3. F # {} => cs[Min(F)].out = ds[Min(F)].out
  BY <1>2
<1>4. QED BY <1>1, <1>3 DEF StreamIn

LEMMA StreamType ==
    ASSUME NEW cs \in [Fds -> Conn], NEW gt \in [Gens -> Seq(Part)], NEW g \in Gens
    PROVE  StreamIn(cs, gt, g) \in Seq(Part)
<1> DEFINE F == {h \in Fds : cs[h].gen = g}
           o == IF F = {} THEN << >> ELSE cs[Min(F)].out
<1>1. F # {} => Min(F) \in Fds
  BY MinIsLeast, FdsAreNat
<1>2. << >> \in Seq(Part)
  OBVIOUS
<1>3. o \in Seq(Part)
  BY <1>1, <1>2 DEF Conn
<1> HIDE DEF o
<1>4. gt[g] \o o \in Seq(Part)
  BY <1>3, ConcatProperties
<1>5. QED BY <1>4 DEF StreamIn, o

LEMMA ReplyType ==
    ASSUME NEW g \in Gens, NEW l \in 0 .. MaxLines
    PROVE  /\ Reply(g, l) \in Seq(Part) /\ Len(Reply(g, l)) = Parts
           /\ \A p \in 1 .. Parts : Reply(g, l)[p] = [gen |-> g, line |-> l, part |-> p]
<1>1. Reply(g, l) \in [1 .. Parts -> Part]
  BY DEF Reply, Part
<1>2. Reply(g, l) \in Seq(Part)
  BY <1>1, FdsAreNat, IsASeq
<1>3. DOMAIN Reply(g, l) = 1 .. Parts
  BY DEF Reply
<1>4. Len(Reply(g, l)) = Parts
  BY <1>2, <1>3, FdsAreNat, LenProperties
<1>5. QED BY <1>2, <1>4 DEF Reply

\* A whole reply to a line that was not answered yet goes behind whole replies.
LEMMA ReplyBehind ==
    ASSUME NEW g \in Gens, NEW l \in 0 .. MaxLines, NEW s \in Seq(Part),
           WholeReplies(s, g), Ended(s), Unanswered(s, l)
    PROVE  /\ WholeReplies(s \o Reply(g, l), g) /\ Ended(s \o Reply(g, l))
           /\ s \o Reply(g, l) \in Seq(Part)
           /\ \A j \in DOMAIN (s \o Reply(g, l)) :
                (s \o Reply(g, l))[j].line = l \/ \E m \in DOMAIN s : (s \o Reply(g, l))[j] = s[m]
<1> DEFINE R == Reply(g, l)
           t == s \o R
           L == Len(s)
<1>1. /\ R \in Seq(Part) /\ Len(R) = Parts /\ Parts \in Nat \ {0} /\ L \in Nat
      /\ \A p \in 1 .. Parts : R[p] = [gen |-> g, line |-> l, part |-> p]
      /\ DOMAIN s = 1 .. L
  BY ReplyType, FdsAreNat, LenProperties
<1> HIDE DEF R
<1>2. /\ t \in Seq(Part) /\ Len(t) = L + Parts /\ DOMAIN t = 1 .. L + Parts
      /\ \A i \in 1 .. L + Parts : t[i] = IF i <= L THEN s[i] ELSE R[i - L]
  <2>1. /\ t \in Seq(Part) /\ Len(t) = L + Parts
        /\ \A i \in 1 .. L + Parts : t[i] = IF i <= L THEN s[i] ELSE R[i - L]
    BY <1>1, ConcatProperties
  <2> HIDE DEF t
  <2>2. QED BY <2>1, LenProperties
<1> HIDE DEF t
<1>3. \A i \in 1 .. L : i \in 1 .. L + Parts /\ t[i] = s[i] /\ i \in DOMAIN s
  BY <1>1, <1>2
<1>4. ASSUME NEW j \in 1 .. L + Parts, ~(j <= L)
      PROVE  /\ j - L \in 1 .. Parts /\ t[j].gen = g /\ t[j].line = l /\ t[j].part = j - L
  <2>1. j - L \in 1 .. Parts
    BY <1>1, <1>4
  <2>2. t[j] = [gen |-> g, line |-> l, part |-> j - L]
    BY <2>1, <1>1, <1>2, <1>4
  <2>3. QED BY <2>1, <2>2
<1>5. ASSUME NEW j \in 1 .. L + Parts
      PROVE  /\ t[j].gen = g
             /\ IF t[j].part = 1 THEN j = 1 \/ t[j - 1].part = Parts
                ELSE j > 1 /\ t[j - 1].part = t[j].part - 1 /\ t[j - 1].line = t[j].line
             /\ \A m \in 1 .. j - 1 : t[m] # t[j]
  <2>1. CASE j <= L
    <3>1. j \in 1 .. L /\ t[j] = s[j] /\ \A m \in 1 .. j - 1 : m \in 1 .. L
      BY <2>1, <1>1, <1>3
    <3>2. j > 1 => j - 1 \in 1 .. L /\ t[j - 1] = s[j - 1]
      BY <3>1, <1>1, <1>3
    <3>3. /\ s[j].gen = g
          /\ IF s[j].part = 1 THEN j = 1 \/ s[j - 1].part = Parts
             ELSE j > 1 /\ s[j - 1].part = s[j].part - 1 /\ s[j - 1].line = s[j].line
          /\ \A m \in 1 .. j - 1 : s[m] # s[j]
      BY <3>1, <1>1 DEF WholeReplies
    <3>4. j = 1 \/ j > 1
      BY <3>1
    <3>5. \A m \in 1 .. j - 1 : t[m] = s[m]
      BY <3>1, <1>3
    <3>6. QED BY <3>1, <3>2, <3>3, <3>4, <3>5
  <2>2. CASE ~(j <= L)
    <3>1. j - L \in 1 .. Parts /\ t[j].gen = g /\ t[j].line = l /\ t[j].part = j - L
      BY <2>2, <1>4
    <3>2. \A m \in 1 .. j - 1 : t[m] # t[j]
      <4> SUFFICES ASSUME NEW m \in 1 .. j - 1
                   PROVE  t[m] # t[j]
        OBVIOUS
      <4>1. m \in 1 .. L + Parts
        BY <1>1
      <4>2. CASE m <= L
        <5>1. m \in DOMAIN s /\ t[m] = s[m]
          BY <4>2, <1>1, <1>3
        <5>2. s[m].line # l
          BY <5>1 DEF Unanswered
        <5>3. QED BY <5>1, <5>2, <3>1
      <4>3. CASE ~(m <= L)
        <5>1. t[m].part = m - L
          BY <4>1, <4>3, <1>4
        <5>2. m - L # j - L
          BY <1>1
        <5>3. QED BY <5>1, <5>2, <3>1
      <4>4. QED BY <4>2, <4>3
    <3>3. CASE j - L = 1
      <4>1. j = L + 1
        BY <3>3, <1>1
      <4>2. CASE L = 0
        BY <3>1, <3>2, <3>3, <4>1, <4>2
      <4>3. CASE L # 0
        <5>1. L \in 1 .. L /\ j - 1 = L
          BY <4>1, <4>3, <1>1
        <5>2. s # << >>
          BY <4>3
        <5>3. s[L].part = Parts
          BY <5>2 DEF Ended
        <5>4. t[j - 1].part = Parts
          BY <5>1, <5>3, <1>3
        <5>5. QED BY <3>1, <3>2, <3>3, <5>4
      <4>4. QED BY <4>2, <4>3
    <3>4. CASE j - L # 1
      <4>1. j - 1 \in 1 .. L + Parts /\ ~(j - 1 <= L) /\ j > 1 /\ (j - 1) - L = (j - L) - 1
        BY <3>1, <3>4, <1>1
      <4>2. t[j - 1].part = (j - 1) - L /\ t[j - 1].line = l
        BY <4>1, <1>4
      <4>3. QED BY <3>1, <3>2, <3>4, <4>1, <4>2
    <3>5. QED BY <3>3, <3>4
  <2>3. QED BY <2>1, <2>2
<1>6. WholeReplies(t, g)
  BY <1>2, <1>5 DEF WholeReplies
<1>7. Ended(t)
  <2>1. L + Parts \in 1 .. L + Parts /\ ~(L + Parts <= L) /\ (L + Parts) - L = Parts
    BY <1>1
  <2>2. QED BY <2>1, <1>2, <1>4 DEF Ended
<1>8. \A j \in DOMAIN t : t[j].line = l \/ \E m \in DOMAIN s : t[j] = s[m]
  BY <1>2, <1>3, <1>4
<1>9. QED BY <1>2, <1>6, <1>7, <1>8 DEF t, R

\* What a peer has of a stream of whole replies when its connection is closed.
LEMMA CutShort ==
    ASSUME NEW g, NEW s \in Seq(Part), WholeReplies(s, g), NEW n \in 0 .. Len(s)
    PROVE  /\ SubSeq(s, 1, n) \in Seq(Part) /\ WholeReplies(SubSeq(s, 1, n), g)
           /\ \A j \in DOMAIN SubSeq(s, 1, n) : j \in DOMAIN s /\ SubSeq(s, 1, n)[j] = s[j]
<1> DEFINE t == SubSeq(s, 1, n)
<1>1. Len(s) \in Nat /\ DOMAIN s = 1 .. Len(s) /\ \A i \in 1 .. Len(s) : s[i] \in Part
  BY LenProperties
<1>2. t \in Seq(Part) /\ Len(t) = n /\ DOMAIN t = 1 .. n /\ \A j \in 1 .. n : t[j] = s[j]
  <2>1. \A i \in 1 .. n : s[i] \in Part
    BY <1>1
  <2>2. /\ t \in Seq(Part) /\ Len(t) = IF 1 <= n THEN n - 1 + 1 ELSE 0
        /\ \A j \in 1 .. n - 1 + 1 : t[j] = s[1 + j - 1]
    BY <2>1, <1>1, SubSeqProperties
  <2> HIDE DEF t
  <2>3. Len(t) = n /\ DOMAIN t = 1 .. n
    BY <2>2, <1>1, LenProperties
  <2>4. ASSUME NEW j \in 1 .. n
        PROVE  t[j] = s[j]
    <3>1. j \in 1 .. n - 1 + 1 /\ 1 + j - 1 = j
      BY <1>1
    <3>2. QED BY <3>1, <2>2
  <2>5. QED BY <2>2, <2>3, <2>4
<1> HIDE DEF t
<1>3. \A j \in DOMAIN t : j \in DOMAIN s /\ t[j] = s[j]
  BY <1>1, <1>2
<1>4. ASSUME NEW j \in 1 .. n
      PROVE  /\ t[j].gen = g
             /\ IF t[j].part = 1 THEN j = 1 \/ t[j - 1].part = Parts
                ELSE j > 1 /\ t[j - 1].part = t[j].part - 1 /\ t[j - 1].line = t[j].line
             /\ \A m \in 1 .. j - 1 : t[m] # t[j]
  <2>1. j \in DOMAIN s /\ t[j] = s[j] /\ \A m \in 1 .. j - 1 : m \in 1 .. n /\ t[m] = s[m]
    BY <1>1, <1>2
  <2>2. j > 1 => t[j - 1] = s[j - 1]
    BY <1>2
  <2>3. j = 1 \/ j > 1
    OBVIOUS
  <2>4. /\ s[j].gen = g
        /\ IF s[j].part = 1 THEN j = 1 \/ s[j - 1].part = Parts
           ELSE j > 1 /\ s[j - 1].part = s[j].part - 1 /\ s[j - 1].line = s[j].line
        /\ \A m \in 1 .. j - 1 : s[m] # s[j]
    BY <2>1 DEF WholeReplies
  <2>5. QED BY <2>1, <2>2, <2>3, <2>4
<1>5. QED BY <1>2, <1>3, <1>4 DEF t, WholeReplies

-----------------------------------------------------------------------------
(* Sending *)

LEMMA JoinedAsOne ==
    ASSUME NEW a \in Seq(Part), NEW b \in Seq(Part), NEW c \in Seq(Part)
    PROVE  (a \o b) \o c = a \o (b \o c)
BY ConcatAssociative

LEMMA SplitAt ==
    ASSUME NEW s \in Seq(Part), NEW n \in 0 .. Len(s)
    PROVE  /\ Prefix(s, n) \in Seq(Part) /\ Suffix(s, n) \in Seq(Part)
           /\ Len(Prefix(s, n)) = n /\ Len(Suffix(s, n)) = Len(s) - n
           /\ Prefix(s, n) \o Suffix(s, n) = s
<1>1. Len(s) \in Nat /\ \A i \in 1 .. Len(s) : s[i] \in Part
  BY LenProperties
<1>2. Prefix(s, n) \in Seq(Part) /\ Len(Prefix(s, n)) = n
  <2>1. \A i \in 1 .. n : s[i] \in Part
    BY <1>1
  <2>2. SubSeq(s, 1, n) \in Seq(Part) /\ Len(SubSeq(s, 1, n)) = IF 1 <= n THEN n - 1 + 1 ELSE 0
    BY <2>1, <1>1, SubSeqProperties
  <2>3. QED BY <2>2 DEF Prefix
<1>3. Suffix(s, n) \in Seq(Part) /\ Len(Suffix(s, n)) = Len(s) - n
  <2>1. \A i \in n + 1 .. Len(s) : s[i] \in Part
    BY <1>1
  <2>2. /\ SubSeq(s, n + 1, Len(s)) \in Seq(Part)
        /\ Len(SubSeq(s, n + 1, Len(s))) = IF n + 1 <= Len(s) THEN Len(s) - (n + 1) + 1 ELSE 0
    BY <2>1, <1>1, SubSeqProperties
  <2>3. QED BY <2>2, <1>1 DEF Suffix
<1>4. Prefix(s, n) \o Suffix(s, n) = s
  <2>1. SubSeq(s, 1, n) \o SubSeq(s, n + 1, Len(s)) = SubSeq(s, 1, Len(s))
    <3>1. PICK m : m = 1
      OBVIOUS
    <3>2. m \in 1 .. Len(s) + 1 /\ n \in m - 1 .. Len(s) /\ Len(s) \in n .. Len(s)
      BY <3>1, <1>1
    <3>3. SubSeq(s, m, n) \o SubSeq(s, n + 1, Len(s)) = SubSeq(s, m, Len(s))
      BY <3>2, ConcatAdjacentSubSeq
    <3>4. QED BY <3>1, <3>3
  <2>2. SubSeq(s, 1, Len(s)) = s
    BY SubSeqFull
  <2>3. QED BY <2>1, <2>2 DEF Prefix, Suffix
<1>5. QED BY <1>2, <1>3, <1>4

\* A prefix of what follows a is a prefix of the whole.
LEMMA PrefixJoin ==
    ASSUME NEW a \in Seq(Part), NEW b \in Seq(Part), NEW k \in 0 .. Len(b)
    PROVE  /\ Len(a) + k \in 0 .. Len(a \o b)
           /\ a \o SubSeq(b, 1, k) = SubSeq(a \o b, 1, Len(a) + k)
<1> DEFINE c == a \o b
           q == SubSeq(b, 1, k)
           l == a \o q
           r == SubSeq(c, 1, Len(a) + k)
<1>1. Len(a) \in Nat /\ Len(b) \in Nat
  BY LenProperties
<1>2. /\ c \in Seq(Part) /\ Len(c) = Len(a) + Len(b)
      /\ \A i \in 1 .. Len(a) + Len(b) : c[i] = IF i <= Len(a) THEN a[i] ELSE b[i - Len(a)]
  BY ConcatProperties
<1> HIDE DEF c
<1>3. q \in Seq(Part) /\ Len(q) = k /\ \A i \in 1 .. k : q[i] = b[i]
  <2>1. \A i \in 1 .. k : b[i] \in Part
    BY <1>1, LenProperties
  <2>2. /\ q \in Seq(Part) /\ Len(q) = IF 1 <= k THEN k - 1 + 1 ELSE 0
        /\ \A i \in 1 .. k - 1 + 1 : q[i] = b[1 + i - 1]
    BY <2>1, <1>1, SubSeqProperties
  <2> HIDE DEF q
  <2>3. ASSUME NEW i \in 1 .. k
        PROVE  q[i] = b[i]
    <3>1. i \in 1 .. k - 1 + 1 /\ 1 + i - 1 = i
      BY <1>1
    <3>2. QED BY <3>1, <2>2
  <2>4. QED BY <2>2, <2>3, <1>1
<1> HIDE DEF q
<1>4. /\ l \in Seq(Part) /\ Len(l) = Len(a) + k
      /\ \A i \in 1 .. Len(a) + k : l[i] = IF i <= Len(a) THEN a[i] ELSE q[i - Len(a)]
  BY <1>3, ConcatProperties
<1> HIDE DEF l
<1>5. Len(a) + k \in 0 .. Len(c)
  BY <1>1, <1>2
<1>6. r \in Seq(Part) /\ Len(r) = Len(a) + k /\ \A i \in 1 .. Len(a) + k : r[i] = c[i]
  <2> DEFINE m == Len(a) + k
  <2>0. m \in Nat
    BY <1>1
  <2>1. \A i \in 1 .. m : c[i] \in Part
    BY <1>1, <1>2, <1>5, LenProperties
  <2> HIDE DEF m
  <2>2. /\ SubSeq(c, 1, m) \in Seq(Part) /\ Len(SubSeq(c, 1, m)) = IF 1 <= m THEN m - 1 + 1 ELSE 0
        /\ \A i \in 1 .. m - 1 + 1 : SubSeq(c, 1, m)[i] = c[1 + i - 1]
    BY <2>0, <2>1, <1>2, SubSeqProperties
  <2>3. ASSUME NEW i \in 1 .. m
        PROVE  SubSeq(c, 1, m)[i] = c[i]
    <3>1. i \in 1 .. m - 1 + 1 /\ 1 + i - 1 = i
      BY <2>0
    <3>2. QED BY <3>1, <2>2
  <2>4. QED BY <2>0, <2>2, <2>3 DEF m
<1> HIDE DEF r
<1>7. ASSUME NEW i \in 1 .. Len(a) + k
      PROVE  l[i] = r[i]
  <2>1. i \in 1 .. Len(a) + Len(b)
    BY <1>1
  <2>2. CASE i <= Len(a)
    BY <2>1, <2>2, <1>2, <1>4, <1>6
  <2>3. CASE ~(i <= Len(a))
    <3>1. i - Len(a) \in 1 .. k
      BY <2>3, <1>1
    <3>2. QED BY <3>1, <2>1, <2>3, <1>2, <1>3, <1>4, <1>6
  <2>4. QED BY <2>2, <2>3
<1>8. l = r
  BY <1>4, <1>6, <1>7, SeqEqual
<1>9. QED BY <1>5, <1>8 DEF c, q, l, r

\* What a call that queues data behind c.out may leave: all of it is with the
\* peer or queued, or the connection is closed and the peer has some of it.
Outcome(c, data, d, took) ==
    /\ d \in Conn /\ ConnOk(d) /\ took \in Seq(Part)
    /\ \/ d.gen = c.gen /\ d.lb = c.lb /\ took \o d.out = c.out \o data
       \/ d = NoConn /\ \E n \in 0 .. Len(c.out \o data) : took = SubSeq(c.out \o data, 1, n)

LEMMA BlankConn ==
    NoConn \in Conn /\ ConnOk(NoConn) /\ NoConn.gen = 0 /\ NoConn.out = << >> /\ NoConn.lb = << >>
    /\ ~NoConn.close_after_flush /\ ~NoConn.want
<1>1. << >> \in Seq(Part) /\ << >> \in Seq(Kinds)
  OBVIOUS
<1>2. QED BY <1>1 DEF NoConn, Conn, ConnOk

LEMMA FlushOutcome ==
    ASSUME NEW c \in Conn, c.gen # 0, NEW least \in Nat, NEW r \in conn_try_flush(c, least)
    PROVE  Outcome(c, << >>, r.c, r.took)
<1>1. c.out \in Seq(Part) /\ Len(c.out) \in Nat /\ c.out \o << >> = c.out
  <2>1. c.out \in Seq(Part)
    BY DEF Conn
  <2>2. QED BY <2>1, LenProperties, ConcatEmptySeq
<1>2. CASE \E n \in 0 .. Len(c.out) - 1 : r = [c |-> NoConn, took |-> Prefix(c.out, n)]
  <2>1. PICK n \in 0 .. Len(c.out) - 1 : r = [c |-> NoConn, took |-> Prefix(c.out, n)]
    BY <1>2
  <2>2. n \in 0 .. Len(c.out) /\ r.c = NoConn /\ r.took = SubSeq(c.out, 1, n)
    BY <2>1, <1>1 DEF Prefix
  <2>3. r.took \in Seq(Part)
    BY <2>2, <1>1, SplitAt DEF Prefix
  <2>4. QED BY <2>2, <2>3, <1>1, BlankConn DEF Outcome
<1>3. CASE \E n \in least .. Len(c.out) - 1 :
             r = [c |-> [c EXCEPT !.out = Suffix(@, n), !.want = TRUE], took |-> Prefix(c.out, n)]
  <2>1. PICK n \in least .. Len(c.out) - 1 :
             r = [c |-> [c EXCEPT !.out = Suffix(@, n), !.want = TRUE], took |-> Prefix(c.out, n)]
    BY <1>3
  <2>2. n \in 0 .. Len(c.out) /\ Len(c.out) - n # 0
    BY <1>1
  <2>3. /\ Prefix(c.out, n) \in Seq(Part) /\ Suffix(c.out, n) \in Seq(Part)
        /\ Len(Suffix(c.out, n)) = Len(c.out) - n /\ Prefix(c.out, n) \o Suffix(c.out, n) = c.out
    BY <2>2, <1>1, SplitAt
  <2>4. Suffix(c.out, n) # << >>
    BY <2>2, <2>3, EmptySeq
  <2> DEFINE d == [c EXCEPT !.out = Suffix(@, n), !.want = TRUE]
  <2>5. /\ d \in Conn /\ d.gen = c.gen /\ d.lb = c.lb /\ d.out = Suffix(c.out, n) /\ d.want
    BY <2>3 DEF Conn
  <2>6. r.c = d /\ r.took = Prefix(c.out, n)
    BY <2>1
  <2> HIDE DEF d
  <2>7. ConnOk(d)
    BY <2>4, <2>5 DEF ConnOk
  <2>8. QED BY <2>3, <2>5, <2>6, <2>7, <1>1 DEF Outcome
<1>4. CASE r = [c |-> IF c.close_after_flush THEN NoConn ELSE [c EXCEPT !.out = << >>, !.want = FALSE],
                took |-> c.out]
  <2>1. r.took = c.out /\ r.took \in Seq(Part)
    BY <1>1, <1>4
  <2>2. CASE c.close_after_flush
    <3>1. r.c = NoConn /\ c.out = SubSeq(c.out, 1, Len(c.out)) /\ Len(c.out) \in 0 .. Len(c.out)
      BY <2>2, <1>1, <1>4, SubSeqFull
    <3>2. QED BY <2>1, <3>1, <1>1, BlankConn DEF Outcome
  <2>3. CASE ~c.close_after_flush
    <3> DEFINE d == [c EXCEPT !.out = << >>, !.want = FALSE]
    <3>1. << >> \in Seq(Part)
      OBVIOUS
    <3>2. d \in Conn /\ d.gen = c.gen /\ d.lb = c.lb /\ d.out = << >> /\ ~d.close_after_flush
      BY <2>3, <3>1 DEF Conn
    <3>3. r.c = d
      BY <2>3, <1>4
    <3> HIDE DEF d
    <3>4. ConnOk(d)
      BY <3>2 DEF ConnOk
    <3>5. QED BY <2>1, <3>2, <3>3, <3>4, <1>1 DEF Outcome
  <2>4. QED BY <2>2, <2>3
<1>5. QED BY <1>2, <1>3, <1>4 DEF conn_try_flush

LEMMA SendOutcome ==
    ASSUME NEW c \in Conn, ConnOk(c), c.gen # 0, NEW data \in Seq(Part), NEW r \in conn_send(c, data)
    PROVE  Outcome(c, data, r.c, r.took)
<1>1. c.out \in Seq(Part) /\ << >> \in Seq(Part) /\ Len(data) \in Nat
  BY LenProperties DEF Conn
<1>2. CASE c.out # << >>
  <2> DEFINE d == [c EXCEPT !.out = @ \o data]
  <2>1. r.c = d /\ r.took = << >>
    BY <1>2 DEF conn_send
  <2>2. c.out \o data \in Seq(Part) /\ << >> \o (c.out \o data) = c.out \o data
    BY <1>1, ConcatProperties, ConcatEmptySeq
  <2>3. c.out \o data # << >>
    BY <1>1, <1>2, ConcatEqualIffEmpty
  <2>4. d \in Conn /\ d.gen = c.gen /\ d.lb = c.lb /\ d.out = c.out \o data /\ d.want = c.want
    BY <2>2 DEF Conn
  <2> HIDE DEF d
  <2>5. ConnOk(d)
    BY <1>2, <2>3, <2>4 DEF ConnOk
  <2>6. QED BY <1>1, <2>1, <2>2, <2>4, <2>5 DEF Outcome
<1>3. CASE c.out = << >>
  <2>0. /\ c.out \o data = data /\ data \o c.out = data /\ data = SubSeq(data, 1, Len(data))
        /\ << >> = SubSeq(data, 1, 0) /\ 0 \in 0 .. Len(data) /\ ~c.close_after_flush
    BY <1>1, <1>3, ConcatEmptySeq, SubSeqFull, SubSeqEmpty DEF ConnOk
  <2>1. CASE r = [c |-> c, took |-> data]
    BY <2>0, <2>1 DEF Outcome
  <2>2. CASE r = [c |-> NoConn, took |-> << >>]
    BY <2>0, <2>2, <1>1, BlankConn DEF Outcome
  <2>3. CASE \E n \in 0 .. Len(data) - 1 : \E q \in conn_try_flush([c EXCEPT !.out = Suffix(data, n)], 0) :
               r = [q EXCEPT !.took = Prefix(data, n) \o @]
    <3>1. PICK n \in 0 .. Len(data) - 1 : \E q \in conn_try_flush([c EXCEPT !.out = Suffix(data, n)], 0) :
               r = [q EXCEPT !.took = Prefix(data, n) \o @]
      BY <2>3
    <3> DEFINE b == [c EXCEPT !.out = Suffix(data, n)]
               P == Prefix(data, n)
               S == Suffix(data, n)
    <3>2. PICK q \in conn_try_flush(b, 0) : r = [q EXCEPT !.took = P \o @]
      BY <3>1
    <3>3. P \in Seq(Part) /\ S \in Seq(Part) /\ P \o S = data /\ Len(P) = n
      <4>1. n \in 0 .. Len(data)
        BY <1>1
      <4>2. QED BY <4>1, SplitAt
    <3>4. b \in Conn /\ b.gen = c.gen /\ b.lb = c.lb /\ b.out = S
      BY <3>3 DEF Conn
    <3>5. r.c = q.c /\ r.took = P \o q.took
      <4>1. \E x, y : q = [c |-> x, took |-> y]
        BY DEF conn_try_flush
      <4>2. PICK x, y : q = [c |-> x, took |-> y]
        BY <4>1
      <4>3. q.c = x /\ q.took = y /\ r = [c |-> x, took |-> P \o y]
        BY <3>2, <4>2
      <4>4. QED BY <4>3
    <3> HIDE DEF b, P, S
    <3>6. Outcome(b, << >>, q.c, q.took)
      BY <3>2, <3>4, FlushOutcome
    <3>7. S \o << >> = S
      BY <3>3, ConcatEmptySeq
    <3>8. /\ q.c \in Conn /\ ConnOk(q.c) /\ q.took \in Seq(Part) /\ q.c.out \in Seq(Part)
          /\ \/ q.c.gen = c.gen /\ q.c.lb = c.lb /\ q.took \o q.c.out = S
             \/ q.c = NoConn /\ \E m \in 0 .. Len(S) : q.took = SubSeq(S, 1, m)
      BY <3>4, <3>6, <3>7 DEF Outcome, Conn
    <3>9. P \o q.took \in Seq(Part)
      BY <3>3, <3>8, ConcatProperties
    <3>10. CASE q.c.gen = c.gen /\ q.c.lb = c.lb /\ q.took \o q.c.out = S
      <4>1. (P \o q.took) \o q.c.out = data
        <5>1. (P \o q.took) \o q.c.out = P \o (q.took \o q.c.out)
          <6>1. PICK p \in Seq(Part), t \in Seq(Part), o \in Seq(Part) : p = P /\ t = q.took /\ o = q.c.out
            BY <3>3, <3>8
          <6>2. (p \o t) \o o = p \o (t \o o)
            BY JoinedAsOne
          <6>3. QED BY <6>1, <6>2
        <5>2. QED BY <5>1, <3>3, <3>10
      <4>2. QED BY <4>1, <3>5, <3>8, <3>9, <3>10, <2>0 DEF Outcome
    <3>11. CASE q.c = NoConn /\ \E m \in 0 .. Len(S) : q.took = SubSeq(S, 1, m)
      <4>1. PICK m \in 0 .. Len(S) : q.took = SubSeq(S, 1, m)
        BY <3>11
      <4>2. n + m \in 0 .. Len(data) /\ P \o q.took = SubSeq(data, 1, n + m)
        BY <4>1, <3>3, PrefixJoin
      <4>3. QED BY <4>2, <3>5, <3>8, <3>9, <3>11, <2>0 DEF Outcome
    <3>12. QED BY <3>8, <3>10, <3>11
  <2>4. QED BY <1>3, <2>1, <2>2, <2>3 DEF conn_send
<1>4. QED BY <1>2, <1>3

LEMMA SentPair ==
    ASSUME NEW c, NEW data, NEW r \in conn_send(c, data)
    PROVE  \E x, y : r = [c |-> x, took |-> y]
<1>1. CASE c.out # << >>
  BY <1>1 DEF conn_send
<1>2. CASE r \in {[c |-> c, took |-> data], [c |-> NoConn, took |-> << >>]}
  BY <1>2
<1>3. CASE \E n \in 0 .. Len(data) - 1 : \E q \in conn_try_flush([c EXCEPT !.out = Suffix(data, n)], 0) :
             r = [q EXCEPT !.took = Prefix(data, n) \o @]
  <2>1. PICK n \in 0 .. Len(data) - 1 : \E q \in conn_try_flush([c EXCEPT !.out = Suffix(data, n)], 0) :
             r = [q EXCEPT !.took = Prefix(data, n) \o @]
    BY <1>3
  <2>2. PICK q \in conn_try_flush([c EXCEPT !.out = Suffix(data, n)], 0) :
             r = [q EXCEPT !.took = Prefix(data, n) \o @]
    BY <2>1
  <2>3. \E x, y : q = [c |-> x, took |-> y]
    BY DEF conn_try_flush
  <2>4. PICK x, y : q = [c |-> x, took |-> y]
    BY <2>3
  <2>5. r = [c |-> x, took |-> Prefix(data, n) \o y]
    BY <2>2, <2>4
  <2>6. QED BY <2>5
<1>4. QED BY <1>1, <1>2, <1>3 DEF conn_send

\* QUIT closes once nothing is queued, or leaves that to the last byte.
LEMMA QuitOutcome ==
    ASSUME NEW c \in Conn, NEW data \in Seq(Part), NEW d, NEW took, Outcome(c, data, d, took)
    PROVE  Outcome(c, data, IF d.out = << >> THEN NoConn ELSE [d EXCEPT !.close_after_flush = TRUE], took)
<1> DEFINE all == c.out \o data
<1>1. all \in Seq(Part) /\ d \in Conn /\ ConnOk(d) /\ took \in Seq(Part) /\ Len(all) \in Nat
  <2>1. c.out \in Seq(Part)
    BY DEF Conn
  <2>2. all \in Seq(Part)
    BY <2>1, ConcatProperties
  <2>3. QED BY <2>2, LenProperties DEF Outcome
<1>2. \/ d.gen = c.gen /\ d.lb = c.lb /\ took \o d.out = all
      \/ d = NoConn /\ \E n \in 0 .. Len(all) : took = SubSeq(all, 1, n)
  BY DEF Outcome
<1> HIDE DEF all
<1>3. CASE d.out = << >>
  <2>1. \E n \in 0 .. Len(all) : took = SubSeq(all, 1, n)
    <3>1. CASE took \o d.out = all
      <4>1. took = all
        BY <3>1, <1>1, <1>3, ConcatEmptySeq
      <4>2. took = SubSeq(all, 1, Len(all)) /\ Len(all) \in 0 .. Len(all)
        BY <4>1, <1>1, SubSeqFull
      <4>3. QED BY <4>2
    <3>2. QED BY <3>1, <1>2
  <2>2. QED BY <2>1, <1>1, <1>3, BlankConn DEF Outcome, all
<1>4. CASE d.out # << >>
  <2> DEFINE e == [d EXCEPT !.close_after_flush = TRUE]
  <2>1. e \in Conn /\ e.gen = d.gen /\ e.lb = d.lb /\ e.out = d.out /\ e.want = d.want
    BY <1>1 DEF Conn
  <2>2. d # NoConn
    BY <1>4, BlankConn
  <2>3. d.gen # 0
    BY <2>2, <1>1 DEF ConnOk
  <2> HIDE DEF e
  <2>4. ConnOk(e)
    BY <2>1, <2>3, <1>1, <1>4 DEF ConnOk
  <2>5. Outcome(c, data, e, took)
    BY <2>1, <2>2, <2>4, <1>1, <1>2 DEF Outcome, all
  <2>6. QED BY <2>5, <1>4 DEF e
<1>5. QED BY <1>3, <1>4

-----------------------------------------------------------------------------
(* Changes of the state *)

\* No reply to line l of g is out, and no timer will send one.
Fresh(cs, ts, as, gt, g, l) ==
    /\ l \in 0 .. Len(as[g]) /\ Unanswered(StreamIn(cs, gt, g), l)
    /\ \A h \in Fds : ts[h].gen = g => ts[h].line # l

\* What may come to be the stream of g.
Allowed(s, ts, as, g) ==
    /\ s \in Seq(Part) /\ WholeReplies(s, g) /\ Ended(s)
    /\ \A j \in DOMAIN s : s[j].line <= Len(as[g])
    /\ \A h \in Fds : ts[h].gen = g => Unanswered(s, ts[h].line)

\* The connection at f moves on: its stream is a stream s that is allowed, or
\* it is closed on the way.
LEMMA Moved ==
    ASSUME NEW cs, NEW ts, NEW as, NEW gt, NEW ng, StateOk(cs, ts, as, gt, ng),
           NEW f \in Fds, NEW g \in Gens, cs[f].gen = g,
           NEW s, Allowed(s, ts, as, g),
           NEW d \in Conn, ConnOk(d), NEW u \in Seq(Part),
           \/ d.gen = g /\ d.lb = cs[f].lb /\ u \o d.out = s
           \/ d.gen = 0 /\ \E n \in 0 .. Len(s) : u = SubSeq(s, 1, n)
    PROVE  StateOk([cs EXCEPT ![f] = d], ts, as, [gt EXCEPT ![g] = u], ng)
<1> DEFINE ds == [cs EXCEPT ![f] = d]
           ht == [gt EXCEPT ![g] = u]
<1>1. /\ cs \in [Fds -> Conn] /\ ts \in [Fds -> Timer] /\ as \in [Gens -> Seq(Kinds)]
      /\ gt \in [Gens -> Seq(Part)] /\ ng \in 1 .. MaxConns + 1
      /\ SlotsIn(cs, ts, as, ng) /\ UnbornIn(as, gt, ng) /\ StreamsIn(cs, ts, as, gt)
  BY DEF StateOk, TypesIn
<1>2. g # 0 /\ g < ng
  BY <1>1, FdsAreNat DEF SlotsIn
<1>3. ds \in [Fds -> Conn] /\ ht \in [Gens -> Seq(Part)] /\ ds[f] = d /\ ht[g] = u
  BY <1>1
<1>4. (\A h \in Fds : h # f => ds[h] = cs[h]) /\ (\A k \in Gens : k # g => ht[k] = gt[k])
  BY <1>1
<1>5. \A h \in Fds : h # f => cs[h].gen # g
  BY <1>1, <1>2 DEF SlotsIn
<1> HIDE DEF ds, ht
<1>6. d.gen \in {g, 0} /\ (d.gen = g => d.lb = cs[f].lb)
  BY <1>2
<1>7. SlotsIn(ds, ts, as, ng)
  <2> SUFFICES ASSUME NEW h \in Fds
               PROVE  /\ ConnOk(ds[h])
                      /\ ds[h].gen # 0 =>
                           ts[h].gen = 0 /\ ds[h].gen < ng /\ Len(as[ds[h].gen]) + Len(ds[h].lb) <= MaxLines
                      /\ ts[h].gen # 0 =>
                           ts[h].gen < ng /\ ts[h].fd \in Fds /\ ts[h].line \in 1 .. Len(as[ts[h].gen])
                      /\ \A i \in Fds : i # h =>
                           /\ ds[h].gen # 0 => ds[i].gen # ds[h].gen
                           /\ ts[h].gen # 0 /\ ts[i].gen = ts[h].gen => ts[i].line # ts[h].line
    BY DEF SlotsIn
  <2>1. CASE h = f
    BY <2>1, <1>1, <1>2, <1>3, <1>4, <1>5, <1>6 DEF SlotsIn
  <2>2. CASE h # f
    <3>1. ds[h] = cs[h]
      BY <2>2, <1>4
    <3>2. \A i \in Fds : i # h /\ cs[h].gen # 0 => ds[i].gen # cs[h].gen
      <4> SUFFICES ASSUME NEW i \in Fds, i # h, cs[h].gen # 0
                   PROVE  ds[i].gen # cs[h].gen
        OBVIOUS
      <4>1. cs[i].gen # cs[h].gen
        BY <1>1 DEF SlotsIn
      <4>2. CASE i = f
        BY <4>2, <2>2, <1>3, <1>5, <1>6
      <4>3. CASE i # f
        BY <4>1, <4>3, <1>4
      <4>4. QED BY <4>2, <4>3
    <3>3. QED BY <3>1, <3>2, <1>1 DEF SlotsIn
  <2>3. QED BY <2>1, <2>2
<1>8. UnbornIn(as, ht, ng)
  <2> SUFFICES ASSUME NEW k \in Gens, k >= ng
               PROVE  as[k] = << >> /\ ht[k] = << >>
    BY DEF UnbornIn
  <2>1. k # g
    BY <1>1, <1>2, FdsAreNat
  <2>2. QED BY <2>1, <1>1, <1>4 DEF UnbornIn
<1>9. StreamsIn(ds, ts, as, ht)
  <2> SUFFICES ASSUME NEW k \in Gens
               PROVE  /\ WholeReplies(StreamIn(ds, ht, k), k)
                      /\ \A j \in DOMAIN StreamIn(ds, ht, k) : StreamIn(ds, ht, k)[j].line <= Len(as[k])
                      /\ \A h \in Fds : ds[h].gen = k => Ended(StreamIn(ds, ht, k))
                      /\ \A h \in Fds : ts[h].gen = k => Unanswered(StreamIn(ds, ht, k), ts[h].line)
    BY DEF StreamsIn
  <2>1. CASE k # g
    <3>1. \A h \in Fds : (ds[h].gen = k <=> cs[h].gen = k) /\ (ds[h].gen = k => ds[h].out = cs[h].out)
      BY <2>1, <1>3, <1>4, <1>6, FdsAreNat
    <3>2. StreamIn(ds, ht, k) = StreamIn(cs, gt, k)
      BY <2>1, <3>1, <1>4, StreamSame
    <3>3. QED BY <3>1, <3>2, <1>1 DEF StreamsIn
  <2>2. CASE k = g /\ d.gen = g
    <3>1. StreamIn(ds, ht, g) = s
      <4>1. \A h \in Fds : h # f => ds[h].gen # g
        BY <1>4, <1>5
      <4>2. StreamIn(ds, ht, g) = ht[g] \o ds[f].out
        BY <4>1, <1>3, <2>2, StreamOpen
      <4>3. QED BY <4>2, <1>2, <1>3, <2>2
    <3>2. QED BY <3>1, <2>2 DEF Allowed
  <2>3. CASE k = g /\ d.gen = 0
    <3>1. \A h \in Fds : ds[h].gen # g
      BY <1>2, <1>3, <1>4, <1>5, <2>3
    <3>2. StreamIn(ds, ht, g) = u
      BY <3>1, <1>3, StreamClosed
    <3>3. PICK n \in 0 .. Len(s) : u = SubSeq(s, 1, n)
      BY <1>2, <2>3
    <3>4. s \in Seq(Part) /\ WholeReplies(s, g)
      BY DEF Allowed
    <3>5. WholeReplies(u, g) /\ \A j \in DOMAIN u : j \in DOMAIN s /\ u[j] = s[j]
      BY <3>3, <3>4, CutShort
    <3>6. \A j \in DOMAIN u : u[j].line <= Len(as[g])
      BY <3>5 DEF Allowed
    <3>7. \A h \in Fds : ts[h].gen = g => Unanswered(u, ts[h].line)
      BY <3>5 DEF Allowed, Unanswered
    <3>8. QED BY <3>1, <3>2, <3>5, <3>6, <3>7, <2>3
  <2>4. QED BY <2>1, <2>2, <2>3, <1>6
<1>10. QED BY <1>1, <1>3, <1>7, <1>8, <1>9 DEF StateOk, TypesIn, ds, ht

LEMMA StateTypes ==
    ASSUME NEW cs, NEW ts, NEW as, NEW gt, NEW ng, StateOk(cs, ts, as, gt, ng)
    PROVE  /\ cs \in [Fds -> Conn] /\ ts \in [Fds -> Timer] /\ as \in [Gens -> Seq(Kinds)]
           /\ gt \in [Gens -> Seq(Part)] /\ ng \in 1 .. MaxConns + 1 /\ ng \in Nat
           /\ SlotsIn(cs, ts, as, ng) /\ UnbornIn(as, gt, ng) /\ StreamsIn(cs, ts, as, gt)
           /\ \A g \in Gens : Len(as[g]) \in Nat
           /\ \A f \in Fds : cs[f].gen \in Gens \cup {0} /\ ts[f].gen \in Gens \cup {0}
                             /\ cs[f].lb \in Seq(Kinds) /\ Len(cs[f].lb) \in Nat
<1>1. /\ cs \in [Fds -> Conn] /\ ts \in [Fds -> Timer] /\ as \in [Gens -> Seq(Kinds)]
      /\ gt \in [Gens -> Seq(Part)] /\ ng \in 1 .. MaxConns + 1
      /\ SlotsIn(cs, ts, as, ng) /\ UnbornIn(as, gt, ng) /\ StreamsIn(cs, ts, as, gt)
  BY DEF StateOk, TypesIn
<1>2. ng \in Nat
  BY <1>1, FdsAreNat
<1>3. \A f \in Fds : cs[f].gen \in Gens \cup {0} /\ ts[f].gen \in Gens \cup {0} /\ cs[f].lb \in Seq(Kinds)
  BY <1>1 DEF Conn, Timer
<1>4. \A g \in Gens : Len(as[g]) \in Nat
  BY <1>1, LenProperties
<1>5. \A f \in Fds : Len(cs[f].lb) \in Nat
  BY <1>3, LenProperties
<1>6. QED BY <1>1, <1>2, <1>3, <1>4, <1>5

\* The stream of the connection at f, and what is known of it.
StreamOf(cs, ts, as, gt, ng, f, g) ==
    /\ StreamIn(cs, gt, g) = gt[g] \o cs[f].out /\ Allowed(StreamIn(cs, gt, g), ts, as, g)
    /\ gt[g] \in Seq(Part) /\ cs[f].out \in Seq(Part) /\ g < ng
    /\ Len(as[g]) + Len(cs[f].lb) <= MaxLines /\ \A h \in Fds : h # f => cs[h].gen # g

LEMMA OpenStreamOf ==
    ASSUME NEW cs, NEW ts, NEW as, NEW gt, NEW ng, StateOk(cs, ts, as, gt, ng),
           NEW f \in Fds, NEW g \in Gens, cs[f].gen = g
    PROVE  StreamOf(cs, ts, as, gt, ng, f, g)
<1>1. g # 0
  BY FdsAreNat
<1>2. /\ g < ng /\ Len(as[g]) + Len(cs[f].lb) <= MaxLines /\ \A h \in Fds : h # f => cs[h].gen # g
  <2>1. SlotsIn(cs, ts, as, ng)
    BY StateTypes
  <2>2. QED BY <1>1, <2>1 DEF SlotsIn
<1>3. gt[g] \in Seq(Part) /\ cs[f].out \in Seq(Part)
  <2>1. cs \in [Fds -> Conn] /\ gt \in [Gens -> Seq(Part)]
    BY StateTypes
  <2>2. QED BY <2>1 DEF Conn
<1>4. StreamIn(cs, gt, g) \in Seq(Part)
  BY StateTypes, StreamType
<1>5. Allowed(StreamIn(cs, gt, g), ts, as, g)
  BY <1>4, StateTypes DEF StreamsIn, Allowed
<1>6. StreamIn(cs, gt, g) = gt[g] \o cs[f].out
  BY <1>2, StreamOpen
<1>7. QED BY <1>2, <1>3, <1>5, <1>6 DEF StreamOf

\* A call that sends data keeps the state sound if its peer may get it.
LEMMA SentData ==
    ASSUME NEW cs, NEW ts, NEW as, NEW gt, NEW ng, StateOk(cs, ts, as, gt, ng),
           NEW f \in Fds, NEW g \in Gens, cs[f].gen = g,
           NEW data \in Seq(Part), Allowed(StreamIn(cs, gt, g) \o data, ts, as, g),
           NEW d, NEW took, Outcome(cs[f], data, d, took)
    PROVE  StateOk([cs EXCEPT ![f] = d], ts, as, [gt EXCEPT ![g] = @ \o took], ng)
<1>0. /\ StreamIn(cs, gt, g) = gt[g] \o cs[f].out
      /\ gt[g] \in Seq(Part) /\ cs[f].out \in Seq(Part)
  <2>1. StreamOf(cs, ts, as, gt, ng, f, g)
    BY OpenStreamOf
  <2>2. QED BY <2>1 DEF StreamOf
<1> DEFINE a == gt[g]
           o == cs[f].out
           s == StreamIn(cs, gt, g) \o data
<1>1. a \in Seq(Part) /\ o \in Seq(Part) /\ s = (a \o o) \o data
  BY <1>0
<1>2. d \in Conn /\ ConnOk(d) /\ took \in Seq(Part) /\ d.out \in Seq(Part)
  BY DEF Outcome, Conn
<1>3. \/ d.gen = g /\ d.lb = cs[f].lb /\ took \o d.out = o \o data
      \/ d = NoConn /\ \E n \in 0 .. Len(o \o data) : took = SubSeq(o \o data, 1, n)
  BY DEF Outcome
<1>4. [gt EXCEPT ![g] = @ \o took] = [gt EXCEPT ![g] = a \o took]
  OBVIOUS
<1>5. Allowed(s, ts, as, g)
  OBVIOUS
<1> HIDE DEF a, o, s
<1>6. s = a \o (o \o data) /\ o \o data \in Seq(Part) /\ a \o took \in Seq(Part)
  <2>1. o \o data \in Seq(Part) /\ a \o took \in Seq(Part)
    BY <1>1, <1>2, ConcatProperties
  <2>2. (a \o o) \o data = a \o (o \o data)
    BY <1>1, JoinedAsOne
  <2>3. QED BY <2>1, <2>2, <1>1
<1>7. \/ d.gen = g /\ d.lb = cs[f].lb /\ (a \o took) \o d.out = s
      \/ d.gen = 0 /\ \E n \in 0 .. Len(s) : a \o took = SubSeq(s, 1, n)
  <2>1. CASE d.gen = g /\ d.lb = cs[f].lb /\ took \o d.out = o \o data
    <3>1. PICK p \in Seq(Part), t \in Seq(Part), e \in Seq(Part) : p = a /\ t = took /\ e = d.out
      BY <1>1, <1>2
    <3>2. (p \o t) \o e = p \o (t \o e)
      BY JoinedAsOne
    <3>3. QED BY <2>1, <3>1, <3>2, <1>6
  <2>2. CASE d = NoConn /\ \E n \in 0 .. Len(o \o data) : took = SubSeq(o \o data, 1, n)
    <3>1. PICK n \in 0 .. Len(o \o data) : took = SubSeq(o \o data, 1, n)
      BY <2>2
    <3>2. PICK b \in Seq(Part) : b = o \o data
      BY <1>6
    <3>3. n \in 0 .. Len(b) /\ took = SubSeq(b, 1, n) /\ s = a \o b
      BY <3>1, <3>2, <1>6
    <3>4. Len(a) + n \in 0 .. Len(a \o b) /\ a \o SubSeq(b, 1, n) = SubSeq(a \o b, 1, Len(a) + n)
      BY <3>3, <1>1, PrefixJoin
    <3>5. QED BY <2>2, <3>3, <3>4, BlankConn
  <2>3. QED BY <2>1, <2>2, <1>3
<1>8. StateOk([cs EXCEPT ![f] = d], ts, as, [gt EXCEPT ![g] = a \o took], ng)
  BY <1>2, <1>5, <1>6, <1>7, Moved
<1>9. QED BY <1>4, <1>8

\* The reply to a line nothing was sent about.
LEMMA SentReply ==
    ASSUME NEW cs, NEW ts, NEW as, NEW gt, NEW ng, StateOk(cs, ts, as, gt, ng),
           NEW f \in Fds, NEW g \in Gens, cs[f].gen = g,
           NEW l, Fresh(cs, ts, as, gt, g, l),
           NEW d, NEW took, Outcome(cs[f], Reply(g, l), d, took)
    PROVE  StateOk([cs EXCEPT ![f] = d], ts, as, [gt EXCEPT ![g] = @ \o took], ng)
<1> DEFINE s == StreamIn(cs, gt, g)
           R == Reply(g, l)
<1>1. l \in 0 .. MaxLines
  <2>1. PICK m \in Nat, k \in Nat : m = Len(as[g]) /\ k = Len(cs[f].lb)
    BY StateTypes
  <2>2. m + k <= MaxLines
    BY <2>1, OpenStreamOf DEF StreamOf
  <2>3. MaxLines \in Nat /\ l \in 0 .. m
    BY <2>1, FdsAreNat DEF Fresh
  <2>4. QED BY <2>2, <2>3
<1>2. Allowed(s, ts, as, g) /\ Unanswered(s, l) /\ l \in 0 .. Len(as[g])
      /\ \A h \in Fds : ts[h].gen = g => ts[h].line # l
  BY OpenStreamOf DEF Fresh, StreamOf
<1>3. R \in Seq(Part)
  BY <1>1, ReplyType
<1> HIDE DEF s
<1>4. /\ WholeReplies(s \o R, g) /\ Ended(s \o R) /\ s \o R \in Seq(Part)
      /\ \A j \in DOMAIN (s \o R) : (s \o R)[j].line = l \/ \E m \in DOMAIN s : (s \o R)[j] = s[m]
  BY <1>1, <1>2, ReplyBehind DEF Allowed
<1> HIDE DEF R
<1>5. Allowed(s \o R, ts, as, g)
  <2>1. \A j \in DOMAIN (s \o R) : (s \o R)[j].line <= Len(as[g])
    <3>1. PICK m \in Nat : m = Len(as[g])
      BY StateTypes
    <3>2. l <= m
      <4>1. l \in 0 .. m
        BY <1>2, <3>1
      <4>2. QED BY <4>1
    <3>3. \A j \in DOMAIN s : s[j].line <= m
      BY <1>2, <3>1 DEF Allowed
    <3>4. QED BY <3>1, <3>2, <3>3, <1>4
  <2>2. \A h \in Fds : ts[h].gen = g => Unanswered(s \o R, ts[h].line)
    BY <1>2, <1>4 DEF Allowed, Unanswered
  <2>3. QED BY <1>4, <2>1, <2>2 DEF Allowed
<1>6. QED BY <1>3, <1>5, SentData DEF s, R

LEMMA SentQueued ==
    ASSUME NEW cs, NEW ts, NEW as, NEW gt, NEW ng, StateOk(cs, ts, as, gt, ng),
           NEW f \in Fds, NEW g \in Gens, cs[f].gen = g,
           NEW d, NEW took, Outcome(cs[f], << >>, d, took)
    PROVE  StateOk([cs EXCEPT ![f] = d], ts, as, [gt EXCEPT ![g] = @ \o took], ng)
<1>1. << >> \in Seq(Part) /\ StreamIn(cs, gt, g) \o << >> = StreamIn(cs, gt, g)
  BY OpenStreamOf, ConcatEmptySeq DEF Allowed, StreamOf
<1>2. Allowed(StreamIn(cs, gt, g), ts, as, g)
  BY OpenStreamOf DEF StreamOf
<1>3. QED BY <1>1, <1>2, SentData

LEMMA Closed ==
    ASSUME NEW cs, NEW ts, NEW as, NEW gt, NEW ng, StateOk(cs, ts, as, gt, ng),
           NEW f \in Fds, NEW g \in Gens, cs[f].gen = g
    PROVE  StateOk([cs EXCEPT ![f] = NoConn], ts, as, gt, ng)
<1>1. gt[g] \o << >> = gt[g] /\ cs[f].out \o << >> = cs[f].out /\ cs[f].out \in Seq(Part)
  <2>1. gt[g] \in Seq(Part) /\ cs[f].out \in Seq(Part)
    BY OpenStreamOf DEF StreamOf
  <2>2. QED BY <2>1, ConcatEmptySeq
<1>2. << >> = SubSeq(cs[f].out, 1, 0) /\ 0 \in 0 .. Len(cs[f].out) /\ << >> \in Seq(Part)
  BY <1>1, SubSeqEmpty, LenProperties
<1>3. Outcome(cs[f], << >>, NoConn, << >>)
  BY <1>1, <1>2, BlankConn DEF Outcome
<1>4. StateOk([cs EXCEPT ![f] = NoConn], ts, as, [gt EXCEPT ![g] = @ \o << >>], ng)
  BY <1>3, SentQueued
<1>5. [gt EXCEPT ![g] = @ \o << >>] = gt
  BY <1>1, StateTypes
<1>6. QED BY <1>4, <1>5

LEMMA LineIsNat ==
    ASSUME NEW s \in Seq(Part), NEW j \in DOMAIN s
    PROVE  s[j].line \in Nat
<1>1. s[j] \in Part
  BY LenProperties
<1>2. s[j].line \in 0 .. MaxLines
  BY <1>1 DEF Part
<1>3. QED BY <1>2, FdsAreNat

OnlyLines(cs, ds, ts, bs, gt, ng) ==
    StateOk(ds, ts, bs, gt, ng) /\ \A k \in Gens : StreamIn(ds, gt, k) = StreamIn(cs, gt, k)

\* Lines come in, or go out to be handled: only lb and asked change.
LEMMA LinesMoved ==
    ASSUME NEW cs, NEW ts, NEW as, NEW gt, NEW ng, StateOk(cs, ts, as, gt, ng),
           NEW f \in Fds, NEW g \in Gens, cs[f].gen = g,
           NEW d \in Conn, d.gen = g, d.out = cs[f].out, d.want = cs[f].want,
           d.close_after_flush = cs[f].close_after_flush,
           NEW z \in Seq(Kinds), Len(as[g]) <= Len(z), Len(z) + Len(d.lb) <= MaxLines
    PROVE  OnlyLines(cs, [cs EXCEPT ![f] = d], ts, [as EXCEPT ![g] = z], gt, ng)
<1> DEFINE ds == [cs EXCEPT ![f] = d]
           bs == [as EXCEPT ![g] = z]
<1>1. /\ cs \in [Fds -> Conn] /\ ts \in [Fds -> Timer] /\ as \in [Gens -> Seq(Kinds)]
      /\ gt \in [Gens -> Seq(Part)] /\ ng \in 1 .. MaxConns + 1
      /\ SlotsIn(cs, ts, as, ng) /\ UnbornIn(as, gt, ng) /\ StreamsIn(cs, ts, as, gt)
      /\ g # 0 /\ g < ng
  BY StateTypes, OpenStreamOf, FdsAreNat DEF StreamOf
<1>2. ds \in [Fds -> Conn] /\ bs \in [Gens -> Seq(Kinds)] /\ ds[f] = d /\ bs[g] = z
  BY <1>1
<1>3. (\A h \in Fds : h # f => ds[h] = cs[h]) /\ (\A k \in Gens : k # g => bs[k] = as[k])
  BY <1>1
<1> HIDE DEF ds, bs
<1>4. \A h \in Fds : ds[h].gen = cs[h].gen /\ ds[h].out = cs[h].out
  BY <1>2, <1>3
<1>5. \A k \in Gens : Len(bs[k]) \in Nat /\ Len(as[k]) \in Nat /\ Len(as[k]) <= Len(bs[k])
  <2>1. \A k \in Gens : Len(bs[k]) \in Nat /\ Len(as[k]) \in Nat
    BY <1>1, <1>2, LenProperties
  <2>2. ASSUME NEW k \in Gens
        PROVE  Len(as[k]) <= Len(bs[k])
    <3>1. CASE k = g
      BY <3>1, <1>2
    <3>2. CASE k # g
      <4>1. PICK m \in Nat : m = Len(as[k]) /\ m = Len(bs[k])
        BY <3>2, <2>1, <1>3
      <4>2. m <= m
        OBVIOUS
      <4>3. QED BY <4>1, <4>2
    <3>3. QED BY <3>1, <3>2
  <2>3. QED BY <2>1, <2>2
<1>6. \A k \in Gens : StreamIn(ds, gt, k) = StreamIn(cs, gt, k)
  BY <1>4, StreamSame
<1>7. SlotsIn(ds, ts, bs, ng)
  <2> SUFFICES ASSUME NEW h \in Fds
               PROVE  /\ ConnOk(ds[h])
                      /\ ds[h].gen # 0 =>
                           ts[h].gen = 0 /\ ds[h].gen < ng /\ Len(bs[ds[h].gen]) + Len(ds[h].lb) <= MaxLines
                      /\ ts[h].gen # 0 =>
                           ts[h].gen < ng /\ ts[h].fd \in Fds /\ ts[h].line \in 1 .. Len(bs[ts[h].gen])
                      /\ \A i \in Fds : i # h =>
                           /\ ds[h].gen # 0 => ds[i].gen # ds[h].gen
                           /\ ts[h].gen # 0 /\ ts[i].gen = ts[h].gen => ts[i].line # ts[h].line
    BY DEF SlotsIn
  <2>1. ConnOk(ds[h])
    <3>1. CASE h = f
      <4>1. ConnOk(cs[f])
        BY <1>1 DEF SlotsIn
      <4>2. QED BY <3>1, <4>1, <1>1, <1>2 DEF ConnOk
    <3>2. CASE h # f
      BY <3>2, <1>1, <1>3 DEF SlotsIn
    <3>3. QED BY <3>1, <3>2
  <2>2. ds[h].gen # 0 => ts[h].gen = 0 /\ ds[h].gen < ng /\ Len(bs[ds[h].gen]) + Len(ds[h].lb) <= MaxLines
    <3>1. CASE h = f
      BY <3>1, <1>1, <1>2 DEF SlotsIn
    <3>2. CASE h # f
      <4>1. cs[h].gen # g
        BY <3>2, <1>1 DEF SlotsIn
      <4>2. ds[h] = cs[h] /\ cs[h].gen \in Gens \cup {0}
        BY <3>2, <1>1, <1>3 DEF Conn
      <4>3. cs[h].gen # 0 => bs[cs[h].gen] = as[cs[h].gen]
        BY <4>1, <4>2, <1>3
      <4>4. QED BY <4>2, <4>3, <1>1 DEF SlotsIn
    <3>3. QED BY <3>1, <3>2
  <2>3. ts[h].gen # 0 => ts[h].gen < ng /\ ts[h].fd \in Fds /\ ts[h].line \in 1 .. Len(bs[ts[h].gen])
    <3> SUFFICES ASSUME ts[h].gen # 0
                 PROVE  ts[h].gen < ng /\ ts[h].fd \in Fds /\ ts[h].line \in 1 .. Len(bs[ts[h].gen])
      OBVIOUS
    <3>1. ts[h].gen < ng /\ ts[h].fd \in Fds /\ ts[h].line \in 1 .. Len(as[ts[h].gen])
      BY <1>1 DEF SlotsIn
    <3>2. ts[h].gen \in Gens
      BY <1>1 DEF Timer
    <3>3. PICK m \in Nat, n \in Nat : m = Len(as[ts[h].gen]) /\ n = Len(bs[ts[h].gen])
      BY <3>2, <1>5
    <3>4. m <= n /\ ts[h].line \in 1 .. m
      BY <3>1, <3>2, <3>3, <1>5
    <3>5. ts[h].line \in 1 .. n
      BY <3>4
    <3>6. QED BY <3>1, <3>3, <3>5
  <2>4. \A i \in Fds : i # h =>
                           /\ ds[h].gen # 0 => ds[i].gen # ds[h].gen
                           /\ ts[h].gen # 0 /\ ts[i].gen = ts[h].gen => ts[i].line # ts[h].line
    <3> SUFFICES ASSUME NEW i \in Fds, i # h
                 PROVE  /\ ds[h].gen # 0 => ds[i].gen # ds[h].gen
                        /\ ts[h].gen # 0 /\ ts[i].gen = ts[h].gen => ts[i].line # ts[h].line
      OBVIOUS
    <3>1. /\ cs[h].gen # 0 => cs[i].gen # cs[h].gen
          /\ ts[h].gen # 0 /\ ts[i].gen = ts[h].gen => ts[i].line # ts[h].line
      BY <1>1 DEF SlotsIn
    <3>2. QED BY <3>1, <1>4
  <2>5. QED BY <2>1, <2>2, <2>3, <2>4
<1>8. UnbornIn(bs, gt, ng)
  <2> SUFFICES ASSUME NEW k \in Gens, k >= ng
               PROVE  bs[k] = << >> /\ gt[k] = << >>
    BY DEF UnbornIn
  <2>1. k # g
    BY <1>1, FdsAreNat
  <2>2. QED BY <2>1, <1>1, <1>3 DEF UnbornIn
<1>9. StreamsIn(ds, ts, bs, gt)
  <2> SUFFICES ASSUME NEW k \in Gens
               PROVE  /\ WholeReplies(StreamIn(cs, gt, k), k)
                      /\ \A j \in DOMAIN StreamIn(cs, gt, k) : StreamIn(cs, gt, k)[j].line <= Len(bs[k])
                      /\ \A h \in Fds : ds[h].gen = k => Ended(StreamIn(cs, gt, k))
                      /\ \A h \in Fds : ts[h].gen = k => Unanswered(StreamIn(cs, gt, k), ts[h].line)
    BY <1>6 DEF StreamsIn
  <2> DEFINE s == StreamIn(cs, gt, k)
  <2>1. \A j \in DOMAIN s : s[j].line <= Len(bs[k])
    <3>1. s \in Seq(Part) /\ \A j \in DOMAIN s : s[j].line <= Len(as[k])
      BY <1>1, StreamType DEF StreamsIn
    <3> HIDE DEF s
    <3>2. \A j \in DOMAIN s : s[j].line \in Nat
      BY <3>1, LineIsNat
    <3>3. PICK m \in Nat, n \in Nat : m = Len(as[k]) /\ n = Len(bs[k])
      BY <1>5
    <3>4. m <= n
      BY <3>3, <1>5
    <3>5. ASSUME NEW j \in DOMAIN s
          PROVE  s[j].line <= n
      <4>1. PICK l \in Nat : l = s[j].line
        BY <3>2
      <4>2. l <= m
        BY <4>1, <3>1, <3>3
      <4>3. l <= n
        BY <4>2, <3>4
      <4>4. QED BY <4>1, <4>3
    <3>6. QED BY <3>3, <3>5
  <2>2. QED BY <2>1, <1>1, <1>4 DEF StreamsIn
<1>10. QED BY <1>1, <1>2, <1>6, <1>7, <1>8, <1>9 DEF StateOk, TypesIn, OnlyLines, ds, bs

\* A sound state in which line l of g awaits its reply.
Awaits(cs, ts, as, gt, ng, g, l) == StateOk(cs, ts, as, gt, ng) /\ Fresh(cs, ts, as, gt, g, l)

\* A line to handle: nothing was sent about it.
LEMMA Asked ==
    ASSUME NEW cs, NEW ts, NEW as, NEW gt, NEW ng, StateOk(cs, ts, as, gt, ng),
           NEW f \in Fds, NEW g \in Gens, cs[f].gen = g, cs[f].lb # << >>, NEW k \in Kinds
    PROVE  LET d == [cs[f] EXCEPT !.lb = Tail(@)]
               ds == [cs EXCEPT ![f] = d]
               bs == [as EXCEPT ![g] = Append(@, k)]
           IN Awaits(ds, ts, bs, gt, ng, g, Len(as[g]) + 1)
<1> DEFINE d == [cs[f] EXCEPT !.lb = Tail(@)]
           ds == [cs EXCEPT ![f] = d]
           z == Append(as[g], k)
           bs == [as EXCEPT ![g] = z]
<1>1. /\ cs \in [Fds -> Conn] /\ ts \in [Fds -> Timer] /\ as \in [Gens -> Seq(Kinds)]
      /\ gt \in [Gens -> Seq(Part)] /\ SlotsIn(cs, ts, as, ng) /\ StreamsIn(cs, ts, as, gt)
  BY StateTypes
<1>2. cs[f].lb \in Seq(Kinds) /\ Len(cs[f].lb) \in Nat /\ Len(as[g]) \in Nat
  BY StateTypes
<1>3. Tail(cs[f].lb) \in Seq(Kinds) /\ Len(Tail(cs[f].lb)) = Len(cs[f].lb) - 1
  BY <1>2, HeadTailProperties
<1>4. /\ d \in Conn /\ d.gen = g /\ d.out = cs[f].out /\ d.want = cs[f].want
      /\ d.close_after_flush = cs[f].close_after_flush /\ d.lb = Tail(cs[f].lb)
  BY <1>1, <1>3 DEF Conn
<1>5. z \in Seq(Kinds) /\ Len(z) = Len(as[g]) + 1
  <2>1. PICK a \in Seq(Kinds) : a = as[g]
    BY <1>1
  <2>2. Append(a, k) \in Seq(Kinds) /\ Len(Append(a, k)) = Len(a) + 1
    BY AppendProperties
  <2>3. QED BY <2>1, <2>2
<1>6. bs[g] = z /\ bs = [as EXCEPT ![g] = Append(@, k)]
  BY <1>1
<1> HIDE DEF d, z
<1>7. Len(as[g]) + Len(cs[f].lb) <= MaxLines
  BY OpenStreamOf DEF StreamOf
<1>8. Len(as[g]) <= Len(z) /\ Len(z) + Len(d.lb) <= MaxLines
  <2>1. PICK m \in Nat, n \in Nat, q \in Nat : m = Len(as[g]) /\ n = Len(cs[f].lb) /\ q = MaxLines
    BY <1>2, FdsAreNat
  <2>2. Len(z) = m + 1 /\ Len(d.lb) = n - 1 /\ m + n <= q
    BY <2>1, <1>3, <1>4, <1>5, <1>7
  <2>3. m <= m + 1 /\ (m + 1) + (n - 1) <= q
    BY <2>2
  <2>4. QED BY <2>1, <2>2, <2>3
<1>9. StateOk(ds, ts, bs, gt, ng) /\ StreamIn(ds, gt, g) = StreamIn(cs, gt, g)
  <2>1. OnlyLines(cs, ds, ts, bs, gt, ng)
    BY <1>4, <1>5, <1>8, LinesMoved
  <2>2. QED BY <2>1 DEF OnlyLines
<1>10. Fresh(ds, ts, bs, gt, g, Len(as[g]) + 1)
  <2> DEFINE s == StreamIn(cs, gt, g)
  <2>1. PICK m \in Nat : m = Len(as[g])
    BY <1>2
  <2>2. m + 1 \in 0 .. Len(bs[g])
    <3>1. Len(bs[g]) = m + 1
      BY <2>1, <1>5, <1>6
    <3>2. m + 1 \in 0 .. m + 1
      OBVIOUS
    <3>3. QED BY <3>1, <3>2
  <2>3. Unanswered(s, m + 1)
    <3>1. s \in Seq(Part) /\ \A j \in DOMAIN s : s[j].line <= m
      BY <2>1, <1>1, StreamType DEF StreamsIn
    <3> HIDE DEF s
    <3>2. \A j \in DOMAIN s : s[j].line \in Nat
      BY <3>1, LineIsNat
    <3>3. QED BY <3>1, <3>2 DEF Unanswered
  <2>4. ASSUME NEW h \in Fds, ts[h].gen = g
        PROVE  ts[h].line # m + 1
    <3>1. ts[h].line \in 1 .. m
      BY <2>1, <2>4, <1>1, FdsAreNat DEF SlotsIn
    <3>2. QED BY <3>1
  <2>5. QED BY <2>1, <2>2, <2>3, <2>4, <1>9 DEF Fresh
<1>11. QED BY <1>6, <1>9, <1>10 DEF d, Awaits

LEMMA Received ==
    ASSUME NEW cs, NEW ts, NEW as, NEW gt, NEW ng, StateOk(cs, ts, as, gt, ng),
           NEW f \in Fds, NEW g \in Gens, cs[f].gen = g,
           NEW ls \in Seq(Kinds), Len(as[g]) + Len(cs[f].lb) + Len(ls) <= MaxLines
    PROVE  StateOk([cs EXCEPT ![f].lb = @ \o ls], ts, as, gt, ng)
<1> DEFINE d == [cs[f] EXCEPT !.lb = @ \o ls]
<1>1. cs \in [Fds -> Conn] /\ as \in [Gens -> Seq(Kinds)]
  BY StateTypes
<1>2. cs[f].lb \in Seq(Kinds) /\ Len(cs[f].lb) \in Nat /\ Len(as[g]) \in Nat /\ Len(ls) \in Nat
  BY StateTypes, LenProperties
<1>3. cs[f].lb \o ls \in Seq(Kinds) /\ Len(cs[f].lb \o ls) = Len(cs[f].lb) + Len(ls)
  BY <1>2, ConcatProperties
<1>4. /\ d \in Conn /\ d.gen = g /\ d.out = cs[f].out /\ d.want = cs[f].want
      /\ d.close_after_flush = cs[f].close_after_flush /\ d.lb = cs[f].lb \o ls
  BY <1>1, <1>3 DEF Conn
<1>5. [cs EXCEPT ![f].lb = @ \o ls] = [cs EXCEPT ![f] = d]
  OBVIOUS
<1> HIDE DEF d
<1>6. as[g] \in Seq(Kinds) /\ [as EXCEPT ![g] = as[g]] = as
  BY <1>1
<1>7. Len(as[g]) <= Len(as[g]) /\ Len(as[g]) + Len(d.lb) <= MaxLines
  <2>1. PICK m \in Nat, n \in Nat, q \in Nat : m = Len(as[g]) /\ n = Len(cs[f].lb) /\ q = Len(ls)
    BY <1>2
  <2>2. m + n + q <= MaxLines /\ Len(d.lb) = n + q
    BY <2>1, <1>3, <1>4
  <2>3. m <= m /\ m + (n + q) <= MaxLines
    BY <2>2, FdsAreNat
  <2>4. QED BY <2>1, <2>2, <2>3
<1>8. OnlyLines(cs, [cs EXCEPT ![f] = d], ts, [as EXCEPT ![g] = as[g]], gt, ng)
  BY <1>4, <1>6, <1>7, LinesMoved
<1>9. QED BY <1>5, <1>6, <1>8 DEF OnlyLines

\* A free descriptor becomes a connection.
LEMMA Opened ==
    ASSUME NEW cs, NEW ts, NEW as, NEW gt, NEW ng \in Gens, StateOk(cs, ts, as, gt, ng),
           NEW f \in Fds, cs[f].gen = 0, ts[f].gen = 0
    PROVE  Awaits([cs EXCEPT ![f] = [NoConn EXCEPT !.gen = ng]], ts, as, gt, ng + 1, ng, 0)
<1> DEFINE d == [NoConn EXCEPT !.gen = ng]
           ds == [cs EXCEPT ![f] = d]
<1>1. /\ cs \in [Fds -> Conn] /\ ts \in [Fds -> Timer] /\ as \in [Gens -> Seq(Kinds)]
      /\ gt \in [Gens -> Seq(Part)] /\ ng \in Nat
      /\ SlotsIn(cs, ts, as, ng) /\ UnbornIn(as, gt, ng) /\ StreamsIn(cs, ts, as, gt)
  BY StateTypes
<1>2. /\ d \in Conn /\ d.gen = ng /\ d.out = << >> /\ d.lb = << >> /\ ConnOk(d)
  <2>1. << >> \in Seq(Kinds) /\ << >> \in Seq(Part) /\ ng # 0
    BY FdsAreNat
  <2>2. QED BY <2>1 DEF Conn, NoConn, ConnOk
<1>3. ds \in [Fds -> Conn] /\ ds[f] = d /\ \A h \in Fds : h # f => ds[h] = cs[h]
  BY <1>1, <1>2
<1> HIDE DEF d, ds
<1>4. ng >= ng /\ ng + 1 \in 1 .. MaxConns + 1 /\ ng < ng + 1 /\ ng # 0
  BY <1>1, FdsAreNat DEF Gens
<1>5. as[ng] = << >> /\ gt[ng] = << >> /\ Len(as[ng]) = 0
  BY <1>1, <1>4, EmptySeq DEF UnbornIn
<1>6. /\ \A h \in Fds : cs[h].gen \in Gens \cup {0} /\ ts[h].gen \in Gens \cup {0}
      /\ \A h \in Fds : cs[h].gen # 0 => cs[h].gen < ng /\ cs[h].gen < ng + 1 /\ cs[h].gen # ng
      /\ \A h \in Fds : ts[h].gen # 0 => ts[h].gen < ng /\ ts[h].gen < ng + 1
      /\ \A h \in Fds : ts[h].gen # ng /\ cs[h].gen # ng
  <2>1. \A h \in Fds : cs[h].gen \in Gens \cup {0} /\ ts[h].gen \in Gens \cup {0}
    BY StateTypes
  <2>2. \A h \in Fds : (cs[h].gen # 0 => cs[h].gen < ng) /\ (ts[h].gen # 0 => ts[h].gen < ng)
    BY <1>1 DEF SlotsIn
  <2>3. \A k \in Gens : k < ng => k < ng + 1 /\ k # ng
    BY <1>1, FdsAreNat
  <2>4. QED BY <2>1, <2>2, <2>3, <1>4
<1>7. SlotsIn(ds, ts, as, ng + 1)
  <2> SUFFICES ASSUME NEW h \in Fds
               PROVE  /\ ConnOk(ds[h])
                      /\ ds[h].gen # 0 =>
                           ts[h].gen = 0 /\ ds[h].gen < ng + 1 /\ Len(as[ds[h].gen]) + Len(ds[h].lb) <= MaxLines
                      /\ ts[h].gen # 0 =>
                           ts[h].gen < ng + 1 /\ ts[h].fd \in Fds /\ ts[h].line \in 1 .. Len(as[ts[h].gen])
                      /\ \A i \in Fds : i # h =>
                           /\ ds[h].gen # 0 => ds[i].gen # ds[h].gen
                           /\ ts[h].gen # 0 /\ ts[i].gen = ts[h].gen => ts[i].line # ts[h].line
    BY DEF SlotsIn
  <2>1. /\ ConnOk(cs[h])
        /\ cs[h].gen # 0 => ts[h].gen = 0 /\ Len(as[cs[h].gen]) + Len(cs[h].lb) <= MaxLines
        /\ ts[h].gen # 0 => ts[h].fd \in Fds /\ ts[h].line \in 1 .. Len(as[ts[h].gen])
    BY <1>1 DEF SlotsIn
  <2>2. \A i \in Fds : i # h => /\ cs[h].gen # 0 => cs[i].gen # cs[h].gen
                                /\ ts[h].gen # 0 /\ ts[i].gen = ts[h].gen => ts[i].line # ts[h].line
    BY <1>1 DEF SlotsIn
  <2>3. CASE h = f
    <3>1. ds[h] = d /\ Len(as[d.gen]) + Len(d.lb) <= MaxLines
      <4>1. Len(as[d.gen]) = 0 /\ Len(d.lb) = 0 /\ 0 + 0 <= MaxLines
        BY <1>2, <1>5, FdsAreNat
      <4>2. QED BY <4>1, <2>3, <1>3
    <3>2. \A i \in Fds : i # h => ds[i].gen # d.gen
      BY <2>3, <1>2, <1>3, <1>6
    <3>3. QED BY <2>1, <2>2, <2>3, <3>1, <3>2, <1>2, <1>4, <1>6
  <2>4. CASE h # f
    <3>1. ds[h] = cs[h]
      BY <2>4, <1>3
    <3>2. \A i \in Fds : i # h /\ cs[h].gen # 0 => ds[i].gen # cs[h].gen
      <4> SUFFICES ASSUME NEW i \in Fds, i # h, cs[h].gen # 0
                   PROVE  ds[i].gen # cs[h].gen
        OBVIOUS
      <4>1. CASE i = f
        BY <4>1, <1>2, <1>3, <1>6
      <4>2. CASE i # f
        BY <4>2, <2>2, <1>3
      <4>3. QED BY <4>1, <4>2
    <3>3. QED BY <2>1, <2>2, <3>1, <3>2, <1>6
  <2>5. QED BY <2>3, <2>4
<1>8. UnbornIn(as, gt, ng + 1)
  <2> SUFFICES ASSUME NEW k \in Gens, k >= ng + 1
               PROVE  as[k] = << >> /\ gt[k] = << >>
    BY DEF UnbornIn
  <2>1. k >= ng
    BY <1>1, FdsAreNat
  <2>2. QED BY <2>1, <1>1 DEF UnbornIn
<1>9. StreamIn(ds, gt, ng) = << >>
  <2>1. \A h \in Fds : h # f => ds[h].gen # ng
    BY <1>3, <1>6
  <2>2. StreamIn(ds, gt, ng) = gt[ng] \o ds[f].out
    BY <2>1, <1>2, <1>3, StreamOpen
  <2>3. << >> \o << >> = << >>
    OBVIOUS
  <2>4. QED BY <2>2, <2>3, <1>2, <1>3, <1>5
<1>10. StreamsIn(ds, ts, as, gt)
  <2> SUFFICES ASSUME NEW k \in Gens
               PROVE  /\ WholeReplies(StreamIn(ds, gt, k), k)
                      /\ \A j \in DOMAIN StreamIn(ds, gt, k) : StreamIn(ds, gt, k)[j].line <= Len(as[k])
                      /\ \A h \in Fds : ds[h].gen = k => Ended(StreamIn(ds, gt, k))
                      /\ \A h \in Fds : ts[h].gen = k => Unanswered(StreamIn(ds, gt, k), ts[h].line)
    BY DEF StreamsIn
  <2>1. CASE k = ng
    <3>1. DOMAIN << >> = {}
      OBVIOUS
    <3>2. QED BY <2>1, <3>1, <1>9 DEF WholeReplies, Ended, Unanswered
  <2>2. CASE k # ng
    <3>1. \A h \in Fds : (ds[h].gen = k <=> cs[h].gen = k) /\ (ds[h].gen = k => ds[h].out = cs[h].out)
      BY <2>2, <1>2, <1>3, FdsAreNat
    <3>2. StreamIn(ds, gt, k) = StreamIn(cs, gt, k)
      BY <3>1, StreamSame
    <3>3. QED BY <3>1, <3>2, <1>1 DEF StreamsIn
  <2>3. QED BY <2>1, <2>2
<1>11. StateOk(ds, ts, as, gt, ng + 1)
  BY <1>1, <1>3, <1>4, <1>7, <1>8, <1>10 DEF StateOk, TypesIn
<1>12. Fresh(ds, ts, as, gt, ng, 0)
  <2>1. 0 \in 0 .. Len(as[ng]) /\ DOMAIN << >> = {}
    BY <1>5
  <2>2. QED BY <2>1, <1>6, <1>9 DEF Fresh, Unanswered
<1>13. QED BY <1>11, <1>12 DEF Awaits, ds, d

\* A free descriptor becomes the timer of a line that awaits its reply.
LEMMA TimerStarted ==
    ASSUME NEW cs, NEW ts, NEW as, NEW gt, NEW ng, NEW g \in Gens, NEW l, Awaits(cs, ts, as, gt, ng, g, l),
           NEW f \in Fds, cs[f].gen = g, l # 0,
           NEW h \in Fds, cs[h].gen = 0, ts[h].gen = 0
    PROVE  StateOk(cs, [ts EXCEPT ![h] = [gen |-> g, fd |-> f, line |-> l]], as, gt, ng)
<1> DEFINE t == [gen |-> g, fd |-> f, line |-> l]
           us == [ts EXCEPT ![h] = t]
<1>1. StateOk(cs, ts, as, gt, ng) /\ Fresh(cs, ts, as, gt, g, l)
  BY DEF Awaits
<1>2. /\ cs \in [Fds -> Conn] /\ ts \in [Fds -> Timer] /\ as \in [Gens -> Seq(Kinds)]
      /\ gt \in [Gens -> Seq(Part)] /\ ng \in 1 .. MaxConns + 1
      /\ SlotsIn(cs, ts, as, ng) /\ UnbornIn(as, gt, ng) /\ StreamsIn(cs, ts, as, gt)
  BY <1>1, StateTypes
<1>3. g < ng /\ l \in 1 .. Len(as[g]) /\ l \in 0 .. MaxLines
  <2>1. PICK m \in Nat, n \in Nat : m = Len(as[g]) /\ n = Len(cs[f].lb)
    BY <1>1, StateTypes
  <2>2. g < ng /\ m + n <= MaxLines
    BY <1>1, <2>1, OpenStreamOf DEF StreamOf
  <2>3. l \in 0 .. m
    BY <1>1, <2>1 DEF Fresh
  <2>4. l \in 1 .. m /\ l \in 0 .. MaxLines
    BY <2>2, <2>3, FdsAreNat
  <2>5. QED BY <2>1, <2>2, <2>4
<1>4. t \in Timer /\ t.gen = g /\ t.fd = f /\ t.line = l
  BY <1>3 DEF Timer
<1>5. us \in [Fds -> Timer] /\ us[h] = t /\ \A i \in Fds : i # h => us[i] = ts[i]
  BY <1>2, <1>4
<1>6. \A i \in Fds : ts[i].gen = g => ts[i].line # l
  BY <1>1 DEF Fresh
<1> HIDE DEF t, us
<1>7. SlotsIn(cs, us, as, ng)
  <2> SUFFICES ASSUME NEW i \in Fds
               PROVE  /\ ConnOk(cs[i])
                      /\ cs[i].gen # 0 =>
                           us[i].gen = 0 /\ cs[i].gen < ng /\ Len(as[cs[i].gen]) + Len(cs[i].lb) <= MaxLines
                      /\ us[i].gen # 0 =>
                           us[i].gen < ng /\ us[i].fd \in Fds /\ us[i].line \in 1 .. Len(as[us[i].gen])
                      /\ \A k \in Fds : k # i =>
                           /\ cs[i].gen # 0 => cs[k].gen # cs[i].gen
                           /\ us[i].gen # 0 /\ us[k].gen = us[i].gen => us[k].line # us[i].line
    BY DEF SlotsIn
  <2>1. /\ ConnOk(cs[i])
        /\ cs[i].gen # 0 => ts[i].gen = 0 /\ cs[i].gen < ng /\ Len(as[cs[i].gen]) + Len(cs[i].lb) <= MaxLines
        /\ ts[i].gen # 0 => ts[i].gen < ng /\ ts[i].fd \in Fds /\ ts[i].line \in 1 .. Len(as[ts[i].gen])
    BY <1>2 DEF SlotsIn
  <2>2. \A k \in Fds : k # i => /\ cs[i].gen # 0 => cs[k].gen # cs[i].gen
                                /\ ts[i].gen # 0 /\ ts[k].gen = ts[i].gen => ts[k].line # ts[i].line
    BY <1>2 DEF SlotsIn
  <2>3. CASE i = h
    <3>1. us[i] = t
      BY <2>3, <1>5
    <3>2. \A k \in Fds : k # i /\ us[k].gen = g => us[k].line # l
      BY <2>3, <1>5, <1>6
    <3>3. QED BY <2>1, <2>2, <2>3, <3>1, <3>2, <1>3, <1>4
  <2>4. CASE i # h
    <3>1. us[i] = ts[i]
      BY <2>4, <1>5
    <3>2. ASSUME NEW k \in Fds, k # i, ts[i].gen # 0, us[k].gen = ts[i].gen
          PROVE  us[k].line # ts[i].line
      <4>1. CASE k = h
        BY <4>1, <3>2, <1>4, <1>5, <1>6
      <4>2. CASE k # h
        BY <4>2, <3>2, <2>2, <1>5
      <4>3. QED BY <4>1, <4>2
    <3>3. QED BY <2>1, <2>2, <3>1, <3>2
  <2>5. QED BY <2>3, <2>4
<1>8. StreamsIn(cs, us, as, gt)
  <2>1. ASSUME NEW k \in Gens, NEW i \in Fds, us[i].gen = k
        PROVE  Unanswered(StreamIn(cs, gt, k), us[i].line)
    <3>1. CASE i = h
      BY <3>1, <2>1, <1>1, <1>4, <1>5 DEF Fresh
    <3>2. CASE i # h
      BY <3>2, <2>1, <1>2, <1>5 DEF StreamsIn
    <3>3. QED BY <3>1, <3>2
  <2>2. QED BY <2>1, <1>2 DEF StreamsIn
<1>9. QED BY <1>2, <1>5, <1>7, <1>8 DEF StateOk, TypesIn, us, t

\* A timer goes: its line awaits its reply.
LEMMA TimerRemoved ==
    ASSUME NEW cs, NEW ts, NEW as, NEW gt, NEW ng, StateOk(cs, ts, as, gt, ng),
           NEW h \in Fds, NEW g \in Gens, ts[h].gen = g
    PROVE  Awaits(cs, [ts EXCEPT ![h] = NoTimer], as, gt, ng, g, ts[h].line)
<1> DEFINE us == [ts EXCEPT ![h] = NoTimer]
<1>1. /\ cs \in [Fds -> Conn] /\ ts \in [Fds -> Timer] /\ as \in [Gens -> Seq(Kinds)]
      /\ gt \in [Gens -> Seq(Part)] /\ ng \in 1 .. MaxConns + 1 /\ g # 0
      /\ SlotsIn(cs, ts, as, ng) /\ UnbornIn(as, gt, ng) /\ StreamsIn(cs, ts, as, gt)
  BY StateTypes, FdsAreNat
<1>2. NoTimer \in Timer /\ NoTimer.gen = 0
  BY FdsAreNat DEF NoTimer, Timer
<1>3. us \in [Fds -> Timer] /\ us[h] = NoTimer /\ \A i \in Fds : i # h => us[i] = ts[i]
  BY <1>1, <1>2
<1> HIDE DEF us
<1>4. SlotsIn(cs, us, as, ng)
  <2> SUFFICES ASSUME NEW i \in Fds
               PROVE  /\ ConnOk(cs[i])
                      /\ cs[i].gen # 0 =>
                           us[i].gen = 0 /\ cs[i].gen < ng /\ Len(as[cs[i].gen]) + Len(cs[i].lb) <= MaxLines
                      /\ us[i].gen # 0 =>
                           us[i].gen < ng /\ us[i].fd \in Fds /\ us[i].line \in 1 .. Len(as[us[i].gen])
                      /\ \A k \in Fds : k # i =>
                           /\ cs[i].gen # 0 => cs[k].gen # cs[i].gen
                           /\ us[i].gen # 0 /\ us[k].gen = us[i].gen => us[k].line # us[i].line
    BY DEF SlotsIn
  <2>1. /\ ConnOk(cs[i])
        /\ cs[i].gen # 0 => ts[i].gen = 0 /\ cs[i].gen < ng /\ Len(as[cs[i].gen]) + Len(cs[i].lb) <= MaxLines
        /\ ts[i].gen # 0 => ts[i].gen < ng /\ ts[i].fd \in Fds /\ ts[i].line \in 1 .. Len(as[ts[i].gen])
    BY <1>1 DEF SlotsIn
  <2>2. \A k \in Fds : k # i => /\ cs[i].gen # 0 => cs[k].gen # cs[i].gen
                                /\ ts[i].gen # 0 /\ ts[k].gen = ts[i].gen => ts[k].line # ts[i].line
    BY <1>1 DEF SlotsIn
  <2>3. us[i].gen # 0 => us[i] = ts[i]
    BY <1>2, <1>3
  <2>4. us[i].gen = 0 \/ us[i].gen = ts[i].gen
    BY <1>2, <1>3
  <2>5. ASSUME NEW k \in Fds, k # i, us[i].gen # 0, us[k].gen = us[i].gen
        PROVE  us[k].line # us[i].line
    <3>1. us[k] = ts[k] /\ us[i] = ts[i]
      BY <2>5, <1>2, <1>3
    <3>2. QED BY <3>1, <2>2, <2>5
  <2>6. QED BY <2>1, <2>2, <2>3, <2>4, <2>5
<1>5. StreamsIn(cs, us, as, gt)
  <2>1. ASSUME NEW k \in Gens, NEW i \in Fds, us[i].gen = k
        PROVE  Unanswered(StreamIn(cs, gt, k), us[i].line)
    <3>1. us[i] = ts[i]
      BY <2>1, <1>2, <1>3, FdsAreNat
    <3>2. QED BY <3>1, <2>1, <1>1 DEF StreamsIn
  <2>2. QED BY <2>1, <1>1 DEF StreamsIn
<1>6. Fresh(cs, us, as, gt, g, ts[h].line)
  <2>1. ts[h].line \in 0 .. Len(as[g])
    <3>1. ts[h].line \in 1 .. Len(as[g]) /\ Len(as[g]) \in Nat
      BY <1>1, StateTypes DEF SlotsIn
    <3>2. PICK m \in Nat : m = Len(as[g])
      BY <3>1
    <3>3. ts[h].line \in 1 .. m
      BY <3>1, <3>2
    <3>4. ts[h].line \in 0 .. m
      BY <3>3
    <3>5. QED BY <3>2, <3>4
  <2>2. Unanswered(StreamIn(cs, gt, g), ts[h].line)
    BY <1>1 DEF StreamsIn
  <2>3. ASSUME NEW i \in Fds, us[i].gen = g
        PROVE  us[i].line # ts[h].line
    <3>1. i # h /\ us[i] = ts[i]
      BY <2>3, <1>1, <1>2, <1>3
    <3>2. QED BY <3>1, <2>3, <1>1 DEF SlotsIn
  <2>4. QED BY <2>1, <2>2, <2>3 DEF Fresh
<1>7. QED BY <1>1, <1>3, <1>4, <1>5, <1>6 DEF StateOk, TypesIn, Awaits, us

-----------------------------------------------------------------------------
(* The handlers *)

LEMMA EventInHand ==
    ASSUME IndInv, at # "wait"
    PROVE  /\ batch \in Seq(Events) /\ batch # << >> /\ Len(batch) \in Nat \ {0}
           /\ Event.fd \in Fds \cup {Listener} /\ (Event.fd # Listener => Event.fd \in Fds)
<1>1. batch \in Seq(Events) /\ batch # << >>
  BY DEF IndInv, BatchOk
<1>2. Len(batch) \in Nat \ {0}
  BY <1>1, EmptySeq
<1>3. batch[1] \in Events
  <2>1. 1 \in 1 .. Len(batch)
    BY <1>2
  <2>2. QED BY <1>1, <2>1, LenProperties
<1>4. Event.fd \in Fds \cup {Listener}
  BY <1>3 DEF Event, Events
<1>5. QED BY <1>1, <1>2, <1>4

LEMMA DoneBatch ==
    ASSUME IndInv, at # "wait", EventDone
    PROVE  BatchOk'
<1>1. batch \in Seq(Events) /\ batch # << >> /\ Len(batch) \in Nat \ {0}
  BY EventInHand
<1>2. Tail(batch) \in Seq(Events) /\ Len(Tail(batch)) = Len(batch) - 1
  BY <1>1, HeadTailProperties
<1>3. batch' = Tail(batch) /\ at' = IF Len(batch) = 1 THEN "wait" ELSE "event"
  BY DEF EventDone
<1>4. at' # "wait" => Len(batch') # 0
  BY <1>1, <1>2, <1>3
<1>5. at' # "wait" => batch' # << >>
  BY <1>4, EmptySeq
<1>6. QED BY <1>2, <1>3, <1>5 DEF BatchOk

LEMMA SameBatch ==
    ASSUME IndInv, at # "wait", Event.fd \in Fds, batch' = batch, at' \in {"lines", "out"},
           at' = "lines" => conns'[Event.fd].gen # 0
    PROVE  BatchOk'
<1>1. batch \in Seq(Events) /\ batch # << >>
  BY EventInHand
<1>2. Event' = Event
  BY DEF Event
<1>3. QED BY <1>1, <1>2 DEF BatchOk

LEMMA FreeFd ==
    ASSUME IndInv, FreeFds # {}
    PROVE  Min(FreeFds) \in Fds /\ conns[Min(FreeFds)].gen = 0 /\ timers[Min(FreeFds)].gen = 0
<1>1. FreeFds \in SUBSET Nat
  BY FdsAreNat DEF FreeFds
<1>2. Min(FreeFds) \in FreeFds
  BY <1>1, MinIsLeast
<1>3. QED BY <1>2 DEF FreeFds, InUse

LEMMA WaitStep == ASSUME IndInv, EpollWait PROVE IndInv'
<1>1. StateOk(conns, timers, asked, got, next_gen)
  BY DEF IndInv
<1>2. conns \in [Fds -> Conn] /\ timers \in [Fds -> Timer]
  BY <1>1, StateTypes
<1>3. \A f \in Fds : conns[f].gen \in Gens \cup {0} /\ timers[f].gen \in Gens \cup {0}
                     /\ timers[f].line \in 0 .. MaxLines
  BY <1>2 DEF Conn, Timer
<1>4. \A f \in Fds \cup {Listener} : Owner(f) \in Owners
  <2>1. 0 \in 0 .. MaxLines
    BY FdsAreNat
  <2>2. QED BY <1>3, <2>1 DEF Owner, Owners, InUse
<1>5. Ready \subseteq Events
  <2> DEFINE A == {[fd |-> Listener, owner |-> Owner(Listener), ev |-> {"in"}]}
             B == UNION {{[fd |-> f, owner |-> Owner(f), ev |-> v] :
                   v \in {{"in"}, {"hup"}} \cup (IF conns[f].want THEN {{"out"}, {"in", "out"}} ELSE {})} :
                f \in {h \in Fds : InUse(h)}}
             C == {[fd |-> f, owner |-> Owner(f), ev |-> {"in"}] : f \in {h \in Fds : timers[h].gen # 0}}
  <2>0. Ready = A \cup B \cup C
    BY DEF Ready
  <2> SUFFICES ASSUME NEW e \in A \cup B \cup C
               PROVE  e \in Events
    BY <2>0
  <2>1. CASE e = [fd |-> Listener, owner |-> Owner(Listener), ev |-> {"in"}]
    BY <2>1, <1>4 DEF Events
  <2>2. CASE \E f \in Fds : \E v \in {{"in"}, {"hup"}, {"out"}, {"in", "out"}} :
               e = [fd |-> f, owner |-> Owner(f), ev |-> v]
    <3>1. PICK f \in Fds, v \in {{"in"}, {"hup"}, {"out"}, {"in", "out"}} :
               e = [fd |-> f, owner |-> Owner(f), ev |-> v]
      BY <2>2
    <3>2. v \in SUBSET {"in", "hup", "out"}
      OBVIOUS
    <3>3. QED BY <3>1, <3>2, <1>4 DEF Events
  <2>3. CASE \E f \in {h \in Fds : timers[h].gen # 0} : e = [fd |-> f, owner |-> Owner(f), ev |-> {"in"}]
    BY <2>2, <2>3
  <2>4. CASE e \in B
    <3>1. PICK f \in {h \in Fds : InUse(h)} :
            e \in {[fd |-> f, owner |-> Owner(f), ev |-> v] :
                   v \in {{"in"}, {"hup"}} \cup (IF conns[f].want THEN {{"out"}, {"in", "out"}} ELSE {})}
      BY <2>4
    <3>2. PICK v \in {{"in"}, {"hup"}} \cup (IF conns[f].want THEN {{"out"}, {"in", "out"}} ELSE {}) :
            e = [fd |-> f, owner |-> Owner(f), ev |-> v]
      BY <3>1
    <3>3. v \in {{"in"}, {"hup"}, {"out"}, {"in", "out"}}
      OBVIOUS
    <3>4. QED BY <3>2, <3>3, <2>2
  <2>5. e \in A => e \in Events
    BY <2>1
  <2>6. e \in C => e \in Events
    BY <2>3
  <2> HIDE DEF A, B, C
  <2>7. QED BY <2>4, <2>5, <2>6
<1>6. PICK n \in 1 .. MaxBatch : \E b \in [1 .. n -> Ready] : batch' = b
  BY DEF EpollWait
<1>7. batch' \in [1 .. n -> Events] /\ n \in Nat \ {0}
  BY <1>5, <1>6, EpollAssumption
<1>8. batch' \in Seq(Events) /\ DOMAIN batch' = 1 .. n
  BY <1>7
<1>9. batch' # << >>
  <2>1. 1 \in DOMAIN batch'
    BY <1>7, <1>8
  <2>2. QED BY <2>1
<1>10. BatchOk'
  BY <1>8, <1>9 DEF BatchOk, EpollWait
<1>11. QED BY <1>1, <1>10 DEF IndInv, EpollWait

LEMMA AcceptStep == ASSUME IndInv, Accept PROVE IndInv'
<1> DEFINE f == Min(FreeFds)
           g == next_gen
           d == [NoConn EXCEPT !.gen = next_gen]
           ds == [conns EXCEPT ![f] = d]
<1>1. StateOk(conns, timers, asked, got, next_gen) /\ at = "event" /\ next_gen \in Gens /\ FreeFds # {}
  BY DEF IndInv, Accept
<1>2. f \in Fds /\ conns[f].gen = 0 /\ timers[f].gen = 0
  BY <1>1, FreeFd
<1>3. PICK r \in conn_send(d, Reply(g, 0)) :
        conns' = [conns EXCEPT ![f] = r.c] /\ got' = [got EXCEPT ![g] = r.took]
  BY DEF Accept
<1> HIDE DEF f
<1>4. Awaits(ds, timers, asked, got, g + 1, g, 0)
  BY <1>1, <1>2, Opened
<1>5. /\ conns \in [Fds -> Conn] /\ got \in [Gens -> Seq(Part)] /\ UnbornIn(asked, got, next_gen)
      /\ next_gen \in Nat
  BY <1>1, StateTypes
<1>6. ds[f] = d /\ d.gen = g /\ [ds EXCEPT ![f] = r.c] = [conns EXCEPT ![f] = r.c]
  BY <1>2, <1>5 DEF NoConn
<1>7. d \in Conn /\ ConnOk(d) /\ g # 0
  <2>1. << >> \in Seq(Part) /\ << >> \in Seq(Kinds) /\ g # 0
    BY <1>1, FdsAreNat
  <2>2. QED BY <2>1, <1>1 DEF NoConn, Conn, ConnOk
<1> HIDE DEF d
<1>8. Reply(g, 0) \in Seq(Part)
  <2>1. 0 \in 0 .. MaxLines
    BY FdsAreNat
  <2>2. QED BY <1>1, <2>1, ReplyType
<1>9. Outcome(d, Reply(g, 0), r.c, r.took)
  BY <1>3, <1>6, <1>7, <1>8, SendOutcome
<1>10. got' = [got EXCEPT ![g] = @ \o r.took]
  <2>1. got[g] = << >>
    <3>1. g >= g
      BY <1>5
    <3>2. QED BY <3>1, <1>1, <1>5 DEF UnbornIn
  <2>2. r.took \in Seq(Part)
    BY <1>9 DEF Outcome
  <2>3. << >> \o r.took = r.took
    BY <2>2, ConcatEmptySeq
  <2>4. QED BY <2>1, <2>3, <1>3
<1> HIDE DEF ds
<1>11. StateOk([ds EXCEPT ![f] = r.c], timers, asked, [got EXCEPT ![g] = @ \o r.took], g + 1)
  <2>1. StateOk(ds, timers, asked, got, g + 1) /\ Fresh(ds, timers, asked, got, g, 0)
    BY <1>4 DEF Awaits
  <2>2. Outcome(ds[f], Reply(g, 0), r.c, r.took) /\ ds[f].gen = g
    BY <1>6, <1>9
  <2>3. QED BY <2>1, <2>2, <1>1, <1>2, SentReply
<1>12. StateOk(conns', timers', asked', got', next_gen')
  BY <1>3, <1>6, <1>10, <1>11 DEF Accept
<1>13. BatchOk'
  BY <1>1, DoneBatch DEF Accept
<1>14. QED BY <1>12, <1>13 DEF IndInv

LEMMA OnConnFacts ==
    ASSUME IndInv, OnConn
    PROVE  Event.fd \in Fds /\ conns[Event.fd].gen \in Gens /\ at # "wait"
<1>1. at = "event" /\ Event.fd # Listener /\ conns[Event.fd].gen # 0
  BY DEF OnConn, InUse
<1>2. Event.fd \in Fds
  BY <1>1, EventInHand
<1>3. StateOk(conns, timers, asked, got, next_gen)
  BY DEF IndInv
<1>4. conns[Event.fd].gen \in Gens \cup {0}
  BY <1>2, <1>3, StateTypes
<1>5. QED BY <1>1, <1>2, <1>4

LEMMA CloseStep == ASSUME IndInv, HangUp \/ ReadEnd PROVE IndInv'
<1>1. StateOk(conns, timers, asked, got, next_gen)
  BY DEF IndInv
<1>2. /\ OnConn /\ conns' = [conns EXCEPT ![Event.fd] = NoConn] /\ EventDone
      /\ UNCHANGED <<timers, asked, got, next_gen>>
  BY DEF HangUp, ReadEnd
<1>3. Event.fd \in Fds /\ conns[Event.fd].gen \in Gens /\ at # "wait"
  BY <1>2, OnConnFacts
<1>4. StateOk([conns EXCEPT ![Event.fd] = NoConn], timers, asked, got, next_gen)
  BY <1>1, <1>3, Closed
<1>5. BatchOk'
  BY <1>2, <1>3, DoneBatch
<1>6. QED BY <1>2, <1>4, <1>5 DEF IndInv

LEMMA ReadStep == ASSUME IndInv, Read PROVE IndInv'
<1> DEFINE f == Event.fd
<1>1. StateOk(conns, timers, asked, got, next_gen)
  BY DEF IndInv
<1>2. f \in Fds /\ conns[f].gen \in Gens /\ at # "wait"
  BY OnConnFacts DEF Read
<1>0. PICK n \in 0 .. MaxLines : \E ls \in [1 .. n -> Kinds] :
         /\ Len(asked[conns[f].gen]) + Len(conns[f].lb) + n <= MaxLines
         /\ conns' = [conns EXCEPT ![f].lb = @ \o ls]
  BY DEF Read
<1>3. PICK ls \in [1 .. n -> Kinds] :
         /\ Len(asked[conns[f].gen]) + Len(conns[f].lb) + n <= MaxLines
         /\ conns' = [conns EXCEPT ![f].lb = @ \o ls]
  BY <1>0
<1>4. ls \in Seq(Kinds) /\ Len(ls) = n
  <2>1. n \in Nat /\ DOMAIN ls = 1 .. n
    BY FdsAreNat
  <2>2. ls \in Seq(Kinds)
    BY <2>1
  <2>3. QED BY <2>1, <2>2, LenProperties
<1>5. StateOk([conns EXCEPT ![f].lb = @ \o ls], timers, asked, got, next_gen)
  BY <1>1, <1>2, <1>3, <1>4, Received
<1>6. BatchOk'
  <2>1. conns \in [Fds -> Conn]
    BY <1>1, StateTypes
  <2>2. conns'[f].gen = conns[f].gen
    BY <1>2, <1>3, <2>1 DEF Conn
  <2>3. conns'[f].gen # 0
    BY <2>2, <1>2, FdsAreNat
  <2>4. QED BY <2>3, <1>2, SameBatch DEF Read
<1>7. QED BY <1>3, <1>5, <1>6 DEF IndInv, Read

LEMMA IdleStep == ASSUME IndInv, AcceptFails \/ WriteOnly \/ NoMoreLines \/ Ignore PROVE IndInv'
<1>1. StateOk(conns, timers, asked, got, next_gen)
  BY DEF IndInv
<1>2. UNCHANGED <<conns, timers, asked, got, next_gen>>
  BY DEF AcceptFails, WriteOnly, NoMoreLines, Ignore
<1>3. BatchOk'
  <2>1. CASE AcceptFails \/ Ignore
    <3>1. at # "wait" /\ EventDone
      BY <2>1 DEF AcceptFails, Ignore
    <3>2. QED BY <3>1, DoneBatch
  <2>2. CASE WriteOnly
    <3>1. OnConn /\ batch' = batch /\ at' = "out"
      BY <2>2 DEF WriteOnly
    <3>2. QED BY <3>1, OnConnFacts, SameBatch
  <2>3. CASE NoMoreLines
    <3>1. at = "lines" /\ batch' = batch /\ at' = "out"
      BY <2>3 DEF NoMoreLines
    <3>2. Event.fd \in Fds
      BY <3>1 DEF IndInv, BatchOk
    <3>3. QED BY <3>1, <3>2, SameBatch
  <2>4. QED BY <2>1, <2>2, <2>3
<1>4. QED BY <1>1, <1>2, <1>3 DEF IndInv

\* What the handlers of a line start from.
Lined(f, g, k) ==
    LET ds == [conns EXCEPT ![f] = Taken]
    IN /\ f = Event.fd /\ g = conns[f].gen /\ at = "lines"
       /\ asked' = [asked EXCEPT ![g] = Append(@, k)]
       /\ Awaits(ds, timers, asked', got, next_gen, g, Len(asked[g]) + 1)
       /\ ds[f] = Taken /\ Taken \in Conn /\ ConnOk(Taken) /\ Taken.gen = g
       /\ Reply(g, Len(asked[g]) + 1) \in Seq(Part) /\ Len(asked[g]) + 1 \in Nat \ {0}

LEMMA LineFacts ==
    ASSUME IndInv, NEW k \in Kinds, Line(k)
    PROVE  \E f \in Fds : \E g \in Gens : Lined(f, g, k)
<1> DEFINE f == Event.fd
           g == conns[f].gen
           ds == [conns EXCEPT ![f] = Taken]
           l == Len(asked[g]) + 1
<1>1. StateOk(conns, timers, asked, got, next_gen)
  BY DEF IndInv
<1>2. /\ at = "lines" /\ conns[f].gen # 0 /\ conns[f].lb # << >>
      /\ asked' = [asked EXCEPT ![g] = Append(@, k)]
  BY DEF Line, InUse, Gen
<1>3. f \in Fds
  BY <1>2 DEF IndInv, BatchOk
<1>4. g \in Gens
  <2>1. conns[f].gen \in Gens \cup {0}
    BY <1>1, <1>3, StateTypes
  <2>2. QED BY <2>1, <1>2
<1>5. Awaits(ds, timers, asked', got, next_gen, g, l)
  <2>1. Taken = [conns[f] EXCEPT !.lb = Tail(@)]
    BY DEF Taken
  <2>2. QED BY <2>1, <1>1, <1>2, <1>3, <1>4, Asked
<1>6. /\ conns \in [Fds -> Conn] /\ Len(asked[g]) \in Nat /\ conns[f].lb \in Seq(Kinds)
      /\ SlotsIn(conns, timers, asked, next_gen) /\ Len(conns[f].lb) \in Nat
  BY <1>1, <1>3, <1>4, StateTypes
<1>7. Tail(conns[f].lb) \in Seq(Kinds)
  BY <1>2, <1>6, HeadTailProperties
<1>8. /\ Taken \in Conn /\ Taken.gen = g /\ Taken.out = conns[f].out /\ Taken.want = conns[f].want
      /\ Taken.close_after_flush = conns[f].close_after_flush
  BY <1>3, <1>6, <1>7 DEF Taken, Conn
<1>9. ConnOk(Taken)
  <2>1. ConnOk(conns[f])
    BY <1>3, <1>6 DEF SlotsIn
  <2>2. QED BY <2>1, <1>2, <1>8 DEF ConnOk
<1>10. ds[f] = Taken
  BY <1>3, <1>6
<1>11. Reply(g, l) \in Seq(Part)
  <2>1. PICK m \in Nat, n \in Nat : m = Len(asked[g]) /\ n = Len(conns[f].lb)
    BY <1>6
  <2>2. m + n <= MaxLines /\ n # 0
    <3>1. m + n <= MaxLines
      BY <2>1, <1>1, <1>3, <1>4, OpenStreamOf DEF StreamOf
    <3>2. n # 0
      BY <2>1, <1>2, <1>6, EmptySeq
    <3>3. QED BY <3>1, <3>2
  <2>3. m + 1 \in 0 .. MaxLines
    BY <2>2, FdsAreNat
  <2>4. Reply(g, m + 1) \in Seq(Part)
    BY <2>3, <1>4, ReplyType
  <2>5. QED BY <2>1, <2>4
<1>12. Lined(f, g, k)
  BY <1>2, <1>5, <1>6, <1>8, <1>9, <1>10, <1>11 DEF Lined
<1>13. QED BY <1>3, <1>4, <1>12

\* The end of Say and Quit: what became of the reply is applied.
LEMMA ReplyStep ==
    ASSUME IndInv, NEW f \in Fds, NEW g \in Gens, NEW k, Lined(f, g, k),
           NEW d, NEW took, Outcome(Taken, Reply(g, Len(asked[g]) + 1), d, took)
    PROVE  StateOk([conns EXCEPT ![f] = d], timers, asked', [got EXCEPT ![g] = @ \o took], next_gen)
<1> DEFINE ds == [conns EXCEPT ![f] = Taken]
           l == Len(asked[g]) + 1
<1>1. StateOk(conns, timers, asked, got, next_gen)
  BY DEF IndInv
<1>2. conns \in [Fds -> Conn]
  BY <1>1, StateTypes
<1>3. [ds EXCEPT ![f] = d] = [conns EXCEPT ![f] = d]
  BY <1>2
<1>4. /\ StateOk(ds, timers, asked', got, next_gen) /\ Fresh(ds, timers, asked', got, g, l)
      /\ ds[f].gen = g /\ Outcome(ds[f], Reply(g, l), d, took)
  BY DEF Lined, Awaits
<1> HIDE DEF ds, l
<1>5. StateOk([ds EXCEPT ![f] = d], timers, asked', [got EXCEPT ![g] = @ \o took], next_gen)
  BY <1>4, SentReply
<1>6. QED BY <1>3, <1>5

LEMMA SayStep == ASSUME IndInv, Say PROVE IndInv'
<1>1. PICK f \in Fds, g \in Gens : Lined(f, g, "say")
  BY LineFacts DEF Say, Kinds
<1>2. f = Event.fd /\ g = conns[f].gen /\ Gen = g /\ at = "lines" /\ Taken.gen = g /\ g # 0
  BY <1>1, FdsAreNat DEF Lined, Gen
<1>3. PICK r \in conn_send(Taken, Reply(g, Len(asked[g]) + 1)) : Apply(f, r)
  BY <1>2 DEF Say
<1>4. conns' = [conns EXCEPT ![f] = r.c] /\ got' = [got EXCEPT ![g] = @ \o r.took]
  BY <1>2, <1>3 DEF Apply
<1>5. Outcome(Taken, Reply(g, Len(asked[g]) + 1), r.c, r.took)
  BY <1>1, <1>2, <1>3, SendOutcome DEF Lined
<1>6. StateOk([conns EXCEPT ![f] = r.c], timers, asked', [got EXCEPT ![g] = @ \o r.took], next_gen)
  BY <1>1, <1>5, ReplyStep
<1>7. StateOk(conns', timers', asked', got', next_gen')
  BY <1>4, <1>6 DEF Say
<1>8. BatchOk'
  BY <1>2, SameBatch DEF Say, AfterLine
<1>9. QED BY <1>7, <1>8 DEF IndInv

LEMMA QuitStep == ASSUME IndInv, Quit PROVE IndInv'
<1>1. PICK f \in Fds, g \in Gens : Lined(f, g, "quit")
  BY LineFacts DEF Quit, Kinds
<1>2. f = Event.fd /\ g = conns[f].gen /\ Gen = g /\ at = "lines" /\ Taken.gen = g /\ g # 0
  BY <1>1, FdsAreNat DEF Lined, Gen
<1> DEFINE R == Reply(g, Len(asked[g]) + 1)
<1>3. PICK r \in conn_send(Taken, R) :
        Apply(f, [r EXCEPT !.c = IF r.c.out = << >> THEN NoConn
                                 ELSE [r.c EXCEPT !.close_after_flush = TRUE]])
  BY <1>2 DEF Quit
<1> DEFINE e == IF r.c.out = << >> THEN NoConn ELSE [r.c EXCEPT !.close_after_flush = TRUE]
<1>4. \E x, y : r = [c |-> x, took |-> y]
  BY SentPair
<1>5. conns' = [conns EXCEPT ![f] = e] /\ got' = [got EXCEPT ![g] = @ \o r.took]
  <2>1. PICK x, y : r = [c |-> x, took |-> y]
    BY <1>4
  <2>2. [r EXCEPT !.c = e].c = e /\ [r EXCEPT !.c = e].took = r.took
    BY <2>1
  <2>3. Apply(f, [r EXCEPT !.c = e])
    BY <1>3
  <2> HIDE DEF e
  <2>4. QED BY <2>2, <2>3, <1>2 DEF Apply
<1>6. Outcome(Taken, R, r.c, r.took)
  BY <1>1, <1>2, <1>3, SendOutcome DEF Lined
<1>7. Outcome(Taken, R, e, r.took)
  BY <1>1, <1>6, QuitOutcome DEF Lined
<1> HIDE DEF e
<1>8. StateOk([conns EXCEPT ![f] = e], timers, asked', [got EXCEPT ![g] = @ \o r.took], next_gen)
  BY <1>1, <1>7, ReplyStep
<1>9. StateOk(conns', timers', asked', got', next_gen')
  BY <1>5, <1>8 DEF Quit
<1>10. BatchOk'
  BY <1>2, SameBatch DEF Quit
<1>11. QED BY <1>9, <1>10 DEF IndInv

LEMMA NapStep == ASSUME IndInv, Nap PROVE IndInv'
<1>1. PICK f \in Fds, g \in Gens : Lined(f, g, "nap")
  BY LineFacts DEF Nap, Kinds
<1>2. f = Event.fd /\ at = "lines" /\ conns' = [conns EXCEPT ![f] = Taken]
      /\ conns'[f].gen = g /\ g # 0
  BY <1>1, FdsAreNat DEF Lined, Nap
<1>3. StateOk(conns', timers', asked', got', next_gen')
  BY <1>1, <1>2 DEF Lined, Awaits, Nap
<1>4. BatchOk'
  BY <1>2, SameBatch DEF Nap
<1>5. QED BY <1>3, <1>4 DEF IndInv

LEMMA SleepStep == ASSUME IndInv, Sleep PROVE IndInv'
<1>1. PICK f \in Fds, g \in Gens : Lined(f, g, "sleep")
  BY LineFacts DEF Sleep, Kinds
<1> DEFINE ds == [conns EXCEPT ![f] = Taken]
           l == Len(asked[g]) + 1
<1>2. f = Event.fd /\ at = "lines" /\ conns' = ds /\ ds[f].gen = g /\ g # 0 /\ Gen = g
      /\ conns[f].gen = g /\ l # 0
  BY <1>1, FdsAreNat DEF Lined, Sleep, Gen
<1>3. Awaits(ds, timers, asked', got, next_gen, g, l)
  BY <1>1 DEF Lined
<1>4. StateOk(ds, timers', asked', got, next_gen)
  <2>1. CASE FreeFds = {}
    BY <2>1, <1>3 DEF Sleep, Awaits
  <2>2. CASE FreeFds # {}
    <3> DEFINE h == Min(FreeFds)
    <3>1. h \in Fds /\ conns[h].gen = 0 /\ timers[h].gen = 0
      BY <2>2, FreeFd
    <3>2. timers' = [timers EXCEPT ![h] = [gen |-> g, fd |-> f, line |-> l]]
      BY <2>2, <1>2 DEF Sleep
    <3> HIDE DEF h
    <3>3. StateOk(conns, timers, asked, got, next_gen)
      BY DEF IndInv
    <3>4. conns \in [Fds -> Conn]
      BY <3>3, StateTypes
    <3>5. ds[h].gen = 0
      BY <3>1, <3>4, <1>2
    <3> HIDE DEF ds, l
    <3>6. StateOk(ds, [timers EXCEPT ![h] = [gen |-> g, fd |-> f, line |-> l]], asked', got, next_gen)
      BY <3>1, <3>5, <1>2, <1>3, TimerStarted
    <3>7. QED BY <3>2, <3>6
  <2>3. QED BY <2>1, <2>2
<1>5. BatchOk'
  BY <1>2, SameBatch DEF Sleep
<1>6. QED BY <1>2, <1>4, <1>5 DEF IndInv, Sleep

LEMMA WriteStep == ASSUME IndInv, Write PROVE IndInv'
<1> DEFINE f == Event.fd
           g == conns[f].gen
<1>1. StateOk(conns, timers, asked, got, next_gen) /\ at = "out" /\ EventDone
      /\ UNCHANGED <<timers, asked, next_gen>>
  BY DEF IndInv, Write
<1>2. f \in Fds
  BY <1>1 DEF IndInv, BatchOk
<1>3. BatchOk'
  BY <1>1, DoneBatch
<1>4. CASE InUse(f) /\ "out" \in Event.ev
  <2>1. \E least \in Nat : \E r \in conn_try_flush(conns[f], least) : Apply(f, r)
    <3>1. (IF Owner(f) = Event.owner THEN 1 ELSE 0) \in Nat
      OBVIOUS
    <3>2. QED BY <3>1, <1>4 DEF Write
  <2>2. PICK least \in Nat : \E r \in conn_try_flush(conns[f], least) : Apply(f, r)
    BY <2>1
  <2>3. PICK r \in conn_try_flush(conns[f], least) : Apply(f, r)
    BY <2>2
  <2>4. conns \in [Fds -> Conn] /\ conns[f].gen \in Gens \cup {0} /\ conns[f].gen # 0
    BY <1>1, <1>2, <1>4, StateTypes DEF InUse
  <2>5. Outcome(conns[f], << >>, r.c, r.took)
    BY <2>4, <1>2, FlushOutcome
  <2>6. StateOk([conns EXCEPT ![f] = r.c], timers, asked, [got EXCEPT ![g] = @ \o r.took], next_gen)
    BY <2>4, <2>5, <1>1, <1>2, SentQueued
  <2>7. QED BY <2>3, <2>6, <1>1, <1>3 DEF IndInv, Apply
<1>5. CASE ~(InUse(f) /\ "out" \in Event.ev)
  <2>1. UNCHANGED <<conns, got>>
    BY <1>5 DEF Write
  <2>2. QED BY <2>1, <1>1, <1>3 DEF IndInv
<1>6. QED BY <1>4, <1>5

LEMMA TimerStep == ASSUME IndInv, handle_timer PROVE IndInv'
<1> DEFINE h == Event.fd
           t == timers[h]
           us == [timers EXCEPT ![h] = NoTimer]
<1>1. /\ StateOk(conns, timers, asked, got, next_gen) /\ at = "event" /\ EventDone
      /\ UNCHANGED <<asked, next_gen>> /\ timers' = us /\ h # Listener /\ t.gen # 0
  BY DEF IndInv, handle_timer, OnTimer
<1>2. h \in Fds
  BY <1>1, EventInHand
<1>3. timers \in [Fds -> Timer] /\ conns \in [Fds -> Conn] /\ SlotsIn(conns, timers, asked, next_gen)
  BY <1>1, StateTypes
<1>4. t.gen \in Gens /\ t.fd \in Fds /\ t.line \in 0 .. MaxLines
  BY <1>1, <1>2, <1>3 DEF Timer, SlotsIn
<1>5. Awaits(conns, us, asked, got, next_gen, t.gen, t.line)
  BY <1>1, <1>2, <1>4, TimerRemoved
<1>6. BatchOk'
  BY <1>1, DoneBatch
<1>7. CASE StillThere(t)
  <2>1. conns[t.fd].gen = t.gen /\ t.gen # 0
    BY <1>7, <1>1 DEF StillThere
  <2>2. PICK r \in conn_send(conns[t.fd], Reply(t.gen, t.line)) : Apply(t.fd, r)
    BY <1>7 DEF handle_timer
  <2>3. ConnOk(conns[t.fd]) /\ conns[t.fd] \in Conn
    BY <1>3, <1>4 DEF SlotsIn
  <2>4. Reply(t.gen, t.line) \in Seq(Part)
    BY <1>4, ReplyType
  <2>5. Outcome(conns[t.fd], Reply(t.gen, t.line), r.c, r.took)
    BY <2>1, <2>2, <2>3, <2>4, SendOutcome
  <2>6. StateOk(conns, us, asked, got, next_gen) /\ Fresh(conns, us, asked, got, t.gen, t.line)
    BY <1>5 DEF Awaits
  <2> HIDE DEF us, t
  <2>7. StateOk([conns EXCEPT ![t.fd] = r.c], us, asked, [got EXCEPT ![t.gen] = @ \o r.took], next_gen)
    BY <2>1, <2>5, <2>6, <1>4, SentReply
  <2>8. QED BY <2>1, <2>2, <2>7, <1>1, <1>6 DEF IndInv, Apply
<1>8. CASE ~StillThere(t)
  <2>1. UNCHANGED <<conns, got>>
    BY <1>8 DEF handle_timer
  <2>2. QED BY <2>1, <1>1, <1>5, <1>6 DEF IndInv, Awaits
<1>9. QED BY <1>7, <1>8

-----------------------------------------------------------------------------
(* The theorems *)

LEMMA EpollStarts == EpollInit => IndInv
<1> SUFFICES ASSUME EpollInit
             PROVE  IndInv
  OBVIOUS
<1>1. /\ \A f \in Fds : conns[f] = NoConn /\ timers[f] = NoTimer
      /\ \A g \in Gens : asked[g] = << >> /\ got[g] = << >>
      /\ batch = << >> /\ at = "wait" /\ next_gen = 1
  BY DEF EpollInit
<1>2. TypesIn(conns, timers, asked, got, next_gen)
  <2>1. NoTimer \in Timer /\ NoConn \in Conn
    BY FdsAreNat, BlankConn DEF NoTimer, Timer
  <2>2. << >> \in Seq(Kinds) /\ << >> \in Seq(Part) /\ 1 \in 1 .. MaxConns + 1
    BY FdsAreNat
  <2>3. QED BY <2>1, <2>2 DEF TypesIn, EpollInit
<1>3. SlotsIn(conns, timers, asked, next_gen)
  <2>1. \A f \in Fds : ConnOk(conns[f]) /\ conns[f].gen = 0 /\ timers[f].gen = 0
    BY <1>1, BlankConn DEF NoTimer
  <2>2. QED BY <2>1 DEF SlotsIn
<1>4. UnbornIn(asked, got, next_gen)
  BY <1>1 DEF UnbornIn
<1>5. StreamsIn(conns, timers, asked, got)
  <2> SUFFICES ASSUME NEW g \in Gens
               PROVE  StreamIn(conns, got, g) = << >> /\ \A f \in Fds : timers[f].gen # g /\ conns[f].gen # g
    BY DEF StreamsIn, WholeReplies
  <2>1. \A f \in Fds : timers[f].gen # g /\ conns[f].gen # g
    BY <1>1, FdsAreNat, BlankConn DEF NoTimer
  <2>2. got[g] = << >>
    BY <1>1
  <2>3. got[g] \in Seq(Part)
    BY <2>2
  <2>4. StreamIn(conns, got, g) = << >>
    <3>1. StreamIn(conns, got, g) = got[g]
      BY <2>1, <2>3, StreamClosed
    <3>2. QED BY <3>1, <2>2
  <2>5. QED BY <2>1, <2>4
<1>6. BatchOk
  BY <1>1 DEF BatchOk
<1>7. QED BY <1>2, <1>3, <1>4, <1>5, <1>6 DEF IndInv, StateOk

LEMMA EpollSteps == IndInv /\ [EpollNext]_server => IndInv'
<1> SUFFICES ASSUME IndInv, [EpollNext]_server
             PROVE  IndInv'
  OBVIOUS
<1>1. CASE EpollWait
  BY <1>1, WaitStep
<1>2. CASE Accept
  BY <1>2, AcceptStep
<1>3. CASE AcceptFails \/ WriteOnly \/ NoMoreLines \/ Ignore
  BY <1>3, IdleStep
<1>4. CASE HangUp \/ ReadEnd
  BY <1>4, CloseStep
<1>5. CASE Read
  BY <1>5, ReadStep
<1>6. CASE Say
  BY <1>6, SayStep
<1>7. CASE Nap
  BY <1>7, NapStep
<1>8. CASE Sleep
  BY <1>8, SleepStep
<1>9. CASE Quit
  BY <1>9, QuitStep
<1>10. CASE Write
  BY <1>10, WriteStep
<1>11. CASE handle_timer
  BY <1>11, TimerStep
<1>12. CASE UNCHANGED server
  BY <1>12 DEF server, IndInv, StateOk, TypesIn, SlotsIn, UnbornIn, StreamsIn, BatchOk, Event
<1>13. QED BY <1>1, <1>2, <1>3, <1>4, <1>5, <1>6, <1>7, <1>8, <1>9, <1>10, <1>11, <1>12
           DEF EpollNext, Handle

LEMMA EpollMeans == IndInv => EpollSound
<1> SUFFICES ASSUME IndInv
             PROVE  EpollSound
  OBVIOUS
<1>1. StateOk(conns, timers, asked, got, next_gen) /\ BatchOk
  BY DEF IndInv
<1>2. EpollTypes
  BY <1>1 DEF StateOk, TypesIn, BatchOk, EpollTypes
<1>3. TablesSound
  <2>1. SlotsIn(conns, timers, asked, next_gen)
    BY <1>1 DEF StateOk
  <2>2. QED BY <2>1 DEF SlotsIn, ConnOk, TablesSound, InUse
<1>4. OwnWholeReplies
  <2>1. \A g \in Gens : WholeReplies(StreamIn(conns, got, g), g)
    BY <1>1 DEF StateOk, StreamsIn
  <2>2. \A g \in Gens : Stream(g) = StreamIn(conns, got, g)
    BY DEF Stream, StreamIn
  <2>3. QED BY <2>1, <2>2 DEF OwnWholeReplies
<1>5. QED BY <1>2, <1>3, <1>4 DEF EpollSound

\* Along every behaviour of the loop the tables, the streams and the batch keep
\* to one another: a line is answered, or has one timer, or is still to be
\* handled, and only output of open connections is ever queued.
THEOREM EpollInvariant == EpollSpec => []IndInv
BY EpollStarts, EpollSteps, PTL DEF EpollSpec

\* Whatever order events come in, however send() cuts replies and whenever
\* descriptors are given out again, a peer's stream is made of whole replies to
\* its own lines, each at most once, and the tables never disagree
\* (conn_send, conn_try_flush, handle_timer, close_conn).
THEOREM RepliesReachTheirPeer == EpollSpec => []EpollSound
BY EpollInvariant, EpollMeans, PTL
=============================================================================

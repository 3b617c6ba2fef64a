-------------------------- MODULE MqttBrokerProofs --------------------------
(***************************************************************************)
(* The client table of the MQTT broker for any number of clients, ids,      *)
(* filters and topics, any keepalive and any queue length; and the broker   *)
(* as an implementation of the bus that its clients see.                    *)
(***************************************************************************)
EXTENDS MqttBroker, BoundedInduction, FiniteSetTheorems, SequenceTheorems

\* What holds of one slot whatever the others hold: a free one is blank, and
\* one that has not been CONNECTed has no id, no subscription and nothing
\* queued but a refusal.
SlotOk(c) ==
    /\ c.fd = Closed => c = Zeroed
    /\ c.closing => ~c.connected /\ c.out # << >>
    /\ ~c.connected => c.id = NoId /\ c.subs = << >> /\ (c.closing \/ c.out = << >>)

Distinct ==
    \A s, r \in Slots : s # r /\ Open(s) => clients[r].fd # clients[s].fd

\* While the polled slots are served, a slot that still has the descriptor it
\* was polled with has the same connection: until the first of them is served
\* nothing was closed, so a connection accepted in this round is in a slot that
\* was not polled.
PolledSeen ==
    /\ pc = "accept" => \A s \in Slots : polled[s] = clients[s].fd /\ (Open(s) => clients[s].seen)
    /\ pc \in {"serve", "read"} =>
         \A s \in Slots : Open(s) /\ polled[s] = clients[s].fd => clients[s].seen

IndInv ==
    /\ TypeOK
    /\ \A s \in Slots : SlotOk(clients[s])
    /\ Distinct /\ OneSession /\ PolledSeen

-----------------------------------------------------------------------------
(* One slot *)

LEMMA ZeroedOk ==
    /\ Zeroed \in Client /\ SlotOk(Zeroed)
    /\ Zeroed.fd = Closed /\ ~Zeroed.connected /\ ~Zeroed.closing /\ Zeroed.id = NoId
BY BrokerAssumption DEF Zeroed, Client, SlotOk

\* What a step may do to slot c: close it, or go on with the same connection
\* under the same id.
Follows(c, d) ==
    /\ d \in Client /\ SlotOk(d)
    /\ d.fd # Closed => d.fd = c.fd /\ d.id = c.id /\ (c.seen => d.seen)

LEMMA StaysFollows ==
    ASSUME NEW c \in Client, SlotOk(c)
    PROVE  Follows(c, c)
BY DEF Follows

LEMMA ZeroedFollows ==
    ASSUME NEW c
    PROVE  Follows(c, Zeroed)
BY ZeroedOk DEF Follows

LEMMA QueueFollows ==
    ASSUME NEW c \in Client, SlotOk(c), c.connected, NEW p \in Packets
    PROVE  Follows(c, queue(c, p)) /\ queue(c, p).connected
<1>1. c.out \in Seq(Packets)
  BY DEF Client
<1>2. Append(c.out, p) \in Seq(Packets) /\ Append(c.out, p) # << >>
  BY <1>1
<1>3. c.fd # Closed
  BY DEF SlotOk, Zeroed
<1>4. QED BY <1>2, <1>3 DEF Client, queue, Follows, SlotOk

LEMMA FlushFollows ==
    ASSUME NEW c \in Client, SlotOk(c), c.fd # Closed, c.out # << >>, NEW d \in flush(c)
    PROVE  Follows(c, d)
<1>1. CASE d = Zeroed
  BY <1>1, ZeroedFollows
<1>2. CASE \E n \in 0 .. Len(c.out) - 1 : d = [c EXCEPT !.out = SubSeq(c.out, n + 1, Len(c.out))]
  <2>1. PICK n \in 0 .. Len(c.out) - 1 : d = [c EXCEPT !.out = SubSeq(c.out, n + 1, Len(c.out))]
    BY <1>2
  <2>2. c.out \in Seq(Packets)
    BY DEF Client
  <2>3. /\ SubSeq(c.out, n + 1, Len(c.out)) \in Seq(Packets)
        /\ SubSeq(c.out, n + 1, Len(c.out)) # << >>
    <3>1. \A i \in n + 1 .. Len(c.out) : c.out[i] \in Packets
      BY <2>2, ElementOfSeq
    <3>2. /\ SubSeq(c.out, n + 1, Len(c.out)) \in Seq(Packets)
          /\ Len(SubSeq(c.out, n + 1, Len(c.out))) # 0
      BY <2>2, <3>1, SubSeqProperties
    <3>3. Len(<< >>) = 0
      OBVIOUS
    <3>4. QED BY <3>2, <3>3
  <2>4. QED BY <2>1, <2>3 DEF Client, Follows, SlotOk
<1>3. CASE ~c.closing /\ d = [c EXCEPT !.out = << >>]
  <2>1. << >> \in Seq(Packets)
    OBVIOUS
  <2>2. QED BY <1>3, <2>1 DEF Client, Follows, SlotOk
<1>4. c.out \in Seq(Packets) /\ Len(c.out) \in Nat /\ Len(c.out) # 0
  BY DEF Client
<1>5. QED BY <1>1, <1>2, <1>3, <1>4 DEF flush

\* One filter more or less changes nothing of a slot but its subscriptions.
LEMMA FilterStep ==
    ASSUME NEW c \in Client, NEW f \in Filters \cup {BadFilter}
    PROVE  /\ \E l \in Seq(Filters) : subscribe(c, f) = [c EXCEPT !.subs = l]
           /\ \E l \in Seq(Filters) : remove_sub(c, f) = [c EXCEPT !.subs = l]
<1>1. c.subs \in Seq(Filters) /\ c = [c EXCEPT !.subs = c.subs]
  BY DEF Client
<1>2. \E l \in Seq(Filters) : subscribe(c, f) = [c EXCEPT !.subs = l]
  <2>1. CASE subscribe(c, f) = c
    BY <1>1, <2>1
  <2>2. CASE f \in Filters /\ subscribe(c, f) = [c EXCEPT !.subs = Append(c.subs, f)]
    <3>1. Append(c.subs, f) \in Seq(Filters)
      BY <1>1, <2>2
    <3>2. QED BY <2>2, <3>1
  <2>3. QED BY <2>1, <2>2 DEF subscribe, add_sub
<1>3. \E l \in Seq(Filters) : remove_sub(c, f) = [c EXCEPT !.subs = l]
  <2> DEFINE at == {i \in DOMAIN c.subs : c.subs[i] = f}
  <2>1. CASE at = {}
    BY <1>1, <2>1 DEF remove_sub
  <2>2. CASE at # {}
    <3>1. at \in SUBSET Nat
      BY <1>1
    <3>2. PICK m \in at : \A x \in at : m <= x
      BY <2>2, <3>1, LeastExists
    <3>3. Min(at) = m
      BY <3>1, <3>2 DEF Min
    <3>4. RemoveAt(c.subs, m) \in Seq(Filters)
      <4>1. m \in 1 .. Len(c.subs) /\ Len(c.subs) \in Nat
        BY <1>1
      <4>2. \A i \in 1 .. Len(c.subs) : c.subs[i] \in Filters
        BY <1>1
      <4>3. SubSeq(c.subs, 1, m - 1) \in Seq(Filters) /\ SubSeq(c.subs, m + 1, Len(c.subs)) \in Seq(Filters)
        BY <4>1, <4>2, SubSeqProperties
      <4>4. QED BY <4>3, ConcatProperties DEF RemoveAt
    <3>5. remove_sub(c, f) = [c EXCEPT !.subs = RemoveAt(c.subs, m)]
      BY <2>2, <3>3 DEF remove_sub
    <3>6. QED BY <3>4, <3>5
  <2>3. QED BY <2>1, <2>2
<1>4. QED BY <1>2, <1>3

\* Slots c and d differ in their subscriptions at most.
Resubscribed(c, d) == \E l \in Seq(Filters) : d = [c EXCEPT !.subs = l]

\* The loop of handle_subscribe, over any number of filters.
LEMMA EachFilter ==
    ASSUME NEW c \in Client, NEW sub \in BOOLEAN, NEW fs \in Seq(Filters \cup {BadFilter})
    PROVE  Resubscribed(c, each_filter(c, sub, fs))
<1> DEFINE L == Len(fs)
           turn(d, f) == IF sub THEN subscribe(d, f) ELSE remove_sub(d, f)
           Reach == {[c EXCEPT !.subs = l] : l \in Seq(Filters)}
           Loop_(g) == [n \in 0 .. L |-> IF n = 0 THEN c ELSE turn(g[n - 1], fs[n])]
           after == CHOOSE g : g = Loop_(g)
           step == [x \in (1 .. L) \X Client |-> turn(x[2], fs[x[1]])]
<1>1. L \in Nat /\ \A n \in 1 .. L : fs[n] \in Filters \cup {BadFilter}
  OBVIOUS
<1>2. \A d \in Client, l \in Seq(Filters) : [d EXCEPT !.subs = l] \in Client
  BY DEF Client
<1>3. \A d \in Client, n \in 1 .. L : turn(d, fs[n]) \in Client
  <2> SUFFICES ASSUME NEW d \in Client, NEW n \in 1 .. L
               PROVE  turn(d, fs[n]) \in Client
    OBVIOUS
  <2>1. fs[n] \in Filters \cup {BadFilter}
    BY <1>1
  <2>2. subscribe(d, fs[n]) \in Client /\ remove_sub(d, fs[n]) \in Client
    BY <1>2, <2>1, FilterStep
  <2>3. QED BY <2>2
<1>4. c \in Reach /\ \A d \in Reach, n \in 1 .. L : turn(d, fs[n]) \in Reach
  <2>1. c \in Reach
    <3>1. c.subs \in Seq(Filters) /\ c = [c EXCEPT !.subs = c.subs]
      BY DEF Client
    <3>2. QED BY <3>1
  <2>2. ASSUME NEW d \in Reach, NEW n \in 1 .. L
        PROVE  turn(d, fs[n]) \in Reach
    <3>1. d \in Client
      BY <1>2
    <3>2. PICK l \in Seq(Filters) : turn(d, fs[n]) = [d EXCEPT !.subs = l]
      BY <1>1, <3>1, FilterStep
    <3>3. [d EXCEPT !.subs = l] = [c EXCEPT !.subs = l]
      OBVIOUS
    <3>4. QED BY <3>2, <3>3
  <2>3. QED BY <2>1, <2>2
<1>5. \E g : g = Loop_(g)
  <2>1. step \in [(1 .. L) \X Client -> Client]
    BY <1>3
  <2>2. PICK g \in [0 .. L -> Client] : g[0] = c /\ \A n \in 1 .. L : g[n] = step[<<n, g[n - 1]>>]
    <3> HIDE DEF step, L
    <3>1. HasRun(Client, c, L, step)
      BY <1>1, <2>1, LoopRuns
    <3>2. QED BY <3>1 DEF HasRun
  <2>3. ASSUME NEW n \in 1 .. L
        PROVE  g[n] = turn(g[n - 1], fs[n])
    <3>1. n - 1 \in 0 .. L /\ g[n - 1] \in Client
      BY <1>1
    <3>2. step[<<n, g[n - 1]>>] = turn(g[n - 1], fs[n])
      BY <3>1
    <3>3. QED BY <2>2, <3>2
  <2>4. g = Loop_(g)
    <3> HIDE DEF turn, step, L
    <3> QED BY <1>1, <2>2, <2>3
  <2>5. QED BY <2>4
<1>6. after = Loop_(after)
  <2> HIDE DEF Loop_
  <2> QED BY <1>5
<1>7. each_filter(c, sub, fs) = after[L]
  BY DEF each_filter
<1> HIDE DEF after
<1>8. after[L] \in Reach
  <2> DEFINE In == {n \in 0 .. L : after[n] \in Reach}
  <2>1. 0 \in In
    BY <1>1, <1>4, <1>6
  <2>2. ASSUME NEW n \in 1 .. L, n - 1 \in In
        PROVE  n \in In
    <3> HIDE DEF Reach, turn
    <3>1. n \in 0 .. L /\ n # 0
      BY <1>1
    <3>2. after[n] = turn(after[n - 1], fs[n])
      BY <1>6, <3>1
    <3>3. QED BY <3>1, <3>2, <2>2, <1>4
  <2>3. \A n \in 0 .. L : n \in In
    <3> HIDE DEF In, L
    <3> QED BY <1>1, <2>1, <2>2, UpTo
  <2>4. QED BY <2>3, <1>1
<1>9. QED BY <1>7, <1>8 DEF Resubscribed

-----------------------------------------------------------------------------
(* The table *)

LEMMA SlotsFinite ==
    /\ Slots \subseteq Nat /\ 1 \in Slots /\ Closed \notin Slots
    /\ IsFiniteSet(Slots) /\ Cardinality(Slots) = MaxClients
<1>1. MaxClients \in Nat /\ MaxClients # 0
  BY BrokerAssumption
<1>2. IsFiniteSet(1 .. MaxClients) /\ Cardinality(1 .. MaxClients) = MaxClients
  BY <1>1, FS_Interval
<1>3. QED BY <1>1, <1>2 DEF Slots, Closed

LEMMA InitTable == Init => IndInv
<1> SUFFICES ASSUME Init
             PROVE  IndInv
  OBVIOUS
<1>1. clients \in [Slots -> Client] /\ \A s \in Slots : clients[s] = Zeroed
  BY ZeroedOk DEF Init
<1>2. TypeOK
  BY <1>1, SlotsFinite, BrokerAssumption DEF Init, TypeOK
<1>3. Distinct /\ OneSession
  BY <1>1, ZeroedOk DEF Distinct, OneSession, Open
<1>4. QED BY <1>1, <1>2, <1>3, ZeroedOk DEF IndInv, PolledSeen, Init

LEMMA TableKept ==
    ASSUME IndInv, clients' \in [Slots -> Client],
           \A s \in Slots : Follows(clients[s], clients'[s])
    PROVE  /\ \A s \in Slots : SlotOk(clients'[s])
           /\ Distinct' /\ OneSession'
<1>1. \A s \in Slots : Open(s)' =>
         Open(s) /\ clients'[s].fd = clients[s].fd /\ clients'[s].id = clients[s].id
  BY DEF Follows, Open
<1>2. Distinct'
  <2> SUFFICES ASSUME NEW s \in Slots, NEW r \in Slots, s # r, Open(s)'
               PROVE  clients'[r].fd # clients'[s].fd
    BY DEF Distinct
  <2>1. CASE Open(r)'
    BY <1>1, <2>1 DEF IndInv, Distinct
  <2>2. CASE ~Open(r)'
    BY <2>2 DEF Open
  <2>3. QED BY <2>1, <2>2
<1>3. OneSession'
  BY <1>1 DEF IndInv, OneSession
<1>4. QED BY <1>2, <1>3 DEF Follows

\* A step of the round after the accept, in which slots only go on or close.
LEMMA RoundKept ==
    ASSUME IndInv, clients' \in [Slots -> Client],
           \A s \in Slots : Follows(clients[s], clients'[s]),
           polled' = polled, k' \in Slots, npub' \in 0 .. MaxPubs,
           \/ pc \in {"serve", "read"} /\ pc' \in {"serve", "read", "tail"}
           \/ pc = "tail" /\ pc' \in {"tail", "poll"}
    PROVE  IndInv'
<1>1. TypeOK'
  BY DEF IndInv, TypeOK
<1>2. PolledSeen'
  BY DEF IndInv, PolledSeen, Follows, Open
<1>3. QED BY <1>1, <1>2, TableKept DEF IndInv

LEMMA OneSlot ==
    ASSUME IndInv, NEW d, clients' = [clients EXCEPT ![k] = d], Follows(clients[k], d)
    PROVE  clients' \in [Slots -> Client] /\ \A s \in Slots : Follows(clients[s], clients'[s])
<1>1. clients \in [Slots -> Client] /\ k \in Slots /\ d \in Client
  BY DEF IndInv, TypeOK, Follows
<1>2. \A s \in Slots : Follows(clients[s], clients[s])
  BY <1>1, StaysFollows DEF IndInv
<1>3. QED BY <1>1, <1>2

LEMMA SameSlots ==
    ASSUME IndInv, clients' = clients
    PROVE  clients' \in [Slots -> Client] /\ \A s \in Slots : Follows(clients[s], clients'[s])
BY StaysFollows DEF IndInv, TypeOK

LEMMA AdvanceOk ==
    ASSUME IndInv, NEW phase \in {"serve", "tail"}, Advance(phase)
    PROVE  k' \in Slots /\ pc' \in {phase, IF phase = "serve" THEN "tail" ELSE "poll"}
<1>1. MaxClients \in Nat /\ MaxClients # 0 /\ k \in 1 .. MaxClients
  BY BrokerAssumption DEF IndInv, TypeOK, Slots
<1>2. QED BY <1>1 DEF Advance, Slots

-----------------------------------------------------------------------------
(* The round *)

LEMMA MinOfTwo ==
    ASSUME NEW a \in Nat, NEW b \in Nat
    PROVE  Min({a, b}) = IF a <= b THEN a ELSE b
<1> DEFINE m == IF a <= b THEN a ELSE b
<1>1. m \in {a, b} /\ m \in Nat /\ \A y \in {a, b} : m <= y
  OBVIOUS
<1>2. \A x \in {a, b} : (\A y \in {a, b} : x <= y) => x = m
  OBVIOUS
<1> HIDE DEF m
<1>3. Min({a, b}) = m
  BY <1>1, <1>2 DEF Min
<1>4. QED BY <1>3 DEF m

LEMMA PollKept ==
    ASSUME IndInv, NEW n \in {0, 1}, Poll(n)
    PROVE  IndInv'
<1>1. clients \in [Slots -> Client] /\ \A s \in Slots : SlotOk(clients[s])
  BY DEF IndInv, TypeOK
<1> DEFINE older(c) == [c EXCEPT !.age = Min({MaxAge, c.age + n}), !.seen = TRUE]
<1>2. \A s \in Slots : clients'[s] = IF Open(s) THEN older(clients[s]) ELSE clients[s]
  BY DEF Poll
<1>3. ASSUME NEW s \in Slots, Open(s)
      PROVE  older(clients[s]) \in Client /\ Follows(clients[s], older(clients[s]))
  <2>1. clients[s] \in Client /\ clients[s].age \in 0 .. MaxAge /\ MaxAge \in Nat
    BY <1>1, BrokerAssumption DEF Client
  <2>2. Min({MaxAge, clients[s].age + n}) \in 0 .. MaxAge
    <3>1. clients[s].age + n \in Nat
      BY <2>1
    <3>2. QED BY <2>1, <3>1, MinOfTwo
  <2>3. older(clients[s]) \in Client
    BY <2>1, <2>2 DEF Client
  <2>4. SlotOk(older(clients[s]))
    BY <2>1, <1>1, <1>3 DEF Client, SlotOk, Open
  <2>5. older(clients[s]).id = clients[s].id /\ older(clients[s]).seen /\ older(clients[s]).fd = clients[s].fd
    BY <2>1 DEF Client
  <2>6. QED BY <2>3, <2>4, <2>5 DEF Follows
<1>4. ASSUME NEW s \in Slots
      PROVE  Follows(clients[s], clients'[s])
  BY <1>1, <1>2, <1>3, StaysFollows
<1>5. clients' \in [Slots -> Client]
  BY <1>1, <1>2, <1>3 DEF Poll
<1>6. polled' \in [Slots -> Slots \cup {Closed}]
  BY <1>1 DEF Poll, Client
<1>7. TypeOK'
  BY <1>5, <1>6, SlotsFinite DEF Poll, IndInv, TypeOK
<1>8. ASSUME NEW s \in Slots
      PROVE  polled'[s] = clients'[s].fd /\ (Open(s)' => clients'[s].seen)
  <2>1. CASE Open(s)
    <3>1. older(clients[s]).fd = clients[s].fd /\ older(clients[s]).seen
      BY <1>1 DEF Client
    <3>2. QED BY <1>2, <2>1, <3>1 DEF Poll
  <2>2. CASE ~Open(s)
    BY <1>2, <2>2 DEF Poll, Open
  <2>3. QED BY <2>1, <2>2
<1>9. PolledSeen'
  BY <1>8 DEF PolledSeen, Poll
<1>10. QED BY <1>4, <1>5, <1>7, <1>9, TableKept DEF IndInv

\* There is a descriptor for every slot: with a free slot one of them is free.
LEMMA NewFdFree ==
    ASSUME IndInv, NEW e \in Slots, ~Open(e)
    PROVE  NewFd \in Slots /\ \A s \in Slots : clients[s].fd # NewFd
<1> DEFINE free == {f \in Slots : \A s \in Slots : clients[s].fd # f}
<1>1. free # {}
  <2> SUFFICES ASSUME free = {}
               PROVE  FALSE
    OBVIOUS
  <2> DEFINE by == [f \in Slots |-> CHOOSE s \in Slots : clients[s].fd = f]
  <2>1. \A f \in Slots : \E s \in Slots : clients[s].fd = f
    OBVIOUS
  <2>2. \A f \in Slots : by[f] \in Slots /\ clients[by[f]].fd = f
    BY <2>1
  <2> HIDE DEF by
  <2>3. \A f \in Slots : by[f] # e
    BY <2>2, SlotsFinite DEF Open
  <2> DEFINE T == Slots \ {e}
  <2>4. by \in [Slots -> T]
    BY <2>2, <2>3 DEF by
  <2>5. IsFiniteSet(T) /\ Cardinality(T) = Cardinality(Slots) - 1
    BY SlotsFinite, FS_RemoveElement
  <2>6. Cardinality(T) < Cardinality(Slots) /\ IsFiniteSet(Slots)
    BY <2>5, SlotsFinite, BrokerAssumption
  <2> HIDE DEF T
  <2>7. by \in Injection(Slots, T)
    <3>1. \A x, y \in Slots : by[x] = by[y] => x = y
      BY <2>2
    <3>2. DOMAIN by = Slots
      BY <2>4
    <3>3. QED BY <2>4, <3>1, <3>2, Zenon DEF Injection, IsInjective
  <2>8. Cardinality(Slots) <= Cardinality(T)
    BY <2>5, <2>7, FS_Injection
  <2>9. QED BY <2>5, <2>6, <2>8, SlotsFinite, BrokerAssumption
<1>2. free \in SUBSET Nat
  BY SlotsFinite
<1>3. PICK m \in free : \A x \in free : m <= x
  BY <1>1, <1>2, LeastExists
<1>4. Min(free) = m
  BY <1>2, <1>3 DEF Min
<1>5. NewFd = m
  BY <1>4 DEF NewFd
<1>6. QED BY <1>3, <1>5

LEMMA AcceptKept ==
    ASSUME IndInv, NEW r \in BOOLEAN, Accept(r)
    PROVE  IndInv'
<1> DEFINE free == {s \in Slots : ~Open(s)}
           slot == Min(free)
           c == [Zeroed EXCEPT !.fd = NewFd, !.reads = r]
<1>1. slot \in Slots /\ ~Open(slot)
  <2>1. free # {} /\ free \in SUBSET Nat
    BY SlotsFinite DEF Accept
  <2>2. PICK m \in free : \A x \in free : m <= x
    BY <2>1, LeastExists
  <2>3. Min(free) = m
    BY <2>1, <2>2 DEF Min
  <2>4. QED BY <2>2, <2>3
<1>2. clients' = [clients EXCEPT ![slot] = c]
  BY DEF Accept
<1> HIDE DEF slot
<1>3. NewFd \in Slots /\ \A s \in Slots : clients[s].fd # NewFd
  BY <1>1, NewFdFree
<1>4. /\ c \in Client /\ SlotOk(c)
      /\ c.fd = NewFd /\ c.id = NoId
  BY <1>3, ZeroedOk, SlotsFinite DEF Client, SlotOk, Zeroed
<1> HIDE DEF c
<1>5. clients \in [Slots -> Client] /\ \A s \in Slots : SlotOk(clients[s])
  BY DEF IndInv, TypeOK
<1>6. /\ clients' \in [Slots -> Client] /\ \A s \in Slots : SlotOk(clients'[s])
      /\ clients'[slot] = c /\ \A s \in Slots : s # slot => clients'[s] = clients[s]
  BY <1>1, <1>2, <1>4, <1>5
<1>7. TypeOK'
  BY <1>6 DEF IndInv, TypeOK, Accept
<1>8. Distinct' /\ OneSession'
  BY <1>1, <1>3, <1>4, <1>6, SlotsFinite DEF IndInv, Distinct, OneSession, Open
<1>9. PolledSeen'
  <2> SUFFICES ASSUME NEW s \in Slots, Open(s)', polled[s] = clients'[s].fd
               PROVE  clients'[s].seen
    BY DEF PolledSeen, Accept
  <2>1. pc = "accept" /\ polled[s] = clients[s].fd /\ (Open(s) => clients[s].seen)
    BY DEF IndInv, PolledSeen, Accept
  <2>2. CASE s = slot
    BY <1>1, <1>3, <1>4, <1>6, <2>1, <2>2, SlotsFinite DEF Open
  <2>3. CASE s # slot
    BY <1>6, <2>1, <2>3 DEF Open
  <2>4. QED BY <2>2, <2>3
<1>10. QED BY <1>6, <1>7, <1>8, <1>9 DEF IndInv

LEMMA NoAcceptKept ==
    ASSUME IndInv, NoAccept
    PROVE  IndInv'
<1>1. Distinct' /\ OneSession' /\ \A s \in Slots : SlotOk(clients'[s])
  BY SameSlots, TableKept DEF NoAccept
<1>2. TypeOK' /\ PolledSeen'
  BY DEF IndInv, TypeOK, PolledSeen, NoAccept, Open
<1>3. QED BY <1>1, <1>2 DEF IndInv

LEMMA SkipKept ==
    ASSUME IndInv, Skip
    PROVE  IndInv'
<1>1. /\ pc = "serve" /\ polled' = polled /\ clients' = clients
      /\ npub' = npub /\ npub \in 0 .. MaxPubs
  BY DEF Skip, IndInv, TypeOK
<1>2. k' \in Slots /\ pc' \in {"serve", "tail"}
  BY AdvanceOk DEF Skip
<1>3. QED BY <1>1, <1>2, SameSlots, RoundKept

LEMMA ReadKept ==
    ASSUME IndInv, ReadData \/ ReadEnd
    PROVE  IndInv'
<1>1. /\ pc = "serve" /\ polled' = polled /\ k \in Slots /\ clients[k] \in Client /\ SlotOk(clients[k])
      /\ npub' = npub /\ npub \in 0 .. MaxPubs /\ clients[k].fd # Closed
  BY SlotsFinite DEF ReadData, ReadEnd, Serves, IndInv, TypeOK
<1>2. CASE ReadData
  <2> DEFINE d == [clients[k] EXCEPT !.age = 0]
  <2>1. Follows(clients[k], d)
    <3>1. 0 \in 0 .. MaxAge
      BY BrokerAssumption
    <3>2. d \in Client /\ d.fd = clients[k].fd /\ d.id = clients[k].id /\ d.seen = clients[k].seen
      BY <1>1, <3>1 DEF Client
    <3>3. SlotOk(d)
      BY <1>1 DEF SlotOk, Client
    <3>4. QED BY <3>2, <3>3 DEF Follows
  <2>2. clients' = [clients EXCEPT ![k] = d]
    BY <1>2 DEF ReadData
  <2> HIDE DEF d
  <2>3. k' \in Slots /\ pc' = "read"
    BY <1>1, <1>2 DEF ReadData
  <2>4. QED BY <1>1, <2>1, <2>2, <2>3, OneSlot, RoundKept
<1>3. CASE ReadEnd
  <2>1. clients' = [clients EXCEPT ![k] = Zeroed]
    BY <1>3 DEF ReadEnd
  <2>2. k' \in Slots /\ pc' \in {"serve", "tail"}
    BY <1>3, AdvanceOk DEF ReadEnd
  <2>3. QED BY <1>1, <2>1, <2>2, ZeroedFollows, OneSlot, RoundKept
<1>4. QED BY <1>2, <1>3

LEMMA FlushKept ==
    ASSUME IndInv, pc \in {"serve", "read"}, FlushTurn
    PROVE  IndInv'
<1>1. /\ polled' = polled /\ k \in Slots /\ clients[k] \in Client /\ SlotOk(clients[k])
      /\ npub' = npub /\ npub \in 0 .. MaxPubs
  BY DEF FlushTurn, IndInv, TypeOK
<1>2. k' \in Slots /\ pc' \in {"serve", "tail"}
  BY AdvanceOk DEF FlushTurn
<1>3. clients' \in [Slots -> Client] /\ \A s \in Slots : Follows(clients[s], clients'[s])
  <2>1. CASE Open(k) /\ clients[k].out # << >>
    <3>1. PICK d \in flush(clients[k]) : clients' = [clients EXCEPT ![k] = d]
      BY <2>1 DEF FlushTurn
    <3>2. Follows(clients[k], d)
      BY <1>1, <2>1, FlushFollows DEF Open
    <3>3. QED BY <3>1, <3>2, OneSlot
  <2>2. CASE ~(Open(k) /\ clients[k].out # << >>)
    BY <2>2, SameSlots DEF FlushTurn
  <2>3. QED BY <2>1, <2>2
<1>4. QED BY <1>1, <1>2, <1>3, RoundKept

LEMMA ExpireFollows ==
    ASSUME NEW c, NEW d, Follows(c, d)
    PROVE  Follows(c, Expire(d))
BY ZeroedFollows DEF Expire

LEMMA ClosingPassKept ==
    ASSUME IndInv, ClosingPass
    PROVE  IndInv'
<1>1. /\ pc = "tail" /\ polled' = polled /\ k \in Slots /\ clients[k] \in Client /\ SlotOk(clients[k])
      /\ npub' = npub /\ npub \in 0 .. MaxPubs
  BY DEF ClosingPass, IndInv, TypeOK
<1>2. k' \in Slots /\ pc' \in {"tail", "poll"}
  BY AdvanceOk DEF ClosingPass
<1>3. clients' \in [Slots -> Client] /\ \A s \in Slots : Follows(clients[s], clients'[s])
  <2>1. CASE Open(k)
    <3>1. PICK c \in IF clients[k].out # << >> THEN flush(clients[k]) ELSE {clients[k]} :
            clients' = [clients EXCEPT ![k] = Expire(c)]
      BY <2>1 DEF ClosingPass
    <3>2. Follows(clients[k], c)
      BY <1>1, <2>1, FlushFollows, StaysFollows DEF Open
    <3>3. QED BY <3>1, <3>2, ExpireFollows, OneSlot
  <2>2. CASE ~Open(k)
    BY <2>2, SameSlots DEF ClosingPass
  <2>3. QED BY <2>1, <2>2
<1>4. QED BY <1>1, <1>2, <1>3, RoundKept

-----------------------------------------------------------------------------
(* Packets *)

LEMMA PacketTypes ==
    /\ \A t \in {"connack", "refused", "suback", "unsuback", "puback", "pingresp"} : Reply(t) \in Packets
    /\ \A n \in 1 .. MaxPubs : Publication(n) \in Packets
BY DEF Reply, Publication, Packets

LEMMA HandlingFacts ==
    ASSUME IndInv, Handling
    PROVE  /\ pc = "read" /\ k \in Slots /\ clients \in [Slots -> Client]
           /\ clients[k] \in Client /\ SlotOk(clients[k]) /\ clients[k].fd # Closed /\ ~clients[k].closing
           /\ npub \in 0 .. MaxPubs
BY DEF Handling, IndInv, TypeOK, Open

\* A packet that changes the current slot only.
LEMMA ReplyKept ==
    ASSUME IndInv, Handling, NEW d, clients' = [clients EXCEPT ![k] = d], Follows(clients[k], d),
           UNCHANGED <<polled, pc, k, npub>>
    PROVE  IndInv'
<1>1. pc' = "read" /\ pc = "read" /\ polled' = polled /\ k' \in Slots /\ npub' \in 0 .. MaxPubs
  BY HandlingFacts
<1>2. QED BY <1>1, OneSlot, RoundKept

LEMMA HandleCloseKept ==
    ASSUME IndInv, HandleClose
    PROVE  IndInv'
BY ZeroedFollows, ReplyKept DEF HandleClose

LEMMA RefuseConnectKept ==
    ASSUME IndInv, RefuseConnect
    PROVE  IndInv'
<1> DEFINE c == clients[k]
           d == [queue(c, Reply("refused")) EXCEPT !.closing = TRUE]
<1>1. Handling /\ ~c.connected
  BY DEF RefuseConnect
<1>2. c \in Client /\ SlotOk(c) /\ c.fd # Closed
  BY <1>1, HandlingFacts
<1>3. c.out \in Seq(Packets) /\ Reply("refused") \in Packets
  BY <1>2, PacketTypes DEF Client
<1>4. Append(c.out, Reply("refused")) \in Seq(Packets) /\ Append(c.out, Reply("refused")) # << >>
  BY <1>3
<1>5. clients' = [clients EXCEPT ![k] = d]
  BY DEF RefuseConnect
<1>6. Follows(c, d)
  BY <1>1, <1>2, <1>4 DEF Client, queue, Follows, SlotOk
<1> HIDE DEF c, d
<1>7. QED BY <1>1, <1>5, <1>6, ReplyKept DEF RefuseConnect, c

LEMMA HandlePingKept ==
    ASSUME IndInv, HandlePing
    PROVE  IndInv'
<1>1. Handling /\ clients[k].connected
  BY DEF HandlePing
<1>2. Follows(clients[k], queue(clients[k], Reply("pingresp")))
  BY <1>1, HandlingFacts, PacketTypes, QueueFollows
<1>3. QED BY <1>1, <1>2, ReplyKept DEF HandlePing

LEMMA FilterListsAreSeqs ==
    ASSUME NEW fs \in FilterLists
    PROVE  fs \in Seq(Filters \cup {BadFilter})
BY BrokerAssumption DEF FilterLists

LEMMA SubsFollow ==
    ASSUME NEW c \in Client, SlotOk(c), c.connected, NEW sub \in BOOLEAN, NEW fs \in FilterLists,
           NEW p \in Packets
    PROVE  Follows(c, queue(each_filter(c, sub, fs), p))
<1>1. PICK l \in Seq(Filters) : each_filter(c, sub, fs) = [c EXCEPT !.subs = l]
  <2>1. fs \in Seq(Filters \cup {BadFilter})
    BY FilterListsAreSeqs
  <2>2. Resubscribed(c, each_filter(c, sub, fs))
    BY <2>1, EachFilter
  <2>3. QED BY <2>2 DEF Resubscribed
<1> DEFINE d == [c EXCEPT !.subs = l]
<1>2. d \in Client /\ d.connected /\ d.fd = c.fd /\ d.id = c.id /\ d.seen = c.seen /\ ~d.closing
  BY DEF Client, SlotOk
<1>3. c.fd # Closed
  BY DEF SlotOk, Zeroed
<1>4. SlotOk(d)
  BY <1>2, <1>3 DEF SlotOk
<1> HIDE DEF d
<1>5. Follows(d, queue(d, p))
  BY <1>2, <1>4, QueueFollows
<1>6. QED BY <1>1, <1>2, <1>5 DEF Follows, d

LEMMA HandleSubscribeKept ==
    ASSUME IndInv, NEW fs \in FilterLists, handle_subscribe(fs) \/ handle_unsubscribe(fs)
    PROVE  IndInv'
<1>1. Handling /\ clients[k].connected /\ UNCHANGED <<polled, pc, k, npub>>
  BY DEF handle_subscribe, handle_unsubscribe
<1>2. PICK sub \in BOOLEAN, t \in {"suback", "unsuback"} :
        clients' = [clients EXCEPT ![k] = queue(each_filter(clients[k], sub, fs), Reply(t))]
  BY DEF handle_subscribe, handle_unsubscribe
<1>3. Follows(clients[k], queue(each_filter(clients[k], sub, fs), Reply(t)))
  BY <1>1, HandlingFacts, PacketTypes, SubsFollow
<1>4. QED BY <1>1, <1>2, <1>3, ReplyKept

LEMMA FollowsTrans ==
    ASSUME NEW c, NEW d, NEW e, Follows(c, d), Follows(d, e)
    PROVE  Follows(c, e)
BY ZeroedOk DEF Follows, SlotOk

LEMMA PublishKept ==
    ASSUME IndInv, NEW t, NEW qos, publish(t, qos)
    PROVE  IndInv'
<1> DEFINE acked == IF qos = 1 THEN [clients EXCEPT ![k] = queue(@, Reply("puback"))] ELSE clients
<1>1. /\ Handling /\ clients[k].connected /\ npub < MaxPubs /\ UNCHANGED <<polled, pc, k>>
      /\ npub' = IF t \in Topics THEN npub + 1 ELSE npub
  BY DEF publish
<1>2. npub \in Nat /\ MaxPubs \in Nat /\ npub + 1 \in 1 .. MaxPubs /\ npub' \in 0 .. MaxPubs
  BY <1>1, HandlingFacts, BrokerAssumption
<1>3. Publication(npub + 1) \in Packets /\ Reply("puback") \in Packets
  BY <1>2, PacketTypes
<1>4. clients' = [s \in Slots |->
         IF t \in Topics /\ Receives(s, t) THEN queue(acked[s], Publication(npub + 1)) ELSE acked[s]]
  BY DEF publish
<1>5. \A s \in Slots : clients[s] \in Client /\ SlotOk(clients[s]) /\ Follows(clients[s], clients[s])
  BY StaysFollows DEF IndInv, TypeOK
<1>6. ASSUME NEW s \in Slots
      PROVE  Follows(clients[s], acked[s]) /\ (clients[s].connected => acked[s].connected)
  BY <1>1, <1>3, <1>5, HandlingFacts, QueueFollows
<1> HIDE DEF acked
<1>7. ASSUME NEW s \in Slots
      PROVE  Follows(clients[s], clients'[s])
  <2>1. CASE t \in Topics /\ Receives(s, t)
    <3>1. acked[s] \in Client /\ SlotOk(acked[s]) /\ acked[s].connected
      BY <1>6, <2>1 DEF Follows, Receives
    <3>2. Follows(acked[s], queue(acked[s], Publication(npub + 1)))
      BY <3>1, <1>3, QueueFollows
    <3>3. QED BY <1>4, <1>6, <2>1, <3>2, FollowsTrans
  <2>2. CASE ~(t \in Topics /\ Receives(s, t))
    BY <1>4, <1>6, <2>2
  <2>3. QED BY <2>1, <2>2
<1>8. clients' \in [Slots -> Client]
  <2>1. \A s \in Slots : clients'[s] \in Client
    BY <1>7 DEF Follows
  <2>2. QED BY <1>4, <2>1
<1>9. pc = "read" /\ pc' = "read" /\ polled' = polled /\ k' \in Slots
  BY <1>1, HandlingFacts
<1>10. QED BY <1>2, <1>7, <1>8, <1>9, RoundKept

LEMMA HandleConnectKept ==
    ASSUME IndInv, NEW id \in Ids \cup {NoId}, NEW ka \in Keepalives, handle_connect(id, ka)
    PROVE  IndInv'
<1> DEFINE c == clients[k]
           e == [c EXCEPT !.id = id, !.keepalive = ka, !.connected = TRUE]
           d == queue(e, Reply("connack"))
<1>1. Handling /\ ~c.connected /\ UNCHANGED <<polled, pc, k, npub>>
  BY DEF handle_connect
<1>2. /\ c \in Client /\ SlotOk(c) /\ c.fd # Closed /\ ~c.closing /\ c.out \in Seq(Packets)
      /\ k \in Slots /\ pc = "read"
  BY <1>1, HandlingFacts DEF Client
<1>3. /\ \A s \in Slots : s \in TakenOver(id) => clients'[s] = Zeroed
      /\ clients'[k] = d
      /\ \A s \in Slots : s # k /\ s \notin TakenOver(id) => clients'[s] = clients[s]
      /\ clients' = [s \in Slots |-> clients'[s]]
  BY <1>2 DEF handle_connect, TakenOver
<1>4. /\ d \in Client /\ SlotOk(d) /\ d.fd = c.fd /\ d.id = id /\ d.seen = c.seen
  <2>1. Append(c.out, Reply("connack")) \in Seq(Packets) /\ Append(c.out, Reply("connack")) # << >>
    BY <1>2, PacketTypes
  <2>2. d = [c EXCEPT !.id = id, !.keepalive = ka, !.connected = TRUE, !.out = Append(c.out, Reply("connack"))]
    BY <1>2 DEF queue, Client
  <2>3. QED BY <1>2, <2>1, <2>2 DEF Client, SlotOk
<1> HIDE DEF d, e
<1>5. \A s \in Slots : clients[s] \in Client /\ SlotOk(clients[s]) /\ Follows(clients[s], clients[s])
  BY StaysFollows DEF IndInv, TypeOK
<1>6. ASSUME NEW s \in Slots
      PROVE  /\ clients'[s] \in Client /\ SlotOk(clients'[s])
             /\ Open(s)' => /\ clients'[s].fd = clients[s].fd /\ clients'[s].seen = clients[s].seen
                            /\ clients'[s].id = IF s = k THEN id ELSE clients[s].id
                            /\ s \notin TakenOver(id)
  BY <1>3, <1>4, <1>5, ZeroedOk DEF Open
<1>7. clients' \in [Slots -> Client]
  BY <1>3, <1>6
<1>8. TypeOK'
  BY <1>1, <1>7 DEF IndInv, TypeOK
<1>9. Distinct'
  <2> SUFFICES ASSUME NEW s \in Slots, NEW r \in Slots, s # r, Open(s)'
               PROVE  clients'[r].fd # clients'[s].fd
    BY DEF Distinct
  <2>1. CASE Open(r)'
    BY <1>6, <2>1 DEF IndInv, Distinct, Open
  <2>2. CASE ~Open(r)'
    BY <2>2 DEF Open
  <2>3. QED BY <2>1, <2>2
<1>10. OneSession'
  <2> SUFFICES ASSUME NEW s \in Slots, NEW r \in Slots, s # r, Open(s)', Open(r)',
                      clients'[s].id = clients'[r].id
               PROVE  clients'[s].id = NoId
    BY DEF OneSession
  <2>1. Open(s) /\ Open(r) /\ s \notin TakenOver(id) /\ r \notin TakenOver(id)
    BY <1>6 DEF Open
  <2>2. CASE s = k
    BY <1>6, <2>1, <2>2 DEF TakenOver
  <2>3. CASE r = k
    BY <1>6, <2>1, <2>3 DEF TakenOver
  <2>4. CASE s # k /\ r # k
    BY <1>6, <2>1, <2>4 DEF IndInv, OneSession
  <2>5. QED BY <2>2, <2>3, <2>4
<1>11. PolledSeen'
  BY <1>1, <1>2, <1>6 DEF IndInv, PolledSeen, Open
<1>12. QED BY <1>6, <1>8, <1>9, <1>10, <1>11 DEF IndInv

LEMMA StepKept == IndInv /\ [Next]_vars => IndInv'
<1> SUFFICES ASSUME IndInv, [Next]_vars
             PROVE  IndInv'
  OBVIOUS
<1>1. CASE Loop
  BY <1>1, PollKept, NoAcceptKept, SkipKept, FlushKept, ClosingPassKept DEF Loop, Unready, Serves, EndRead
<1>2. CASE ReadData \/ ReadEnd
  BY <1>2, ReadKept
<1>3. CASE Packet
  BY <1>3, HandleCloseKept, RefuseConnectKept, HandlePingKept, HandleConnectKept, PublishKept,
     HandleSubscribeKept DEF Packet
<1>4. CASE \E r \in BOOLEAN : Accept(r)
  BY <1>4, AcceptKept
<1>5. CASE UNCHANGED vars
  BY <1>5 DEF vars, IndInv, TypeOK, Distinct, OneSession, PolledSeen, Open
<1>6. QED BY <1>1, <1>2, <1>3, <1>4, <1>5 DEF Next

\* The inductive invariant: the table is well typed, its slots are distinct by
\* descriptor and by client id, and whatever is still to be served in a round
\* was seen by its poll (broker.c, main and handle_connect).
THEOREM TableInvariant == Spec => []IndInv
BY InitTable, StepKept, PTL DEF Spec

\* After any takeovers, refusals, lost connections and reuse of slots and
\* descriptors, a free slot keeps nothing, no two slots share a descriptor or
\* a client id, and a client that is marked closing still has its refusal to
\* send.
THEOREM TableIsSound == Spec => []TableSound
<1>1. IndInv => TableSound
  <2> SUFFICES ASSUME IndInv
               PROVE  TableSound
    OBVIOUS
  <2>1. SlotsSound
    BY DEF IndInv, SlotOk, Distinct, SlotsSound, Open
  <2>2. QED BY <2>1 DEF IndInv, TableSound
<1>2. QED BY <1>1, TableInvariant, PTL

\* A slot that gets its turn in a round holds the connection that was polled,
\* although the loop compares only descriptor numbers and the kernel gives
\* out the lowest free one again.
THEOREM ServesWhatWasPolled == Spec => []ServesPolled
<1>1. IndInv => ServesPolled
  BY SlotsFinite DEF IndInv, TypeOK, PolledSeen, ServesPolled, Serves, Open
<1>2. QED BY <1>1, TableInvariant, PTL

-----------------------------------------------------------------------------
(* The publications in a queue *)

\* One packet more, after the publications q.
counted(q, p) == IF p.type = "publish" THEN Append(q, p.n) ELSE q

\* g counts the publications of out up to every place.
Counts(g, out) ==
    /\ g \in [0 .. Len(out) -> Seq(Nat)] /\ g[0] = << >>
    /\ \A n \in 1 .. Len(out) : g[n] = counted(g[n - 1], out[n])

LEMMA CountedIsSeq ==
    ASSUME NEW q \in Seq(Nat), NEW p \in Packets
    PROVE  counted(q, p) \in Seq(Nat) /\ p.n \in Nat
<1>1. p.n \in Nat
  BY BrokerAssumption DEF Packets
<1>2. QED BY <1>1 DEF counted

LEMMA NumbersCount ==
    ASSUME NEW out \in Seq(Packets)
    PROVE  \E g : Counts(g, out) /\ Numbers(out) = g[Len(out)]
<1> DEFINE L == Len(out)
           Q == Seq(Nat)
           Upto(g) == [n \in 0 .. L |-> IF n = 0 THEN << >> ELSE counted(g[n - 1], out[n])]
           upto == CHOOSE g : g = Upto(g)
           step == [x \in (1 .. L) \X Q |-> counted(x[2], out[x[1]])]
<1>1. L \in Nat /\ \A n \in 1 .. L : out[n] \in Packets
  OBVIOUS
<1>2. << >> \in Q /\ \A q \in Q, p \in Packets : counted(q, p) \in Q
  BY CountedIsSeq
<1>3. Numbers(out) = upto[L]
  BY DEF Numbers, counted
<1> HIDE DEF L, Q
<1>4. \E g : g = Upto(g)
  <2>1. step \in [(1 .. L) \X Q -> Q]
    BY <1>1, <1>2
  <2>2. PICK g \in [0 .. L -> Q] : g[0] = << >> /\ \A n \in 1 .. L : g[n] = step[<<n, g[n - 1]>>]
    <3> HIDE DEF step
    <3>1. HasRun(Q, << >>, L, step)
      BY <1>1, <1>2, <2>1, LoopRuns
    <3>2. QED BY <3>1 DEF HasRun
  <2>3. ASSUME NEW n \in 1 .. L
        PROVE  g[n] = counted(g[n - 1], out[n])
    <3>1. n - 1 \in 0 .. L /\ g[n - 1] \in Q
      BY <1>1
    <3>2. step[<<n, g[n - 1]>>] = counted(g[n - 1], out[n])
      BY <3>1
    <3>3. QED BY <2>2, <3>2
  <2>4. g = Upto(g)
    <3> HIDE DEF step
    <3> QED BY <1>1, <2>2, <2>3
  <2>5. QED BY <2>4
<1>5. upto = Upto(upto)
  <2> HIDE DEF Upto
  <2> QED BY <1>4
<1> HIDE DEF upto
<1>6. upto[0] = << >> /\ \A n \in 1 .. L : upto[n] = counted(upto[n - 1], out[n])
  <2>1. 0 \in 0 .. L /\ \A n \in 1 .. L : n \in 0 .. L /\ n # 0
    BY <1>1
  <2>2. QED BY <1>5, <2>1
<1>7. \A n \in 0 .. L : upto[n] \in Q
  <2> DEFINE In == {n \in 0 .. L : upto[n] \in Q}
  <2>1. 0 \in In
    BY <1>1, <1>2, <1>6
  <2>2. ASSUME NEW n \in 1 .. L, n - 1 \in In
        PROVE  n \in In
    <3>1. n \in 0 .. L /\ upto[n] = counted(upto[n - 1], out[n]) /\ out[n] \in Packets
      BY <1>1, <1>6
    <3>2. QED BY <1>2, <2>2, <3>1
  <2>3. \A n \in 0 .. L : n \in In
    <3> HIDE DEF In
    <3> QED BY <1>1, <2>1, <2>2, UpTo
  <2>4. QED BY <2>3
<1>8. upto \in [0 .. L -> Q]
  BY <1>5, <1>7
<1>9. QED BY <1>3, <1>6, <1>8 DEF Counts, L, Q

\* Queues that agree up to a place count the same up to there.
LEMMA CountsAgree ==
    ASSUME NEW s \in Seq(Packets), NEW t \in Seq(Packets), NEW g, NEW h, Counts(g, s), Counts(h, t),
           NEW m \in Nat, m <= Len(s), m <= Len(t), \A i \in 1 .. m : s[i] = t[i]
    PROVE  g[m] = h[m]
<1> DEFINE In == {n \in 0 .. m : g[n] = h[n]}
<1>1. 0 \in In
  BY DEF Counts
<1>2. ASSUME NEW n \in 1 .. m, n - 1 \in In
      PROVE  n \in In
  <2>1. n \in 1 .. Len(s) /\ n \in 1 .. Len(t) /\ n \in 0 .. m
    OBVIOUS
  <2>2. g[n] = counted(g[n - 1], s[n]) /\ h[n] = counted(h[n - 1], t[n])
    BY <2>1 DEF Counts
  <2>3. QED BY <1>2, <2>1, <2>2
<1>3. \A n \in 0 .. m : n \in In
  <2> HIDE DEF In
  <2> QED BY <1>1, <1>2, UpTo
<1>4. QED BY <1>3

LEMMA NumbersEmpty == Numbers(<< >>) = << >>
<1>1. << >> \in Seq(Packets) /\ Len(<< >>) = 0
  OBVIOUS
<1>2. PICK g : Counts(g, << >>) /\ Numbers(<< >>) = g[Len(<< >>)]
  BY <1>1, NumbersCount
<1>3. QED BY <1>1, <1>2 DEF Counts

LEMMA NumbersAppend ==
    ASSUME NEW out \in Seq(Packets), NEW p \in Packets
    PROVE  /\ Numbers(out) \in Seq(Nat)
           /\ Numbers(Append(out, p)) = IF p.type = "publish" THEN Append(Numbers(out), p.n) ELSE Numbers(out)
<1> DEFINE L == Len(out)
           long == Append(out, p)
<1>1. /\ long \in Seq(Packets) /\ Len(long) = L + 1 /\ L \in Nat /\ long[L + 1] = p
      /\ \A i \in 1 .. L : out[i] = long[i]
  BY AppendProperties
<1> HIDE DEF long
<1>2. PICK g : Counts(g, out) /\ Numbers(out) = g[L]
  BY NumbersCount
<1>3. PICK h : Counts(h, long) /\ Numbers(long) = h[Len(long)]
  BY <1>1, NumbersCount
<1>4. g[L] = h[L]
  BY <1>1, <1>2, <1>3, CountsAgree
<1>5. h[L + 1] = counted(h[L], p)
  BY <1>1, <1>3 DEF Counts
<1>6. g[L] \in Seq(Nat)
  BY <1>1, <1>2 DEF Counts
<1>7. QED BY <1>1, <1>2, <1>3, <1>4, <1>5, <1>6 DEF long, counted

LEMMA CountedAfter ==
    ASSUME NEW a \in Seq(Nat), NEW b \in Seq(Nat), NEW p, p.n \in Nat
    PROVE  counted(a \o b, p) = a \o counted(b, p)
<1>1. \A x \in Nat : Append(a \o b, x) = a \o Append(b, x)
  <2> SUFFICES ASSUME NEW x \in Nat
               PROVE  Append(a \o b, x) = a \o Append(b, x)
    OBVIOUS
  <2>1. a \o b \in Seq(Nat) /\ <<x>> \in Seq(Nat)
    OBVIOUS
  <2>2. Append(a \o b, x) = (a \o b) \o <<x>> /\ Append(b, x) = b \o <<x>>
    BY <2>1, AppendIsConcat
  <2>3. (a \o b) \o <<x>> = a \o (b \o <<x>>)
    BY <2>1, ConcatAssociative
  <2>4. QED BY <2>2, <2>3
<1>2. QED BY <1>1 DEF counted

\* What is left after the first n packets have been sent: the publications
\* that are left are the last ones.
LEMMA NumbersSuffix ==
    ASSUME NEW out \in Seq(Packets), NEW n \in 0 .. Len(out)
    PROVE  \E m \in 0 .. Len(Numbers(out)) :
             Numbers(SubSeq(out, n + 1, Len(out))) = SubSeq(Numbers(out), m + 1, Len(Numbers(out)))
<1> DEFINE L == Len(out)
           rest == SubSeq(out, n + 1, L)
<1>1. L \in Nat /\ \A i \in n + 1 .. L : out[i] \in Packets
  OBVIOUS
<1>2. /\ rest \in Seq(Packets) /\ Len(rest) = L - n
      /\ \A i \in 1 .. L - n : rest[i] = out[n + i]
  <2>1. /\ rest \in Seq(Packets) /\ Len(rest) = IF n + 1 <= L THEN L - (n + 1) + 1 ELSE 0
        /\ \A i \in 1 .. L - (n + 1) + 1 : rest[i] = out[(n + 1) + i - 1]
    BY <1>1, SubSeqProperties
  <2> HIDE DEF rest
  <2>2. QED BY <1>1, <2>1
<1> HIDE DEF rest
<1>3. PICK g : Counts(g, out) /\ Numbers(out) = g[L]
  BY NumbersCount
<1>4. PICK h : Counts(h, rest) /\ Numbers(rest) = h[Len(rest)]
  BY <1>2, NumbersCount
<1> DEFINE In == {j \in 0 .. L - n : g[n + j] = g[n] \o h[j]}
<1>5. g[n] \in Seq(Nat) /\ \A j \in 0 .. L - n : h[j] \in Seq(Nat)
  BY <1>1, <1>2, <1>3, <1>4 DEF Counts
<1>6. 0 \in In
  <2>1. 0 \in 0 .. L - n /\ n + 0 = n /\ h[0] = << >>
    BY <1>1, <1>4 DEF Counts
  <2>2. g[n] \o << >> = g[n]
    BY <1>5, ConcatEmptySeq
  <2>3. QED BY <2>1, <2>2
<1>7. ASSUME NEW j \in 1 .. L - n, j - 1 \in In
      PROVE  j \in In
  <2>1. /\ n + j \in 1 .. L /\ j \in 1 .. Len(rest) /\ rest[j] = out[n + j] /\ (n + j) - 1 = n + (j - 1)
        /\ j - 1 \in 0 .. L - n /\ j \in 0 .. L - n
    BY <1>1, <1>2
  <2>2. /\ g[n + j] = counted(g[n + (j - 1)], out[n + j])
        /\ h[j] = counted(h[j - 1], out[n + j])
    BY <1>3, <1>4, <2>1 DEF Counts
  <2>3. g[n + (j - 1)] = g[n] \o h[j - 1]
    BY <1>7
  <2>4. h[j - 1] \in Seq(Nat)
    BY <1>5, <2>1
  <2>5. out[n + j] \in Packets
    BY <1>1, <2>1
  <2>6. out[n + j].n \in Nat
    BY <1>5, <2>5, CountedIsSeq
  <2>7. counted(g[n] \o h[j - 1], out[n + j]) = g[n] \o counted(h[j - 1], out[n + j])
    BY <1>5, <2>4, <2>6, CountedAfter
  <2>8. QED BY <2>1, <2>2, <2>3, <2>7
<1>8. L - n \in Nat
  BY <1>1
<1>9. \A j \in 0 .. L - n : j \in In
  <2> HIDE DEF In
  <2> QED BY <1>6, <1>7, <1>8, UpTo
<1>10. g[L] = g[n] \o h[L - n] /\ h[L - n] \in Seq(Nat)
  <2>1. L - n \in 0 .. L - n /\ n + (L - n) = L
    BY <1>1, <1>8
  <2>2. L - n \in In
    <3> HIDE DEF In
    <3> QED BY <1>9, <2>1
  <2>3. g[n + (L - n)] = g[n] \o h[L - n]
    BY <2>2
  <2>4. h[L - n] \in Seq(Nat)
    BY <1>5, <2>1
  <2>5. QED BY <2>1, <2>3, <2>4
<1>11. h[L - n] = SubSeq(g[L], Len(g[n]) + 1, Len(g[L]))
  <2> DEFINE a == g[n]
             b == h[L - n]
             ab == a \o b
  <2>1. a \in Seq(Nat) /\ b \in Seq(Nat)
    BY <1>5, <1>10
  <2> HIDE DEF a, b
  <2>2. /\ ab \in Seq(Nat) /\ Len(ab) = Len(a) + Len(b) /\ Len(a) \in Nat /\ Len(b) \in Nat
        /\ \A i \in 1 .. Len(b) : ab[Len(a) + i] = b[i]
    BY <2>1
  <2> HIDE DEF ab
  <2>3. \A i \in Len(a) + 1 .. Len(ab) : ab[i] \in Nat
    BY <2>2
  <2>4. /\ SubSeq(ab, Len(a) + 1, Len(ab)) \in Seq(Nat)
        /\ Len(SubSeq(ab, Len(a) + 1, Len(ab))) = Len(b)
        /\ \A i \in 1 .. Len(b) : SubSeq(ab, Len(a) + 1, Len(ab))[i] = ab[Len(a) + i]
    <3>1. /\ SubSeq(ab, Len(a) + 1, Len(ab)) \in Seq(Nat)
          /\ Len(SubSeq(ab, Len(a) + 1, Len(ab))) =
               IF Len(a) + 1 <= Len(ab) THEN Len(ab) - (Len(a) + 1) + 1 ELSE 0
          /\ \A i \in 1 .. Len(ab) - (Len(a) + 1) + 1 :
               SubSeq(ab, Len(a) + 1, Len(ab))[i] = ab[(Len(a) + 1) + i - 1]
      BY <2>2, <2>3, SubSeqProperties
    <3>2. Len(ab) - (Len(a) + 1) + 1 = Len(b) /\ (Len(a) + 1 <= Len(ab) \/ Len(b) = 0)
      BY <2>2
    <3>3. \A i \in 1 .. Len(b) : (Len(a) + 1) + i - 1 = Len(a) + i
      BY <2>2
    <3>4. QED BY <3>1, <3>2, <3>3
  <2>5. b = SubSeq(ab, Len(a) + 1, Len(ab))
    BY <2>1, <2>2, <2>4, SeqEqual
  <2>6. QED BY <1>10, <2>5 DEF a, b, ab
<1>12. Len(g[n]) \in 0 .. Len(g[L])
  <2>1. Len(g[n] \o h[L - n]) = Len(g[n]) + Len(h[L - n]) /\ Len(g[n]) \in Nat /\ Len(h[L - n]) \in Nat
    BY <1>5, <1>10
  <2>2. Len(g[L]) = Len(g[n]) + Len(h[L - n])
    BY <1>10, <2>1, Zenon
  <2>3. \A x, y \in Nat : x \in 0 .. x + y
    OBVIOUS
  <2>4. QED BY <2>1, <2>2, <2>3
<1>13. QED BY <1>2, <1>3, <1>4, <1>11, <1>12 DEF rest

-----------------------------------------------------------------------------
(* Sessions *)

\* Slot c holds the session of id i.
Live(c, i) == c.fd # Closed /\ c.connected /\ c.id = i

\* The session that slot c holds.
SessionOf(c) == [up |-> TRUE, subs |-> Range(c.subs), inbox |-> Numbers(c.out)]

\* Session, for any table of slots.
SessionIn(cl, i) ==
    LET at == {s \in Slots : Live(cl[s], i)}
    IN IF at = {} THEN [up |-> FALSE, subs |-> {}, inbox |-> << >>] ELSE SessionOf(cl[Min(at)])

OneEach(cl) == \A s, r \in Slots, i \in Ids : Live(cl[s], i) /\ Live(cl[r], i) => s = r

sessions == [i \in Ids |-> Session(i)]

LEMMA SessionsAre ==
    /\ sessions = [i \in Ids |-> SessionIn(clients, i)]
    /\ sessions' = [i \in Ids |-> SessionIn(clients', i)]
BY DEF sessions, Session, SessionIn, SessionOf, Live, Open

LEMMA TableOneEach ==
    /\ IndInv => OneEach(clients)
    /\ IndInv' => OneEach(clients')
<1>1. IndInv => OneEach(clients)
  BY BrokerAssumption DEF IndInv, OneSession, OneEach, Live, Open
<1>2. IndInv' => OneEach(clients')
  BY BrokerAssumption DEF IndInv, OneSession, OneEach, Live, Open
<1>3. QED BY <1>1, <1>2

LEMMA SessionUp ==
    ASSUME NEW cl, OneEach(cl), NEW i \in Ids, NEW s \in Slots, Live(cl[s], i)
    PROVE  SessionIn(cl, i) = SessionOf(cl[s])
<1> DEFINE at == {r \in Slots : Live(cl[r], i)}
<1>1. at = {s}
  BY DEF OneEach
<1>2. Min({s}) = s
  BY SlotsFinite DEF Min
<1>3. QED BY <1>1, <1>2 DEF SessionIn

LEMMA SessionDown ==
    ASSUME NEW cl, NEW i, \A s \in Slots : ~Live(cl[s], i)
    PROVE  SessionIn(cl, i) = Bus!Down
BY DEF SessionIn, Bus!Down

\* A slot that holds no session of i before or after makes no difference.
LEMMA SessionSame ==
    ASSUME NEW cl, NEW cm, OneEach(cl), OneEach(cm), NEW i \in Ids,
           \A s \in Slots : Live(cl[s], i) <=> Live(cm[s], i),
           \A s \in Slots : Live(cl[s], i) => SessionOf(cm[s]) = SessionOf(cl[s])
    PROVE  SessionIn(cl, i) = SessionIn(cm, i)
<1>1. CASE \E s \in Slots : Live(cl[s], i)
  BY <1>1, SessionUp
<1>2. CASE \A s \in Slots : ~Live(cl[s], i)
  BY <1>2, SessionDown
<1>3. QED BY <1>1, <1>2

\* What a change of the current slot c to d, of the same connection, does to the sessions.
LEMMA OneSlotSessions ==
    ASSUME IndInv, IndInv', NEW d, clients' = [clients EXCEPT ![k] = d],
           d.fd # Closed => d.fd = clients[k].fd /\ d.id = clients[k].id /\ d.connected = clients[k].connected
    PROVE  \/ sessions' = sessions
           \/ \E i \in Ids : /\ Live(clients[k], i) /\ sessions[i] = SessionOf(clients[k])
                             /\ \/ sessions' = [sessions EXCEPT ![i] = Bus!Down]
                                \/ d.fd # Closed /\ sessions' = [sessions EXCEPT ![i] = SessionOf(d)]
<1>1. clients \in [Slots -> Client] /\ k \in Slots
  BY DEF IndInv, TypeOK
<1>2. clients'[k] = d /\ \A s \in Slots : s # k => clients'[s] = clients[s]
  BY <1>1
<1>3. OneEach(clients) /\ OneEach(clients')
  BY TableOneEach
<1>4. \A i \in Ids : Live(d, i) => Live(clients[k], i)
  BY DEF Live
<1>5. ASSUME NEW j \in Ids, ~Live(clients[k], j)
      PROVE  SessionIn(clients', j) = SessionIn(clients, j)
  <2>1. \A s \in Slots : Live(clients'[s], j) <=> Live(clients[s], j)
    BY <1>2, <1>4, <1>5
  <2>2. \A s \in Slots : Live(clients'[s], j) => SessionOf(clients[s]) = SessionOf(clients'[s])
    BY <1>2, <1>4, <1>5
  <2>3. QED BY <1>3, <2>1, <2>2, SessionSame
<1>6. CASE \E i \in Ids : Live(clients[k], i)
  <2>1. PICK i \in Ids : Live(clients[k], i)
    BY <1>6
  <2>2. \A j \in Ids : j # i => ~Live(clients[k], j)
    BY <2>1 DEF Live
  <2>3. SessionIn(clients, i) = SessionOf(clients[k])
    BY <1>1, <1>3, <2>1, SessionUp
  <2>4. CASE Live(d, i)
    <3>1. SessionIn(clients', i) = SessionOf(d)
      BY <1>1, <1>2, <1>3, <2>4, SessionUp
    <3>2. sessions' = [sessions EXCEPT ![i] = SessionOf(d)]
      BY <1>5, <2>2, <3>1, SessionsAre
    <3>3. QED BY <2>1, <2>3, <2>4, <3>2, SessionsAre DEF Live
  <2>5. CASE ~Live(d, i)
    <3>1. \A s \in Slots : ~Live(clients'[s], i)
      BY <1>1, <1>2, <1>3, <2>1, <2>5 DEF OneEach
    <3>2. SessionIn(clients', i) = Bus!Down
      BY <3>1, SessionDown
    <3>3. sessions' = [sessions EXCEPT ![i] = Bus!Down]
      BY <1>5, <2>2, <3>2, SessionsAre
    <3>4. QED BY <2>1, <2>3, <3>3, SessionsAre
  <2>6. QED BY <2>4, <2>5
<1>7. CASE \A i \in Ids : ~Live(clients[k], i)
  BY <1>5, <1>7, SessionsAre
<1>8. QED BY <1>6, <1>7

LEMMA RecordExcept ==
    ASSUME NEW b, NEW x, NEW y, NEW z, NEW r, r = [up |-> b, subs |-> x, inbox |-> y]
    PROVE  /\ [r EXCEPT !.inbox = z] = [up |-> b, subs |-> x, inbox |-> z]
           /\ [r EXCEPT !.subs = z] = [up |-> b, subs |-> z, inbox |-> y]
           /\ [r EXCEPT !.up = z] = [up |-> z, subs |-> x, inbox |-> y]
OBVIOUS

LEMMA SessionExcept ==
    ASSUME NEW c, NEW z
    PROVE  /\ [SessionOf(c) EXCEPT !.inbox = z] = [up |-> TRUE, subs |-> Range(c.subs), inbox |-> z]
           /\ [SessionOf(c) EXCEPT !.subs = z] = [up |-> TRUE, subs |-> z, inbox |-> Numbers(c.out)]
           /\ [Bus!Down EXCEPT !.up = TRUE] = [up |-> TRUE, subs |-> {}, inbox |-> << >>]
<1> DEFINE r == SessionOf(c)
           down == Bus!Down
           t == TRUE
           f == FALSE
           x == Range(c.subs)
           y == Numbers(c.out)
<1>1. r = [up |-> t, subs |-> x, inbox |-> y]
  BY DEF SessionOf
<1>2. down = [up |-> f, subs |-> {}, inbox |-> << >>]
  BY DEF Bus!Down
<1> HIDE DEF r, t, x, y, down, f
<1>3. /\ [r EXCEPT !.inbox = z] = [up |-> t, subs |-> x, inbox |-> z]
      /\ [r EXCEPT !.subs = z] = [up |-> t, subs |-> z, inbox |-> y]
  BY <1>1, RecordExcept
<1>4. [down EXCEPT !.up = t] = [up |-> t, subs |-> {}, inbox |-> << >>]
  BY <1>2, RecordExcept
<1>5. QED BY <1>3, <1>4 DEF r, t, x, y, down

BusStep == Bus!Next \/ UNCHANGED <<sessions, npub>>

\* A client that is closed, whether or not it had a session.
LEMMA CloseIsBusStep ==
    ASSUME IndInv, IndInv', clients' = [clients EXCEPT ![k] = Zeroed], npub' = npub
    PROVE  BusStep
<1>1. \/ sessions' = sessions
      \/ \E i \in Ids : sessions' = [sessions EXCEPT ![i] = Bus!Down]
  <2>1. \/ sessions' = sessions
        \/ \E i \in Ids : /\ Live(clients[k], i) /\ sessions[i] = SessionOf(clients[k])
                          /\ \/ sessions' = [sessions EXCEPT ![i] = Bus!Down]
                             \/ Zeroed.fd # Closed /\ sessions' = [sessions EXCEPT ![i] = SessionOf(Zeroed)]
    BY ZeroedOk, OneSlotSessions
  <2>2. QED BY <2>1, ZeroedOk
<1>2. CASE sessions' = sessions
  BY <1>2 DEF BusStep
<1>3. CASE \E i \in Ids : sessions' = [sessions EXCEPT ![i] = Bus!Down]
  BY <1>3 DEF BusStep, Bus!Next, Bus!Drop, sessions
<1>4. QED BY <1>1, <1>2, <1>3

\* A slot whose queue loses some packets from its head.
LEMMA SendIsBusStep ==
    ASSUME IndInv, IndInv', NEW n \in 0 .. Len(clients[k].out), npub' = npub,
           clients' = [clients EXCEPT ![k] =
             [clients[k] EXCEPT !.out = SubSeq(clients[k].out, n + 1, Len(clients[k].out))]]
    PROVE  BusStep
<1> DEFINE c == clients[k]
           left == SubSeq(c.out, n + 1, Len(c.out))
           d == [c EXCEPT !.out = left]
           q == Numbers(c.out)
<1>1. c \in Client /\ c.out \in Seq(Packets) /\ k \in Slots
  BY DEF IndInv, TypeOK, Client
<1>2. PICK m \in 0 .. Len(q) : Numbers(left) = SubSeq(q, m + 1, Len(q))
  BY <1>1, NumbersSuffix
<1>3. q \in Seq(Nat)
  <2>1. PICK g : Counts(g, c.out) /\ q = g[Len(c.out)]
    BY <1>1, NumbersCount
  <2>2. Len(c.out) \in 0 .. Len(c.out)
    BY <1>1
  <2>3. QED BY <2>1, <2>2 DEF Counts
<1>4. /\ d.fd = c.fd /\ d.id = c.id /\ d.connected = c.connected
      /\ SessionOf(d) = [SessionOf(c) EXCEPT !.inbox = Numbers(left)]
  <2>1. d.out = left /\ d.subs = c.subs /\ d.fd = c.fd /\ d.id = c.id /\ d.connected = c.connected
    BY <1>1 DEF Client
  <2> HIDE DEF d, left, c
  <2>2. SessionOf(d) = [up |-> TRUE, subs |-> Range(c.subs), inbox |-> Numbers(left)]
    BY <2>1 DEF SessionOf
  <2>3. QED BY <2>1, <2>2, SessionExcept
<1>5. SessionOf(c).inbox = q
  BY DEF SessionOf
<1> HIDE DEF q, left
<1>6. \/ sessions' = sessions
      \/ \E i \in Ids : /\ sessions[i] = SessionOf(c)
                        /\ \/ sessions' = [sessions EXCEPT ![i] = Bus!Down]
                           \/ sessions' = [sessions EXCEPT ![i] = SessionOf(d)]
  <2> HIDE DEF d
  <2>1. clients' = [clients EXCEPT ![k] = d]
    BY DEF d, left
  <2>2. QED BY <1>4, <2>1, OneSlotSessions
<1>7. CASE sessions' = sessions
  BY <1>7 DEF BusStep
<1>8. ASSUME NEW i \in Ids, sessions' = [sessions EXCEPT ![i] = Bus!Down]
      PROVE  BusStep
  BY <1>8 DEF BusStep, Bus!Next, Bus!Drop, sessions
<1>9. ASSUME NEW i \in Ids, sessions[i] = SessionOf(c), sessions' = [sessions EXCEPT ![i] = SessionOf(d)]
      PROVE  BusStep
  <2>1. CASE m = 0
    <3>1. SubSeq(q, 1, Len(q)) = q
      BY <1>3, SubSeqFull
    <3>2. SessionOf(d) = SessionOf(c)
      <4>1. Numbers(left) = q
        BY <1>2, <2>1, <3>1
      <4> HIDE DEF d, c
      <4>2. QED BY <1>4, <1>5, <4>1 DEF SessionOf
    <3>3. sessions' = sessions
      BY <1>9, <3>2 DEF sessions
    <3>4. QED BY <3>3 DEF BusStep
  <2>2. CASE m # 0
    <3>1. m \in 1 .. Len(sessions[i].inbox)
      BY <1>3, <1>5, <1>9, <2>2
    <3>2. sessions' = [sessions EXCEPT ![i].inbox = SubSeq(@, m + 1, Len(@))]
      BY <1>2, <1>4, <1>5, <1>9 DEF sessions
    <3>3. Bus!Deliver(i)
      BY <3>1, <3>2 DEF Bus!Deliver, sessions
    <3>4. QED BY <3>3 DEF BusStep, Bus!Next
  <2>3. QED BY <2>1, <2>2
<1>10. QED BY <1>6, <1>7, <1>8, <1>9

LEMMA FlushIsBusStep ==
    ASSUME IndInv, IndInv', clients[k].out # << >>, NEW d \in flush(clients[k]),
           clients' = [clients EXCEPT ![k] = d] \/ clients' = [clients EXCEPT ![k] = Expire(d)],
           npub' = npub
    PROVE  BusStep
<1> DEFINE c == clients[k]
<1>1. c \in Client /\ c.out \in Seq(Packets) /\ Len(c.out) \in Nat
  BY DEF IndInv, TypeOK, Client
<1>2. CASE clients' = [clients EXCEPT ![k] = Zeroed]
  BY <1>2, CloseIsBusStep
<1>3. CASE clients' = [clients EXCEPT ![k] = d] /\ d # Zeroed
  <2>1. \E n \in 0 .. Len(c.out) : d = [c EXCEPT !.out = SubSeq(c.out, n + 1, Len(c.out))]
    <3>1. CASE \E n \in 0 .. Len(c.out) - 1 : d = [c EXCEPT !.out = SubSeq(c.out, n + 1, Len(c.out))]
      <4>1. 0 .. Len(c.out) - 1 \subseteq 0 .. Len(c.out)
        BY <1>1
      <4>2. QED BY <3>1, <4>1
    <3>2. CASE d = [c EXCEPT !.out = << >>]
      <4>1. SubSeq(c.out, Len(c.out) + 1, Len(c.out)) = << >>
        BY <1>1, SubSeqEmpty
      <4>2. d = [c EXCEPT !.out = SubSeq(c.out, Len(c.out) + 1, Len(c.out))]
        BY <3>2, <4>1
      <4>3. Len(c.out) \in 0 .. Len(c.out)
        BY <1>1
      <4>4. QED BY <4>2, <4>3
    <3>3. \/ \E n \in 0 .. Len(c.out) - 1 : d = [c EXCEPT !.out = SubSeq(c.out, n + 1, Len(c.out))]
          \/ d = [c EXCEPT !.out = << >>]
      <4>1. Len(c.out) # 0
        BY <1>1
      <4>2. (IF c.reads THEN 1 .. Len(c.out) - 1 ELSE {0}) \subseteq 0 .. Len(c.out) - 1
        BY <1>1, <4>1
      <4> DEFINE ns == IF c.reads THEN 1 .. Len(c.out) - 1 ELSE {0}
      <4>3. \/ d \in {Zeroed, [c EXCEPT !.out = << >>]}
            \/ \E n \in ns : d = [c EXCEPT !.out = SubSeq(c.out, n + 1, Len(c.out))]
        BY DEF flush
      <4> HIDE DEF ns
      <4>4. QED BY <1>3, <4>2, <4>3 DEF ns
    <3>4. QED BY <3>1, <3>2, <3>3
  <2>2. QED BY <1>3, <2>1, SendIsBusStep
<1>4. QED BY <1>2, <1>3 DEF Expire

\* A step that changes nothing the sessions are made of.
LEMMA QuietIsBusStep ==
    ASSUME IndInv, IndInv', npub' = npub,
           \A s \in Slots, i \in Ids : Live(clients[s], i) <=> Live(clients'[s], i),
           \A s \in Slots, i \in Ids : Live(clients[s], i) => SessionOf(clients'[s]) = SessionOf(clients[s])
    PROVE  BusStep
<1>1. OneEach(clients) /\ OneEach(clients')
  BY TableOneEach
<1>2. \A i \in Ids : SessionIn(clients, i) = SessionIn(clients', i)
  BY <1>1, SessionSame
<1>3. sessions' = sessions
  BY <1>2, SessionsAre
<1>4. QED BY <1>3 DEF BusStep

LEMMA PollIsBusStep ==
    ASSUME IndInv, IndInv', NEW n \in {0, 1}, Poll(n)
    PROVE  BusStep
<1>1. npub' = npub
  BY DEF Poll
<1>2. ASSUME NEW s \in Slots
      PROVE  /\ clients'[s].fd = clients[s].fd /\ clients'[s].connected = clients[s].connected
             /\ clients'[s].id = clients[s].id /\ clients'[s].subs = clients[s].subs
             /\ clients'[s].out = clients[s].out
  <2>1. clients[s] \in Client
    BY DEF IndInv, TypeOK
  <2>2. clients'[s] = clients[s]
        \/ clients'[s] = [clients[s] EXCEPT !.age = Min({MaxAge, clients[s].age + n}), !.seen = TRUE]
    BY DEF Poll
  <2>3. QED BY <2>1, <2>2 DEF Client
<1>3. QED BY <1>1, <1>2, QuietIsBusStep DEF Live, SessionOf

LEMMA AcceptIsBusStep ==
    ASSUME IndInv, IndInv', NEW r \in BOOLEAN, Accept(r)
    PROVE  BusStep
<1> DEFINE free == {s \in Slots : ~Open(s)}
           slot == Min(free)
           c == [Zeroed EXCEPT !.fd = NewFd, !.reads = r]
<1>1. slot \in Slots /\ ~Open(slot)
  <2>1. free # {} /\ free \in SUBSET Nat
    BY SlotsFinite DEF Accept
  <2>2. PICK m \in free : \A x \in free : m <= x
    BY <2>1, LeastExists
  <2>3. Min(free) = m
    BY <2>1, <2>2 DEF Min
  <2>4. QED BY <2>2, <2>3
<1>2. clients' = [clients EXCEPT ![slot] = c] /\ npub' = npub
  BY DEF Accept
<1>3. ~c.connected
  BY DEF Zeroed
<1> HIDE DEF slot, c
<1>4. clients'[slot] = c /\ \A s \in Slots : s # slot => clients'[s] = clients[s]
  BY <1>1, <1>2 DEF IndInv, TypeOK
<1>5. \A i \in Ids : ~Live(clients[slot], i) /\ ~Live(clients'[slot], i)
  BY <1>1, <1>3, <1>4 DEF Live, Open
<1>6. QED BY <1>2, <1>4, <1>5, QuietIsBusStep

LEMMA RoundIsBusStep ==
    ASSUME IndInv, IndInv', NoAccept \/ Skip \/ Unready \/ EndRead \/ ClosingPass \/ ReadData \/ ReadEnd
    PROVE  BusStep
<1>1. npub' = npub /\ k \in Slots /\ clients \in [Slots -> Client]
  BY DEF NoAccept, Skip, Unready, EndRead, FlushTurn, ClosingPass, ReadData, ReadEnd, IndInv, TypeOK
<1>2. CASE clients' = clients
  BY <1>1, <1>2, QuietIsBusStep
<1>3. CASE FlushTurn
  BY <1>1, <1>2, <1>3, FlushIsBusStep DEF FlushTurn
<1>4. CASE ClosingPass
  <2>1. CASE Open(k) /\ clients[k].out # << >>
    BY <1>1, <1>4, <2>1, FlushIsBusStep DEF ClosingPass
  <2>2. CASE Open(k) /\ clients[k].out = << >>
    <3>1. clients' = [clients EXCEPT ![k] = Expire(clients[k])]
      BY <1>4, <2>2 DEF ClosingPass
    <3>2. clients' = clients \/ clients' = [clients EXCEPT ![k] = Zeroed]
      BY <1>1, <3>1 DEF Expire
    <3>3. QED BY <1>1, <1>2, <3>2, CloseIsBusStep
  <2>3. CASE ~Open(k)
    BY <1>2, <1>4, <2>3 DEF ClosingPass
  <2>4. QED BY <2>1, <2>2, <2>3
<1>5. CASE ReadData
  <2>1. clients' = [clients EXCEPT ![k] = [clients[k] EXCEPT !.age = 0]]
    BY <1>5 DEF ReadData
  <2>2. ASSUME NEW s \in Slots
        PROVE  /\ clients'[s].fd = clients[s].fd /\ clients'[s].connected = clients[s].connected
               /\ clients'[s].id = clients[s].id /\ clients'[s].subs = clients[s].subs
               /\ clients'[s].out = clients[s].out
    BY <1>1, <2>1 DEF Client
  <2>3. QED BY <1>1, <2>2, QuietIsBusStep DEF Live, SessionOf
<1>6. CASE ReadEnd
  BY <1>1, <1>6, CloseIsBusStep DEF ReadEnd
<1>7. QED BY <1>2, <1>3, <1>4, <1>5, <1>6 DEF NoAccept, Skip, Unready, EndRead

WithInbox(r, q) == [r EXCEPT !.inbox = q]

LEMMA QueueSession ==
    ASSUME NEW c \in Client, NEW p \in Packets
    PROVE  /\ queue(c, p).fd = c.fd /\ queue(c, p).connected = c.connected
           /\ queue(c, p).id = c.id /\ queue(c, p).subs = c.subs
           /\ queue(c, p).out = Append(c.out, p) /\ queue(c, p) \in Client
           /\ p.type # "publish" => SessionOf(queue(c, p)) = SessionOf(c)
           /\ p.type = "publish" =>
                SessionOf(queue(c, p)) = WithInbox(SessionOf(c), Append(Numbers(c.out), p.n))
<1>1. c.out \in Seq(Packets)
  BY DEF Client
<1>2. Append(c.out, p) \in Seq(Packets)
  BY <1>1
<1>3. /\ queue(c, p).fd = c.fd /\ queue(c, p).connected = c.connected
      /\ queue(c, p).id = c.id /\ queue(c, p).subs = c.subs
      /\ queue(c, p).out = Append(c.out, p) /\ queue(c, p) \in Client
  BY <1>2 DEF Client, queue
<1>4. Numbers(Append(c.out, p)) = IF p.type = "publish" THEN Append(Numbers(c.out), p.n) ELSE Numbers(c.out)
  BY <1>1, NumbersAppend
<1>5. p.type # "publish" => SessionOf(queue(c, p)) = SessionOf(c)
  BY <1>3, <1>4 DEF SessionOf
<1>6. p.type = "publish" =>
        SessionOf(queue(c, p)) = [up |-> TRUE, subs |-> Range(c.subs), inbox |-> Append(Numbers(c.out), p.n)]
  BY <1>3, <1>4 DEF SessionOf
<1>7. QED BY <1>3, <1>5, <1>6, SessionExcept DEF WithInbox

LEMMA ReplyIsNoPublication ==
    ASSUME NEW t \in {"connack", "refused", "suback", "unsuback", "puback", "pingresp"}
    PROVE  Reply(t).type # "publish"
BY DEF Reply

LEMMA RefusePingIsBusStep ==
    ASSUME IndInv, IndInv', RefuseConnect \/ HandlePing
    PROVE  BusStep
<1>1. /\ k \in Slots /\ clients \in [Slots -> Client] /\ clients[k] \in Client /\ npub' = npub
  BY HandlingFacts DEF RefuseConnect, HandlePing
<1>2. CASE RefuseConnect
  <2> DEFINE d == [queue(clients[k], Reply("refused")) EXCEPT !.closing = TRUE]
  <2>1. ~d.connected
    BY <1>1, <1>2 DEF RefuseConnect, queue, Client
  <2>2. clients' = [clients EXCEPT ![k] = d] /\ ~clients[k].connected
    BY <1>2 DEF RefuseConnect
  <2> HIDE DEF d
  <2>3. clients'[k] = d /\ \A s \in Slots : s # k => clients'[s] = clients[s]
    BY <1>1, <2>2
  <2>4. \A i \in Ids : ~Live(clients[k], i) /\ ~Live(clients'[k], i)
    BY <2>1, <2>2, <2>3 DEF Live
  <2>5. QED BY <1>1, <2>3, <2>4, QuietIsBusStep
<1>3. CASE HandlePing
  <2> DEFINE d == queue(clients[k], Reply("pingresp"))
  <2>1. clients' = [clients EXCEPT ![k] = d]
    BY <1>3 DEF HandlePing
  <2>2. /\ d.fd = clients[k].fd /\ d.connected = clients[k].connected /\ d.id = clients[k].id
        /\ SessionOf(d) = SessionOf(clients[k])
    BY <1>1, PacketTypes, QueueSession, ReplyIsNoPublication
  <2> HIDE DEF d
  <2>3. clients'[k] = d /\ \A s \in Slots : s # k => clients'[s] = clients[s]
    BY <1>1, <2>1
  <2>4. \A i \in Ids : Live(clients[k], i) <=> Live(clients'[k], i)
    BY <2>2, <2>3 DEF Live
  <2>5. QED BY <1>1, <2>2, <2>3, <2>4, QuietIsBusStep
<1>4. QED BY <1>2, <1>3

LEMMA SubscribeIsBusStep ==
    ASSUME IndInv, IndInv', NEW fs \in FilterLists, handle_subscribe(fs) \/ handle_unsubscribe(fs)
    PROVE  BusStep
<1> DEFINE c == clients[k]
<1>1. Handling /\ c.connected /\ npub' = npub
  BY DEF handle_subscribe, handle_unsubscribe
<1>2. c \in Client
  BY <1>1, HandlingFacts
<1>3. PICK sub \in BOOLEAN, t \in {"suback", "unsuback"} :
        clients' = [clients EXCEPT ![k] = queue(each_filter(c, sub, fs), Reply(t))]
  BY DEF handle_subscribe, handle_unsubscribe
<1>4. Resubscribed(c, each_filter(c, sub, fs))
  BY <1>2, FilterListsAreSeqs, EachFilter
<1>5. PICK l \in Seq(Filters) : each_filter(c, sub, fs) = [c EXCEPT !.subs = l]
  BY <1>4 DEF Resubscribed
<1> DEFINE e == [c EXCEPT !.subs = l]
           d == queue(e, Reply(t))
<1>6. e \in Client /\ e.fd = c.fd /\ e.id = c.id /\ e.connected = c.connected /\ e.subs = l /\ e.out = c.out
  BY <1>2 DEF Client
<1> HIDE DEF e
<1>7. SessionOf(d) = SessionOf(e) /\ d.fd = c.fd /\ d.id = c.id /\ d.connected = c.connected
  <2>1. Reply(t) \in Packets /\ Reply(t).type # "publish"
    BY PacketTypes, ReplyIsNoPublication
  <2>2. QED BY <1>6, <2>1, QueueSession
<1>8. SessionOf(e) = [SessionOf(c) EXCEPT !.subs = Range(l)]
  <2>1. SessionOf(e) = [up |-> TRUE, subs |-> Range(l), inbox |-> Numbers(c.out)]
    BY <1>6 DEF SessionOf
  <2>2. QED BY <2>1, SessionExcept
<1>9. clients' = [clients EXCEPT ![k] = d]
  BY <1>3, <1>5 DEF e
<1> HIDE DEF d
<1>10. Range(l) \in SUBSET Filters
  BY DEF Range
<1>11. \/ sessions' = sessions
       \/ \E i \in Ids : /\ sessions[i] = SessionOf(c)
                         /\ \/ sessions' = [sessions EXCEPT ![i] = Bus!Down]
                            \/ sessions' = [sessions EXCEPT ![i] = SessionOf(d)]
  BY <1>7, <1>9, OneSlotSessions
<1>12. CASE sessions' = sessions
  BY <1>1, <1>12 DEF BusStep
<1>13. ASSUME NEW i \in Ids, sessions' = [sessions EXCEPT ![i] = Bus!Down]
       PROVE  BusStep
  BY <1>1, <1>13 DEF BusStep, Bus!Next, Bus!Drop, sessions
<1>14. ASSUME NEW i \in Ids, sessions[i] = SessionOf(c), sessions' = [sessions EXCEPT ![i] = SessionOf(d)]
       PROVE  BusStep
  <2>1. sessions[i].up
    BY <1>14 DEF SessionOf
  <2>2. sessions' = [sessions EXCEPT ![i].subs = Range(l)]
    BY <1>7, <1>8, <1>14
  <2>3. Bus!Resubscribe(i)
    BY <1>1, <1>10, <2>1, <2>2 DEF Bus!Resubscribe, sessions
  <2>4. QED BY <2>3 DEF BusStep, Bus!Next
<1>15. QED BY <1>11, <1>12, <1>13, <1>14

LEMMA ConnectIsBusStep ==
    ASSUME IndInv, IndInv', NEW id \in Ids \cup {NoId}, NEW ka \in Keepalives, handle_connect(id, ka)
    PROVE  BusStep
<1> DEFINE c == clients[k]
           e == [c EXCEPT !.id = id, !.keepalive = ka, !.connected = TRUE]
           d == queue(e, Reply("connack"))
<1>1. Handling /\ ~c.connected /\ npub' = npub
  BY DEF handle_connect
<1>2. /\ c \in Client /\ SlotOk(c) /\ c.fd # Closed /\ ~c.closing /\ k \in Slots
  BY <1>1, HandlingFacts
<1>3. /\ \A s \in Slots : s \in TakenOver(id) => clients'[s] = Zeroed
      /\ clients'[k] = d
      /\ \A s \in Slots : s # k /\ s \notin TakenOver(id) => clients'[s] = clients[s]
  BY <1>2 DEF handle_connect, TakenOver
<1>4. c.subs = << >> /\ c.out = << >>
  BY <1>1, <1>2 DEF SlotOk
<1>5. e \in Client /\ e.fd = c.fd /\ e.id = id /\ e.connected /\ e.subs = << >> /\ e.out = << >>
  BY <1>2, <1>4 DEF Client
<1> HIDE DEF e
<1>6. d.fd = c.fd /\ d.id = id /\ d.connected /\ SessionOf(d) = SessionOf(e)
  BY <1>5, PacketTypes, QueueSession, ReplyIsNoPublication
<1> HIDE DEF d
<1>7. SessionOf(d) = [Bus!Down EXCEPT !.up = TRUE]
  <2>1. Range(<< >>) = {}
    BY DEF Range
  <2>2. SessionOf(e) = [up |-> TRUE, subs |-> {}, inbox |-> << >>]
    BY <1>5, <2>1, NumbersEmpty DEF SessionOf
  <2>3. QED BY <1>6, <2>2, SessionExcept
<1>8. OneEach(clients) /\ OneEach(clients')
  BY TableOneEach
<1>9. ASSUME NEW j \in Ids, j # id
      PROVE  SessionIn(clients', j) = SessionIn(clients, j)
  <2>1. ASSUME NEW s \in Slots
        PROVE  /\ Live(clients'[s], j) <=> Live(clients[s], j)
               /\ Live(clients'[s], j) => SessionOf(clients[s]) = SessionOf(clients'[s])
    <3>1. CASE s = k
      BY <1>1, <1>3, <1>6, <1>9, <3>1 DEF Live
    <3>2. CASE s \in TakenOver(id)
      BY <1>3, <1>9, <3>2, ZeroedOk DEF Live, TakenOver
    <3>3. CASE s # k /\ s \notin TakenOver(id)
      BY <1>3, <3>3
    <3>4. QED BY <3>1, <3>2, <3>3
  <2>2. QED BY <1>8, <2>1, SessionSame
<1>10. CASE id \in Ids
  <2>1. Live(clients'[k], id)
    BY <1>2, <1>3, <1>6 DEF Live
  <2>2. SessionIn(clients', id) = SessionOf(d)
    BY <1>2, <1>3, <1>8, <1>10, <2>1, SessionUp
  <2>3. sessions' = [sessions EXCEPT ![id] = [Bus!Down EXCEPT !.up = TRUE]]
    BY <1>7, <1>9, <1>10, <2>2, SessionsAre
  <2>4. Bus!Connect(id)
    BY <1>1, <2>3 DEF Bus!Connect, sessions
  <2>5. QED BY <1>10, <2>4 DEF BusStep, Bus!Next
<1>11. CASE id \notin Ids
  <2>1. sessions' = sessions
    BY <1>9, <1>11, SessionsAre
  <2>2. QED BY <1>1, <2>1 DEF BusStep
<1>12. QED BY <1>10, <1>11

LEMMA PublishIsBusStep ==
    ASSUME IndInv, IndInv', NEW t, NEW qos, publish(t, qos)
    PROVE  BusStep
<1> DEFINE acked == IF qos = 1 THEN [clients EXCEPT ![k] = queue(@, Reply("puback"))] ELSE clients
           p == Publication(npub + 1)
<1>1. /\ Handling /\ npub < MaxPubs
      /\ npub' = IF t \in Topics THEN npub + 1 ELSE npub
      /\ clients' = [s \in Slots |-> IF t \in Topics /\ Receives(s, t) THEN queue(acked[s], p) ELSE acked[s]]
  BY DEF publish
<1>2. npub \in Nat /\ MaxPubs \in Nat /\ npub + 1 \in 1 .. MaxPubs
  BY <1>1, HandlingFacts, BrokerAssumption
<1>3. p \in Packets /\ p.type = "publish" /\ p.n = npub + 1
  BY <1>2, PacketTypes DEF Publication
<1>4. ASSUME NEW s \in Slots
      PROVE  /\ clients[s] \in Client /\ acked[s] \in Client /\ acked[s].fd = clients[s].fd
             /\ acked[s].connected = clients[s].connected /\ acked[s].id = clients[s].id
             /\ SessionOf(acked[s]) = SessionOf(clients[s])
             /\ Numbers(acked[s].out) = Numbers(clients[s].out)
  <2>1. Reply("puback") \in Packets /\ Reply("puback").type # "publish"
    BY PacketTypes, ReplyIsNoPublication
  <2>2. clients \in [Slots -> Client] /\ k \in Slots
    BY DEF IndInv, TypeOK
  <2>3. acked[s] = clients[s] \/ acked[s] = queue(clients[s], Reply("puback"))
    BY <2>2
  <2> HIDE DEF acked
  <2>4. /\ clients[s] \in Client /\ acked[s] \in Client /\ acked[s].fd = clients[s].fd
        /\ acked[s].connected = clients[s].connected /\ acked[s].id = clients[s].id
        /\ SessionOf(acked[s]) = SessionOf(clients[s])
    BY <2>1, <2>2, <2>3, QueueSession
  <2>5. \A x : SessionOf(x).inbox = Numbers(x.out)
    BY DEF SessionOf
  <2>6. QED BY <2>4, <2>5, Zenon
<1> HIDE DEF acked, p
<1>5. ASSUME NEW s \in Slots
      PROVE  /\ \A i \in Ids : Live(clients[s], i) <=> Live(clients'[s], i)
             /\ t \in Topics /\ Receives(s, t) =>
                  SessionOf(clients'[s]) = WithInbox(SessionOf(clients[s]), Append(Numbers(clients[s].out), npub + 1))
             /\ ~(t \in Topics /\ Receives(s, t)) => SessionOf(clients'[s]) = SessionOf(clients[s])
  <2>1. CASE t \in Topics /\ Receives(s, t)
    <3>1. clients'[s] = queue(acked[s], p)
      BY <1>1, <2>1
    <3>2. /\ clients'[s].fd = clients[s].fd /\ clients'[s].connected = clients[s].connected
          /\ clients'[s].id = clients[s].id
          /\ SessionOf(clients'[s]) = WithInbox(SessionOf(acked[s]), Append(Numbers(acked[s].out), npub + 1))
      <4>1. acked[s] \in Client
        BY <1>4
      <4>2. SessionOf(clients'[s]) = WithInbox(SessionOf(acked[s]), Append(Numbers(acked[s].out), p.n))
        BY <1>3, <3>1, <4>1, QueueSession
      <4>3. /\ clients'[s].fd = acked[s].fd /\ clients'[s].connected = acked[s].connected
            /\ clients'[s].id = acked[s].id
        BY <1>3, <3>1, <4>1, QueueSession
      <4>4. QED BY <1>3, <1>4, <4>2, <4>3
    <3>3. QED BY <1>4, <2>1, <3>2 DEF Live
  <2>2. CASE ~(t \in Topics /\ Receives(s, t))
    <3>1. clients'[s] = acked[s]
      BY <1>1, <2>2
    <3>2. QED BY <1>4, <2>2, <3>1 DEF Live
  <2>3. QED BY <2>1, <2>2
<1>6. CASE t \notin Topics
  BY <1>1, <1>5, <1>6, QuietIsBusStep
<1>7. CASE t \in Topics
  <2> DEFINE told(r) == IF \E f \in r.subs : <<f, t>> \in Matches
                        THEN [r EXCEPT !.inbox = Append(@, npub + 1)] ELSE r
  <2>1. OneEach(clients) /\ OneEach(clients')
    BY TableOneEach
  <2>2. ASSUME NEW i \in Ids
        PROVE  SessionIn(clients', i) = told(SessionIn(clients, i))
    <3>1. CASE \E s \in Slots : Live(clients[s], i)
      <4>1. PICK s \in Slots : Live(clients[s], i)
        BY <3>1
      <4>2. Live(clients'[s], i)
        BY <1>5, <4>1
      <4>3. SessionIn(clients', i) = SessionOf(clients'[s]) /\ SessionIn(clients, i) = SessionOf(clients[s])
        BY <2>1, <4>1, <4>2, SessionUp
      <4>4. Receives(s, t) <=> \E f \in SessionOf(clients[s]).subs : <<f, t>> \in Matches
        BY <4>1 DEF Receives, Live, Open, has_match, SessionOf, Range
      <4>5. SessionOf(clients[s]).inbox = Numbers(clients[s].out)
        BY DEF SessionOf
      <4>6. QED BY <1>5, <1>7, <4>3, <4>4, <4>5 DEF WithInbox
    <3>2. CASE \A s \in Slots : ~Live(clients[s], i)
      <4>1. SessionIn(clients', i) = Bus!Down /\ SessionIn(clients, i) = Bus!Down
        BY <1>5, <3>2, SessionDown
      <4>2. Bus!Down.subs = {}
        BY DEF Bus!Down
      <4>3. QED BY <4>1, <4>2
    <3>3. QED BY <3>1, <3>2
  <2>3. sessions' = [i \in Ids |-> told(sessions[i])]
    BY <2>2, SessionsAre
  <2>4. Bus!Publish(t)
    BY <1>1, <1>7, <2>3 DEF Bus!Publish, sessions
  <2>5. QED BY <1>7, <2>4 DEF BusStep, Bus!Next
<1>8. QED BY <1>6, <1>7

LEMMA StepIsBusStep == IndInv /\ IndInv' /\ [Next]_vars => BusStep
<1> SUFFICES ASSUME IndInv, IndInv', [Next]_vars
             PROVE  BusStep
  OBVIOUS
<1>1. CASE Loop \/ ReadData \/ ReadEnd
  BY <1>1, PollIsBusStep, RoundIsBusStep DEF Loop
<1>2. CASE Packet
  <2>1. CASE HandleClose
    BY <2>1, CloseIsBusStep DEF HandleClose
  <2>2. QED
    BY <1>2, <2>1, RefusePingIsBusStep, ConnectIsBusStep, PublishIsBusStep, SubscribeIsBusStep DEF Packet
<1>3. CASE \E r \in BOOLEAN : Accept(r)
  BY <1>3, AcceptIsBusStep
<1>4. CASE UNCHANGED vars
  BY <1>4 DEF vars, BusStep, sessions, Session, Open
<1>5. QED BY <1>1, <1>2, <1>3, <1>4 DEF Next

\* Through takeovers, slot and descriptor reuse, partial sends and lost
\* connections the broker is the bus: a publication enters the queue of every
\* session with a matching filter once and in order, and leaves it only from
\* the head.
THEOREM BrokerImplementsBus == Spec => ImplementsBus
<1>1. Init => Bus!Init
  <2> SUFFICES ASSUME Init
               PROVE  Bus!Init
    OBVIOUS
  <2>1. \A i \in Ids, s \in Slots : ~Live(clients[s], i)
    BY ZeroedOk DEF Init, Live
  <2>2. \A i \in Ids : SessionIn(clients, i) = Bus!Down
    BY <2>1, SessionDown
  <2>3. sessions = [i \in Ids |-> Bus!Down]
    BY <2>2, SessionsAre
  <2>4. QED BY <2>3 DEF Bus!Init, Init, sessions
<1>2. IndInv /\ IndInv' /\ [Next]_vars => [Bus!Next]_<<sessions, npub>>
  BY StepIsBusStep DEF BusStep
<1>3. QED BY <1>1, <1>2, TableInvariant, PTL DEF Spec, ImplementsBus, Bus!Spec, sessions

=============================================================================

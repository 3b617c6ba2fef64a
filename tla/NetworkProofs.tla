--------------------------- MODULE NetworkProofs ---------------------------
(***************************************************************************)
(* The programs on sockets that MCNetwork checks: where the pieces of a     *)
(* torrent download are, for any number of peers and pieces and whatever    *)
(* the peers do; what the MQTT broker makes of a stream of packets, however *)
(* TCP cuts it; and what its topic filters match, level by level.           *)
(***************************************************************************)
EXTENDS TorrentDownload, MqttTopics, MqttFrames, BoundedInduction, FiniteSetTheorems, SequenceTheorems, TLAPS

-----------------------------------------------------------------------------
(* The torrent download *)

(* What is on a channel *)
Has(s, p) == \E j \in DOMAIN s : s[j] = p
HasPiece(s, p) == \E j \in DOMAIN s : s[j].piece = p
NoTwice(s) == \A i, j \in DOMAIN s : s[i] = s[j] => i = j
NoPieceTwice(s) == \A i, j \in DOMAIN s : s[i].piece = s[j].piece => i = j

(* The four places a piece can be in *)
InWork(p) == Has(work, p)
InHands(p) == \E w \in Peers : holding[w] = p
InResults(p) == HasPiece(results, p)
InFile(p) == file[p] # "none"

\* No place holds a piece twice.
Once ==
    /\ NoTwice(work) /\ NoPieceTwice(results)
    /\ \A v, w \in Peers : holding[v] = holding[w] /\ holding[v] # NoPiece => v = w

\* Every piece is in one place, and in no other.
Somewhere == \A p \in Pieces : InWork(p) \/ InHands(p) \/ InResults(p) \/ InFile(p)

Apart ==
    \A p \in Pieces :
      /\ InWork(p) => ~InHands(p) /\ ~InResults(p) /\ ~InFile(p)
      /\ InHands(p) => ~InResults(p) /\ ~InFile(p)
      /\ InResults(p) => ~InFile(p)

\* A worker holds a piece exactly while it downloads and verifies it.
HoldsWhileBusy ==
    \A w \in Peers : holding[w] # NoPiece <=> worker[w] \in {"download", "verify"}

\* Only verified pieces get past a worker.
Clean ==
    /\ \A j \in DOMAIN results : results[j].good = TRUE
    /\ \A p \in Pieces : file[p] # "bad"

Filed == {p \in Pieces : file[p] # "none"}

\* Download's counter counts pieces, and the channel is closed when all are in.
Counted ==
    /\ received = Cardinality(Filed)
    /\ closed <=> main = "returned"
    /\ closed => received = N
    /\ ~panic

IndInv == TypeOK /\ Once /\ Somewhere /\ Apart /\ HoldsWhileBusy /\ Clean /\ Counted

-----------------------------------------------------------------------------
(* The channels: what a send and a receive do to what is on them *)

Results == [piece : Pieces, good : BOOLEAN]

LEMMA SendsWork ==
    ASSUME NEW s \in Seq(Pieces), NEW x \in Pieces, NoTwice(s), ~Has(s, x)
    PROVE  /\ Append(s, x) \in Seq(Pieces) /\ Len(Append(s, x)) = Len(s) + 1
           /\ NoTwice(Append(s, x))
           /\ \A p : Has(Append(s, x), p) <=> Has(s, p) \/ p = x
<1> DEFINE t == Append(s, x)
<1>1. /\ t \in Seq(Pieces) /\ Len(t) = Len(s) + 1 /\ Len(s) \in Nat
      /\ DOMAIN s = 1 .. Len(s) /\ DOMAIN t = 1 .. Len(s) + 1
      /\ t[Len(s) + 1] = x /\ \A i \in 1 .. Len(s) : t[i] = s[i]
  BY AppendProperties
<1> HIDE DEF t
<1>2. \A p : Has(t, p) <=> Has(s, p) \/ p = x
  BY <1>1 DEF Has
<1>3. NoTwice(t)
  BY <1>1 DEF Has, NoTwice
<1>4. QED BY <1>1, <1>2, <1>3 DEF t

LEMMA ReceivesWork ==
    ASSUME NEW s \in Seq(Pieces), s # << >>, NoTwice(s)
    PROVE  /\ Tail(s) \in Seq(Pieces) /\ Len(Tail(s)) = Len(s) - 1
           /\ NoTwice(Tail(s)) /\ Head(s) \in Pieces /\ Has(s, Head(s))
           /\ \A p : Has(Tail(s), p) <=> Has(s, p) /\ p # Head(s)
<1> DEFINE t == Tail(s)
<1>1. /\ t \in Seq(Pieces) /\ Len(t) = Len(s) - 1 /\ Len(s) \in Nat \ {0}
      /\ DOMAIN s = 1 .. Len(s) /\ DOMAIN t = 1 .. Len(s) - 1
      /\ Head(s) = s[1] /\ s[1] \in Pieces /\ \A i \in 1 .. Len(s) - 1 : t[i] = s[i + 1]
  <2>1. Len(s) \in Nat /\ Len(s) # 0
    BY EmptySeq
  <2>2. QED BY <2>1, HeadTailProperties
<1> HIDE DEF t
<1>2. ASSUME NEW p
      PROVE  Has(t, p) <=> Has(s, p) /\ p # s[1]
  <2>1. ASSUME Has(t, p)
        PROVE  Has(s, p) /\ p # s[1]
    <3>1. PICK j \in 1 .. Len(s) - 1 : t[j] = p
      BY <1>1, <2>1 DEF Has
    <3>2. j + 1 \in DOMAIN s /\ 1 \in DOMAIN s /\ j + 1 # 1 /\ s[j + 1] = p
      BY <1>1, <3>1
    <3>3. QED BY <3>2 DEF Has, NoTwice
  <2>2. ASSUME Has(s, p), p # s[1]
        PROVE  Has(t, p)
    <3>1. PICK j \in 1 .. Len(s) : s[j] = p
      BY <1>1, <2>2 DEF Has
    <3>2. j - 1 \in 1 .. Len(s) - 1 /\ (j - 1) + 1 = j
      BY <1>1, <3>1, <2>2
    <3>3. t[j - 1] = p /\ j - 1 \in DOMAIN t
      BY <1>1, <3>1, <3>2
    <3>4. QED BY <3>3 DEF Has
  <2>3. QED BY <2>1, <2>2
<1>3. NoTwice(t)
  <2>1. SUFFICES ASSUME NEW i \in 1 .. Len(s) - 1, NEW j \in 1 .. Len(s) - 1, t[i] = t[j]
                 PROVE  i = j
    BY <1>1 DEF NoTwice
  <2>2. i + 1 \in DOMAIN s /\ j + 1 \in DOMAIN s /\ s[i + 1] = s[j + 1]
    BY <1>1, <2>1
  <2>3. i + 1 = j + 1
    BY <2>2 DEF NoTwice
  <2>4. QED BY <2>3
<1>4. Has(s, s[1])
  BY <1>1 DEF Has
<1>5. QED BY <1>1, <1>2, <1>3, <1>4 DEF t

LEMMA SendsResult ==
    ASSUME NEW s \in Seq(Results), NEW x \in Results, NoPieceTwice(s), ~HasPiece(s, x.piece)
    PROVE  /\ Append(s, x) \in Seq(Results) /\ Len(Append(s, x)) = Len(s) + 1
           /\ NoPieceTwice(Append(s, x))
           /\ \A p : HasPiece(Append(s, x), p) <=> HasPiece(s, p) \/ p = x.piece
           /\ \A j \in DOMAIN Append(s, x) : Append(s, x)[j] = x \/ Has(s, Append(s, x)[j])
<1> DEFINE t == Append(s, x)
<1>1. /\ t \in Seq(Results) /\ Len(t) = Len(s) + 1 /\ Len(s) \in Nat
      /\ DOMAIN s = 1 .. Len(s) /\ DOMAIN t = 1 .. Len(s) + 1
      /\ t[Len(s) + 1] = x /\ \A i \in 1 .. Len(s) : t[i] = s[i]
  BY AppendProperties
<1> HIDE DEF t
<1>2. \A p : HasPiece(t, p) <=> HasPiece(s, p) \/ p = x.piece
  BY <1>1 DEF HasPiece
<1>3. NoPieceTwice(t)
  BY <1>1 DEF HasPiece, NoPieceTwice
<1>4. \A j \in DOMAIN t : t[j] = x \/ Has(s, t[j])
  BY <1>1 DEF Has
<1>5. QED BY <1>1, <1>2, <1>3, <1>4 DEF t

LEMMA ReceivesResult ==
    ASSUME NEW s \in Seq(Results), s # << >>, NoPieceTwice(s)
    PROVE  /\ Tail(s) \in Seq(Results) /\ Len(Tail(s)) = Len(s) - 1
           /\ NoPieceTwice(Tail(s)) /\ Head(s) \in Results
           /\ Has(s, Head(s)) /\ HasPiece(s, Head(s).piece)
           /\ \A p : HasPiece(Tail(s), p) <=> HasPiece(s, p) /\ p # Head(s).piece
           /\ \A j \in DOMAIN Tail(s) : Has(s, Tail(s)[j])
<1> DEFINE t == Tail(s)
<1>1. /\ t \in Seq(Results) /\ Len(t) = Len(s) - 1 /\ Len(s) \in Nat \ {0}
      /\ DOMAIN s = 1 .. Len(s) /\ DOMAIN t = 1 .. Len(s) - 1
      /\ Head(s) = s[1] /\ s[1] \in Results /\ \A i \in 1 .. Len(s) - 1 : t[i] = s[i + 1]
  <2>1. Len(s) \in Nat /\ Len(s) # 0
    BY EmptySeq
  <2>2. QED BY <2>1, HeadTailProperties
<1> HIDE DEF t
<1>2. ASSUME NEW p
      PROVE  HasPiece(t, p) <=> HasPiece(s, p) /\ p # s[1].piece
  <2>1. ASSUME HasPiece(t, p)
        PROVE  HasPiece(s, p) /\ p # s[1].piece
    <3>1. PICK j \in 1 .. Len(s) - 1 : t[j].piece = p
      BY <1>1, <2>1 DEF HasPiece
    <3>2. j + 1 \in DOMAIN s /\ 1 \in DOMAIN s /\ j + 1 # 1 /\ s[j + 1].piece = p
      BY <1>1, <3>1
    <3>3. QED BY <3>2 DEF HasPiece, NoPieceTwice
  <2>2. ASSUME HasPiece(s, p), p # s[1].piece
        PROVE  HasPiece(t, p)
    <3>1. PICK j \in 1 .. Len(s) : s[j].piece = p
      BY <1>1, <2>2 DEF HasPiece
    <3>2. j - 1 \in 1 .. Len(s) - 1 /\ (j - 1) + 1 = j
      BY <1>1, <3>1, <2>2
    <3>3. t[j - 1].piece = p /\ j - 1 \in DOMAIN t
      BY <1>1, <3>1, <3>2
    <3>4. QED BY <3>3 DEF HasPiece
  <2>3. QED BY <2>1, <2>2
<1>3. NoPieceTwice(t)
  <2>1. SUFFICES ASSUME NEW i \in 1 .. Len(s) - 1, NEW j \in 1 .. Len(s) - 1,
                        t[i].piece = t[j].piece
                 PROVE  i = j
    BY <1>1 DEF NoPieceTwice
  <2>2. i + 1 \in DOMAIN s /\ j + 1 \in DOMAIN s /\ s[i + 1].piece = s[j + 1].piece
    BY <1>1, <2>1
  <2>3. i + 1 = j + 1
    BY <2>2 DEF NoPieceTwice
  <2>4. QED BY <2>3
<1>4. Has(s, s[1]) /\ HasPiece(s, s[1].piece) /\ \A j \in DOMAIN t : Has(s, t[j])
  BY <1>1 DEF Has, HasPiece
<1>5. QED BY <1>1, <1>2, <1>3, <1>4 DEF t

-----------------------------------------------------------------------------
(* Counting *)

LEMMA NIsNat == N \in Nat \ {0}
<1>1. N \in Nat
  BY TorrentAssumption, FS_CardinalityType DEF N
<1>2. N # 0
  BY TorrentAssumption, FS_EmptySet DEF N
<1>3. QED BY <1>1, <1>2

\* When the counter has reached the number of pieces, all are in the file.
LEMMA AllIn ==
    ASSUME received = Cardinality(Filed), received = N
    PROVE  \A p \in Pieces : InFile(p)
<1>1. Filed \in SUBSET Pieces
  BY DEF Filed
<1>2. Filed = Pieces
  BY <1>1, TorrentAssumption, FS_Subset DEF N
<1>3. QED BY <1>2 DEF Filed, InFile

\* Then nothing is left for a worker to hold.
LEMMA NothingHeld ==
    ASSUME IndInv, received = N
    PROVE  /\ \A p \in Pieces : InFile(p)
           /\ \A w \in Peers : holding[w] = NoPiece
<1>1. \A p \in Pieces : InFile(p)
  BY AllIn DEF IndInv, Counted
<1>2. \A w \in Peers : holding[w] \in Pieces \cup {NoPiece}
  BY DEF IndInv, TypeOK
<1>3. QED BY <1>1, <1>2 DEF IndInv, Apart, InHands

-----------------------------------------------------------------------------
(* The steps *)

LEMMA InitHolds ==
    ASSUME Init
    PROVE  IndInv
<1>1. N \in Nat \ {0} /\ N = Cardinality(Pieces)
  BY NIsNat DEF N
<1>2. work \in [1 .. N -> Pieces] /\ \A i, j \in 1 .. N : i # j => work[i] # work[j]
  BY <1>1 DEF Init, SetToSeqs
<1>3. work \in Seq(Pieces) /\ Len(work) = N /\ DOMAIN work = 1 .. N /\ NoTwice(work)
  <2>1. work \in Seq(Pieces)
    BY <1>1, <1>2, IsASeq
  <2>2. DOMAIN work = 1 .. N
    BY <1>2
  <2>3. Len(work) = N
    BY <2>1, <2>2, <1>1, LenProperties
  <2>4. QED BY <2>1, <2>2, <2>3, <1>2 DEF NoTwice
<1>4. \A p \in Pieces : InWork(p)
  <2>1. work \in Injection(1 .. N, Pieces)
    BY <1>2, Zenon DEF Injection, IsInjective
  <2>2. Cardinality(1 .. N) = N
    BY <1>1, FS_Interval
  <2>3. work \in Surjection(1 .. N, Pieces)
    BY <2>1, <2>2, <1>1, TorrentAssumption, FS_Injection
  <2>4. \A p \in Pieces : \E j \in 1 .. N : work[j] = p
    BY <2>3, Zenon DEF Surjection
  <2>5. QED BY <2>4, <1>3 DEF InWork, Has
<1>5. results = << >> /\ results \in Seq(Results) /\ Len(results) = 0 /\ DOMAIN results = {}
  BY EmptySeq DEF Init
<1>6. TypeOK
  <2>1. 0 \in 0 .. N
    BY <1>1
  <2>2. work \in Seq(Pieces) /\ Len(work) <= N /\ Len(results) <= N
    BY <1>1, <1>3, <1>5
  <2>3. results \in Seq([piece : Pieces, good : BOOLEAN])
    BY <1>5 DEF Results
  <2>4. QED BY <2>1, <2>2, <2>3 DEF Init, TypeOK, States
<1>7. Once
  BY <1>3, <1>5 DEF Init, Once, NoPieceTwice
<1>8. Somewhere
  BY <1>4 DEF Somewhere
<1>9. Apart
  BY <1>5, TorrentAssumption DEF Init, Apart, InHands, InResults, HasPiece, InFile
<1>10. HoldsWhileBusy /\ Clean
  BY <1>5 DEF Init, HoldsWhileBusy, Clean
<1>11. Counted
  <2>1. Filed = {}
    BY DEF Init, Filed
  <2>2. Cardinality(Filed) = 0
    BY <2>1, FS_EmptySet
  <2>3. QED BY <2>2, <1>1 DEF Init, Counted
<1>12. QED BY <1>6, <1>7, <1>8, <1>9, <1>10, <1>11 DEF IndInv

\* A step that moves no piece.
LEMMA StaysPut ==
    ASSUME IndInv, TypeOK', UNCHANGED <<work, holding, results, file, received, closed, main, panic>>,
           HoldsWhileBusy'
    PROVE  IndInv'
<1>1. (Once /\ Somewhere /\ Apart /\ Clean)'
  BY DEF IndInv, Once, Somewhere, Apart, Clean, InWork, InHands, InResults, InFile
<1>2. Counted'
  BY DEF IndInv, Counted, Filed
<1>3. QED BY <1>1, <1>2 DEF IndInv

LEMMA NewStep ==
    ASSUME IndInv, NEW w \in Peers, New(w) \/ NewFails(w) \/ RangeEnds(w) \/ downloadPiece(w)
    PROVE  IndInv'
<1> USE DEF IndInv
<1>1. CASE New(w)
  <2>1. Pieces \in SUBSET (Pieces \cup {NoPiece}) /\ Bitfields \subseteq SUBSET (Pieces \cup {NoPiece})
    BY DEF Bitfields
  <2>2. TypeOK'
    BY <1>1, <2>1 DEF TypeOK, New, States
  <2>3. HoldsWhileBusy'
    BY <1>1 DEF HoldsWhileBusy, New, TypeOK
  <2>4. QED BY <1>1, <2>2, <2>3, StaysPut DEF New
<1>2. CASE NewFails(w) \/ RangeEnds(w)
  <2>1. TypeOK'
    BY <1>2 DEF TypeOK, NewFails, RangeEnds, States
  <2>2. HoldsWhileBusy'
    BY <1>2 DEF HoldsWhileBusy, NewFails, RangeEnds, TypeOK
  <2>3. QED BY <1>2, <2>1, <2>2, StaysPut DEF NewFails, RangeEnds
<1>3. CASE downloadPiece(w)
  <2>1. Bitfields \subseteq SUBSET (Pieces \cup {NoPiece})
    BY DEF Bitfields
  <2>2. TypeOK'
    <3>1. PICK have \in Bitfields : bitfield' = [bitfield EXCEPT ![w] = bitfield[w] \cup have]
      BY <1>3 DEF downloadPiece
    <3>2. bitfield' \in [Peers -> SUBSET (Pieces \cup {NoPiece})]
      BY <2>1, <3>1 DEF TypeOK
    <3>3. good' \in [Peers -> BOOLEAN] /\ worker' \in [Peers -> States]
      BY <1>3 DEF TypeOK, downloadPiece, States
    <3>4. QED BY <1>3, <3>2, <3>3 DEF TypeOK, downloadPiece
  <2>3. HoldsWhileBusy'
    BY <1>3 DEF HoldsWhileBusy, downloadPiece, Tries, TypeOK
  <2>4. QED BY <1>3, <2>2, <2>3, StaysPut DEF downloadPiece
<1>4. QED BY <1>1, <1>2, <1>3

LEMMA TakeStep ==
    ASSUME IndInv, NEW w \in Peers, Take(w)
    PROVE  IndInv'
<1> DEFINE h == Head(work)
<1>1. /\ work \in Seq(Pieces) /\ Len(work) <= N /\ Len(work) \in Nat /\ N \in Nat
      /\ holding \in [Peers -> Pieces \cup {NoPiece}] /\ worker \in [Peers -> States]
      /\ holding[w] = NoPiece /\ work # << >> /\ NoTwice(work)
  BY NIsNat, LenProperties DEF IndInv, TypeOK, Take, HoldsWhileBusy, Once
<1>2. /\ work' \in Seq(Pieces) /\ Len(work') = Len(work) - 1 /\ NoTwice(work')
      /\ h \in Pieces /\ InWork(h) /\ \A p : InWork(p)' <=> InWork(p) /\ p # h
  BY <1>1, ReceivesWork DEF Take, InWork
<1>3. h # NoPiece
  BY <1>2, TorrentAssumption
<1> HIDE DEF h
<1>4. holding' = [holding EXCEPT ![w] = h] /\ worker' = [worker EXCEPT ![w] = "download"]
  BY DEF Take, h
<1>5. \A p \in Pieces : InHands(p)' <=> InHands(p) \/ p = h
  BY <1>1, <1>3, <1>4, TorrentAssumption DEF InHands
<1>6. \A p : (InResults(p)' <=> InResults(p)) /\ (InFile(p)' <=> InFile(p))
  BY DEF Take, InResults, InFile
<1>7. TypeOK'
  <2>1. Len(work') <= N
    BY <1>1, <1>2
  <2>2. QED BY <1>1, <1>2, <1>4, <2>1 DEF IndInv, TypeOK, Take, States
<1>8. Once'
  <2>1. ~InHands(h)
    BY <1>2 DEF IndInv, Apart
  <2>2. QED BY <1>1, <1>2, <1>4, <2>1 DEF IndInv, Once, Take, InHands
<1>9. Somewhere' /\ Apart'
  BY <1>2, <1>5, <1>6 DEF IndInv, Somewhere, Apart
<1>10. HoldsWhileBusy'
  BY <1>1, <1>3, <1>4 DEF IndInv, HoldsWhileBusy
<1>11. Clean' /\ Counted'
  BY DEF IndInv, Clean, Counted, Filed, Take
<1>12. QED BY <1>7, <1>8, <1>9, <1>10, <1>11 DEF IndInv

\* A worker that puts its piece back finds the channel open: when it is closed
\* nobody holds a piece.
LEMMA PutBackStep ==
    ASSUME IndInv, NEW w \in Peers, worker[w] \in {"download", "verify"},
           NEW next \in {"range", "exited"}, PutBack(w, next),
           UNCHANGED <<closed, results, bitfield, good, file, received, main>>
    PROVE  IndInv'
<1> DEFINE h == holding[w]
<1>1. /\ work \in Seq(Pieces) /\ Len(work) < N /\ Len(work) \in Nat /\ N \in Nat
      /\ holding \in [Peers -> Pieces \cup {NoPiece}] /\ worker \in [Peers -> States]
      /\ h \in Pieces /\ h # NoPiece /\ NoTwice(work)
  BY NIsNat, LenProperties DEF IndInv, TypeOK, PutBack, HoldsWhileBusy, Once
<1>2. InHands(h)
  BY DEF InHands
<1>3. ~InWork(h)
  BY <1>1, <1>2 DEF IndInv, Apart
<1>4. /\ work' \in Seq(Pieces) /\ Len(work') = Len(work) + 1 /\ NoTwice(work')
      /\ \A p : InWork(p)' <=> InWork(p) \/ p = h
  BY <1>1, <1>3, SendsWork DEF PutBack, InWork
<1>5. holding' = [holding EXCEPT ![w] = NoPiece] /\ worker' = [worker EXCEPT ![w] = next]
  BY DEF PutBack
<1>6. \A p \in Pieces : InHands(p)' <=> InHands(p) /\ p # h
  <2>1. \A v \in Peers : holding[v] = h => v = w
    BY <1>1 DEF IndInv, Once
  <2>2. QED BY <2>1, <1>1, <1>5, TorrentAssumption DEF InHands
<1>7. \A p : (InResults(p)' <=> InResults(p)) /\ (InFile(p)' <=> InFile(p))
  BY DEF InResults, InFile
<1>8. ~closed
  BY <1>1, NothingHeld DEF IndInv, Counted
<1>9. closed \in BOOLEAN /\ panic' = closed
  BY DEF IndInv, TypeOK, PutBack
<1>10. TypeOK'
  <2>1. Len(work') <= N
    BY <1>1, <1>4
  <2>2. QED BY <1>1, <1>4, <1>5, <1>9, <2>1 DEF IndInv, TypeOK, States
<1>11. Once'
  BY <1>1, <1>4, <1>5 DEF IndInv, Once
<1>12. Somewhere' /\ Apart'
  <2> HIDE DEF h
  <2> QED BY <1>2, <1>4, <1>6, <1>7 DEF IndInv, Somewhere, Apart
<1>13. HoldsWhileBusy'
  BY <1>1, <1>5 DEF IndInv, HoldsWhileBusy
<1>14. Clean' /\ Counted'
  BY <1>8, <1>9 DEF IndInv, Clean, Counted, Filed
<1>15. QED BY <1>10, <1>11, <1>12, <1>13, <1>14 DEF IndInv

LEMMA DeliverStep ==
    ASSUME IndInv, NEW w \in Peers, Deliver(w)
    PROVE  IndInv'
<1> DEFINE h == holding[w]
           r == [piece |-> h, good |-> good[w]]
<1>1. /\ results \in Seq(Results) /\ Len(results) < N /\ Len(results) \in Nat /\ N \in Nat
      /\ holding \in [Peers -> Pieces \cup {NoPiece}] /\ worker \in [Peers -> States]
      /\ h \in Pieces /\ h # NoPiece /\ NoPieceTwice(results) /\ good[w] = TRUE
  BY NIsNat, LenProperties DEF IndInv, TypeOK, Deliver, HoldsWhileBusy, Once, Results
<1>2. InHands(h)
  BY DEF InHands
<1>3. ~InResults(h)
  BY <1>1, <1>2 DEF IndInv, Apart
<1>4. r \in Results /\ r.piece = h /\ r.good = TRUE
  BY <1>1 DEF Results
<1> HIDE DEF r
<1>5. results' = Append(results, r)
  BY DEF Deliver, r
<1>6. /\ results' \in Seq(Results) /\ Len(results') = Len(results) + 1 /\ NoPieceTwice(results')
      /\ \A p : InResults(p)' <=> InResults(p) \/ p = h
      /\ \A j \in DOMAIN results' : results'[j] = r \/ Has(results, results'[j])
  BY <1>1, <1>3, <1>4, <1>5, SendsResult DEF InResults
<1>7. holding' = [holding EXCEPT ![w] = NoPiece] /\ worker' = [worker EXCEPT ![w] = "range"]
  BY DEF Deliver
<1>8. \A p \in Pieces : InHands(p)' <=> InHands(p) /\ p # h
  <2>1. \A v \in Peers : holding[v] = h => v = w
    BY <1>1 DEF IndInv, Once
  <2>2. QED BY <2>1, <1>1, <1>7, TorrentAssumption DEF InHands
<1>9. \A p : (InWork(p)' <=> InWork(p)) /\ (InFile(p)' <=> InFile(p))
  BY DEF InWork, InFile, Deliver
<1>10. TypeOK'
  <2>1. Len(results') <= N
    BY <1>1, <1>6
  <2>2. QED BY <1>1, <1>6, <1>7, <2>1 DEF IndInv, TypeOK, States, Results, Deliver
<1>11. Once'
  BY <1>1, <1>6, <1>7 DEF IndInv, Once, Deliver
<1>12. Somewhere' /\ Apart'
  <2> HIDE DEF h
  <2> QED BY <1>2, <1>6, <1>8, <1>9 DEF IndInv, Somewhere, Apart
<1>13. HoldsWhileBusy'
  BY <1>1, <1>7 DEF IndInv, HoldsWhileBusy
<1>14. Clean'
  <2>1. \A j \in DOMAIN results' : results'[j].good = TRUE
    BY <1>4, <1>6 DEF IndInv, Clean, Has
  <2>2. QED BY <2>1 DEF IndInv, Clean, Deliver
<1>15. Counted'
  BY DEF IndInv, Counted, Filed, Deliver
<1>16. QED BY <1>10, <1>11, <1>12, <1>13, <1>14, <1>15 DEF IndInv

LEMMA CollectStep ==
    ASSUME IndInv, Collect
    PROVE  IndInv'
<1> DEFINE r == Head(results)
           h == r.piece
<1>1. /\ results \in Seq(Results) /\ Len(results) \in Nat /\ Len(results) <= N /\ N \in Nat
      /\ file \in [Pieces -> {"none", "good", "bad"}] /\ NoPieceTwice(results) /\ results # << >>
      /\ received \in 0 .. N /\ received < N
  BY NIsNat, LenProperties DEF IndInv, TypeOK, Collect, Once, Results
<1>2. /\ results' \in Seq(Results) /\ Len(results') = Len(results) - 1 /\ NoPieceTwice(results')
      /\ r \in Results /\ Has(results, r) /\ InResults(h)
      /\ \A p : InResults(p)' <=> InResults(p) /\ p # h
      /\ \A j \in DOMAIN results' : Has(results, results'[j])
  BY <1>1, ReceivesResult DEF Collect, InResults
<1>3. h \in Pieces /\ r.good = TRUE
  BY <1>2 DEF IndInv, Clean, Has, Results
<1>4. file' = [file EXCEPT ![h] = "good"]
  BY <1>3 DEF Collect
<1> HIDE DEF h, r
<1>5. ~InFile(h)
  BY <1>2, <1>3 DEF IndInv, Apart
<1>6. \A p \in Pieces : InFile(p)' <=> InFile(p) \/ p = h
  BY <1>1, <1>3, <1>4 DEF InFile
<1>7. \A p : (InWork(p)' <=> InWork(p)) /\ (InHands(p)' <=> InHands(p))
  BY DEF InWork, InHands, Collect
<1>8. TypeOK'
  <2>1. Len(results') <= N /\ received' \in 0 .. N
    BY <1>1, <1>2 DEF Collect
  <2>2. file' \in [Pieces -> {"none", "good", "bad"}]
    BY <1>1, <1>3, <1>4
  <2>3. QED BY <1>2, <2>1, <2>2 DEF IndInv, TypeOK, Results, Collect
<1>9. Once'
  BY <1>2 DEF IndInv, Once, Collect
<1>10. Somewhere' /\ Apart'
  BY <1>2, <1>6, <1>7 DEF IndInv, Somewhere, Apart
<1>11. HoldsWhileBusy'
  BY DEF IndInv, HoldsWhileBusy, Collect
<1>12. Clean'
  <2>1. \A j \in DOMAIN results' : results'[j].good = TRUE
    BY <1>2 DEF IndInv, Clean, Has
  <2>2. QED BY <2>1, <1>1, <1>3, <1>4 DEF IndInv, Clean
<1>13. Counted'
  <2>1. Filed' = Filed \cup {h} /\ h \notin Filed
    BY <1>3, <1>5, <1>6 DEF Filed, InFile
  <2>2. IsFiniteSet(Filed)
    BY TorrentAssumption, FS_Subset DEF Filed
  <2>3. Cardinality(Filed') = Cardinality(Filed) + 1
    BY <2>1, <2>2, FS_AddElement
  <2>4. ~closed
    BY DEF IndInv, Counted, Collect
  <2>5. QED BY <2>3, <2>4 DEF IndInv, Counted, Collect
<1>14. QED BY <1>8, <1>9, <1>10, <1>11, <1>12, <1>13 DEF IndInv

LEMMA FinishStep ==
    ASSUME IndInv, Finish
    PROVE  IndInv'
<1>1. TypeOK'
  BY DEF IndInv, TypeOK, Finish
<1>2. (Once /\ Somewhere /\ Apart /\ Clean /\ HoldsWhileBusy)'
  BY DEF IndInv, Once, Somewhere, Apart, Clean, HoldsWhileBusy, InWork, InHands, InResults, InFile, Finish
<1>3. Counted'
  BY DEF IndInv, Counted, Filed, Finish
<1>4. QED BY <1>1, <1>2, <1>3 DEF IndInv

\* The inductive invariant: the pieces are spread over the work channel, the
\* workers' hands, the results and the file, each in one place (download.go).
THEOREM PiecesInvariant == Spec => []IndInv
<1>1. Init => IndInv
  BY InitHolds
<1>2. IndInv /\ [Next]_vars => IndInv'
  <2> SUFFICES ASSUME IndInv, [Next]_vars
               PROVE  IndInv'
    OBVIOUS
  <2>1. CASE Collect
    BY <2>1, CollectStep
  <2>2. CASE Finish
    BY <2>2, FinishStep
  <2>3. ASSUME NEW w \in Peers, Take(w) \/ Works(w)
        PROVE  IndInv'
    <3>1. CASE Take(w)
      BY <3>1, TakeStep
    <3>2. CASE New(w) \/ NewFails(w) \/ RangeEnds(w) \/ downloadPiece(w)
      BY <3>2, NewStep
    <3>3. CASE Lacks(w) \/ DownloadFails(w) \/ HashFails(w)
      <4>1. worker[w] \in {"download", "verify"}
        BY <3>3 DEF Lacks, DownloadFails, HashFails, Tries
      <4>2. UNCHANGED <<closed, results, bitfield, good, file, received, main>>
        BY <3>3 DEF Lacks, DownloadFails, HashFails
      <4>3. PutBack(w, "range") \/ PutBack(w, "exited")
        BY <3>3 DEF Lacks, DownloadFails, HashFails
      <4>4. QED BY <4>1, <4>2, <4>3, PutBackStep
    <3>4. CASE Deliver(w)
      BY <3>4, DeliverStep
    <3>5. QED BY <2>3, <3>1, <3>2, <3>3, <3>4 DEF Works
  <2>4. CASE UNCHANGED vars
    <3>1. TypeOK' /\ HoldsWhileBusy'
      BY <2>4 DEF IndInv, TypeOK, HoldsWhileBusy, vars
    <3>2. QED BY <2>4, <3>1, StaysPut DEF vars
  <2>5. QED BY <2>1, <2>2, <2>3, <2>4 DEF Next
<1>3. QED BY <1>1, <1>2, PTL DEF Spec

-----------------------------------------------------------------------------
(* What follows *)

AtWork(p) == {<<"work", j>> : j \in {i \in DOMAIN work : work[i] = p}}
AtWorker(p) == {<<"worker", w>> : w \in {v \in Peers : holding[v] = p}}
AtResult(p) == {<<"result", j>> : j \in {i \in DOMAIN results : results[i].piece = p}}
AtFile(p) == {<<"file", 0>> : x \in {y \in {0} : file[p] # "none"}}

LEMMA InOnePlace ==
    ASSUME IndInv, NEW p \in Pieces
    PROVE  Cardinality(Places(p)) = 1
<1>1. Places(p) = AtWork(p) \cup AtWorker(p) \cup AtResult(p) \cup AtFile(p)
  BY DEF Places, AtWork, AtWorker, AtResult, AtFile
<1>2. /\ ~InWork(p) => AtWork(p) = {}
      /\ ~InHands(p) => AtWorker(p) = {}
      /\ ~InResults(p) => AtResult(p) = {}
      /\ ~InFile(p) => AtFile(p) = {}
  BY DEF InWork, InHands, InResults, InFile, Has, HasPiece, AtWork, AtWorker, AtResult, AtFile
<1>3. InWork(p) => \E x : AtWork(p) = {x}
  <2> SUFFICES ASSUME InWork(p)
               PROVE  \E x : AtWork(p) = {x}
    OBVIOUS
  <2>1. PICK j \in DOMAIN work : work[j] = p
    BY DEF InWork, Has
  <2>2. {i \in DOMAIN work : work[i] = p} = {j}
    BY <2>1 DEF IndInv, Once, NoTwice
  <2>3. AtWork(p) = {<<"work", j>>}
    BY <2>2 DEF AtWork
  <2>4. QED BY <2>3
<1>4. InHands(p) => \E x : AtWorker(p) = {x}
  <2> SUFFICES ASSUME InHands(p)
               PROVE  \E x : AtWorker(p) = {x}
    OBVIOUS
  <2>1. PICK w \in Peers : holding[w] = p
    BY DEF InHands
  <2>2. {v \in Peers : holding[v] = p} = {w}
    BY <2>1, TorrentAssumption DEF IndInv, Once
  <2>3. AtWorker(p) = {<<"worker", w>>}
    BY <2>2 DEF AtWorker
  <2>4. QED BY <2>3
<1>5. InResults(p) => \E x : AtResult(p) = {x}
  <2> SUFFICES ASSUME InResults(p)
               PROVE  \E x : AtResult(p) = {x}
    OBVIOUS
  <2>1. PICK j \in DOMAIN results : results[j].piece = p
    BY DEF InResults, HasPiece
  <2>2. {i \in DOMAIN results : results[i].piece = p} = {j}
    BY <2>1 DEF IndInv, Once, NoPieceTwice
  <2>3. AtResult(p) = {<<"result", j>>}
    BY <2>2 DEF AtResult
  <2>4. QED BY <2>3
<1>6. InFile(p) => AtFile(p) = {<<"file", 0>>}
  BY DEF InFile, AtFile
<1>7. \E x : Places(p) = {x}
  <2>1. CASE InWork(p)
    <3>1. Places(p) = AtWork(p)
      BY <2>1, <1>1, <1>2 DEF IndInv, Apart
    <3>2. QED BY <3>1, <2>1, <1>3
  <2>2. CASE InHands(p)
    <3>1. Places(p) = AtWorker(p)
      BY <2>2, <1>1, <1>2 DEF IndInv, Apart
    <3>2. QED BY <3>1, <2>2, <1>4
  <2>3. CASE InResults(p)
    <3>1. Places(p) = AtResult(p)
      BY <2>3, <1>1, <1>2 DEF IndInv, Apart
    <3>2. QED BY <3>1, <2>3, <1>5
  <2>4. CASE InFile(p)
    <3>1. Places(p) = AtFile(p)
      BY <2>4, <1>1, <1>2 DEF IndInv, Apart
    <3>2. QED BY <3>1, <2>4, <1>6
  <2>5. QED BY <2>1, <2>2, <2>3, <2>4 DEF IndInv, Somewhere
<1>8. QED BY <1>7, FS_Singleton

\* A list of pieces that has none twice and lacks one is shorter than N.
LEMMA Shorter ==
    ASSUME NEW n \in Nat, NEW f \in [1 .. n -> Pieces], \A i, j \in 1 .. n : f[i] = f[j] => i = j,
           NEW h \in Pieces, \A i \in 1 .. n : f[i] # h
    PROVE  n < N
<1> DEFINE Others == Pieces \ {h}
<1>1. IsFiniteSet(Others) /\ Cardinality(Others) = N - 1
  BY TorrentAssumption, FS_RemoveElement DEF N
<1>2. f \in [1 .. n -> Others]
  OBVIOUS
<1> HIDE DEF Others
<1>3. f \in Injection(1 .. n, Others)
  BY <1>2, Zenon DEF Injection, IsInjective
<1>4. Cardinality(1 .. n) <= Cardinality(Others)
  BY <1>1, <1>3, FS_Injection
<1>5. Cardinality(1 .. n) = n
  BY FS_Interval
<1>6. QED BY <1>1, <1>4, <1>5, NIsNat

LEMMA RoomToSend ==
    ASSUME IndInv
    PROVE  NeverBlocks
<1> SUFFICES ASSUME NEW w \in Peers, holding[w] # NoPiece
             PROVE  Len(work) < N /\ Len(results) < N
  BY DEF NeverBlocks
<1>1. holding[w] \in Pieces /\ InHands(holding[w])
  BY DEF IndInv, TypeOK, InHands
<1>2. ~InWork(holding[w]) /\ ~InResults(holding[w])
  BY <1>1 DEF IndInv, Apart
<1>3. Len(work) < N
  <2>1. Len(work) \in Nat /\ DOMAIN work = 1 .. Len(work) /\ work \in [1 .. Len(work) -> Pieces]
    BY LenProperties DEF IndInv, TypeOK
  <2>2. \A i, j \in 1 .. Len(work) : work[i] = work[j] => i = j
    BY <2>1 DEF IndInv, Once, NoTwice
  <2>3. \A i \in 1 .. Len(work) : work[i] # holding[w]
    BY <2>1, <1>2 DEF InWork, Has
  <2>4. QED BY <2>1, <2>2, <2>3, <1>1, Shorter
<1>4. Len(results) < N
  <2> DEFINE f == [i \in 1 .. Len(results) |-> results[i].piece]
  <2>1. results \in Seq(Results)
    BY DEF IndInv, TypeOK, Results
  <2>2. Len(results) \in Nat /\ DOMAIN results = 1 .. Len(results)
        /\ \A i \in 1 .. Len(results) : results[i] \in Results
    BY <2>1, LenProperties, ElementOfSeq
  <2>3. f \in [1 .. Len(results) -> Pieces]
    BY <2>2 DEF Results
  <2>4. \A i, j \in 1 .. Len(results) : f[i] = f[j] => i = j
    BY <2>2 DEF IndInv, Once, NoPieceTwice
  <2>5. \A i \in 1 .. Len(results) : f[i] # holding[w]
    BY <2>2, <1>2 DEF InResults, HasPiece
  <2> HIDE DEF f
  <2>6. QED BY <2>2, <2>3, <2>4, <2>5, <1>1, Shorter
<1>5. QED BY <1>3, <1>4

\* Download, whatever the peers send, drop or claim to have: every piece is in
\* one place, so that the count of results counts pieces, no worker waits for
\* room on a channel or sends on the closed one, and the file that is returned
\* holds every piece, verified (download.go:30-61, 90-110).
THEOREM PiecesAreSound == Spec => []PiecesSound
<1>1. IndInv => PiecesSound
  <2> SUFFICES ASSUME IndInv
               PROVE  PiecesSound
    OBVIOUS
  <2>1. OnePlace
    BY InOnePlace DEF OnePlace, IndInv, Counted, Filed
  <2>2. NoPanic
    BY NothingHeld DEF NoPanic, IndInv, Counted
  <2>3. Verified
    <3>1. \A p \in Pieces : file[p] # "bad"
      BY DEF IndInv, Clean
    <3>2. ASSUME main = "returned", NEW p \in Pieces
          PROVE  file[p] = "good"
      <4>1. received = N
        BY <3>2 DEF IndInv, Counted
      <4>2. file[p] # "none"
        BY <4>1, NothingHeld DEF InFile
      <4>3. file[p] \in {"none", "good", "bad"}
        BY DEF IndInv, TypeOK
      <4>4. QED BY <4>2, <4>3, <3>1
    <3>3. QED BY <3>1, <3>2 DEF Verified
  <2>4. QED BY <2>1, <2>2, <2>3, RoomToSend DEF PiecesSound, IndInv
<1>2. QED BY <1>1, PiecesInvariant, PTL

-----------------------------------------------------------------------------
(* Topic filters *)

\* The slashes in front of place n.
Slashes(s, n) == {m \in 1 .. n - 1 : s[m] = Slash}

\* Level k of s starts at place i.
Starts(s, i, k) == i \in 1 .. Len(s) + 1 /\ LevelOf(s, i) = k /\ (i = 1 \/ s[i - 1] = Slash)

\* A level ends at p: no slash before, and a slash or the terminator there.
Ends(s, i, p) ==
    /\ p \in i .. Len(s) + 1 /\ At(s, p) \in {Slash, Nul}
    /\ \A m \in i .. p - 1 : s[m] # Slash

LEMMA CharsAre == Nul \notin Chars /\ Slash \in Chars /\ Slash # Nul
BY TopicsAssumption DEF Chars, Nul, Slash, Plus, Hash, Dollar

LEMMA AtIs ==
    ASSUME NEW s \in Seq(Chars), NEW n \in Nat \ {0}
    PROVE  /\ n <= Len(s) => At(s, n) = s[n] /\ At(s, n) \in Chars /\ At(s, n) # Nul
           /\ n > Len(s) => At(s, n) = Nul
<1>1. DOMAIN s = 1 .. Len(s) /\ Len(s) \in Nat
  OBVIOUS
<1>2. CASE n <= Len(s)
  <2>1. n \in DOMAIN s
    BY <1>1, <1>2
  <2>2. At(s, n) = s[n] /\ s[n] \in Chars
    BY <2>1, <1>1 DEF At
  <2>3. QED BY <2>2, <1>2, CharsAre
<1>3. CASE n > Len(s)
  <2>1. n \notin DOMAIN s
    BY <1>1, <1>3
  <2>2. QED BY <2>1, <1>3 DEF At
<1>4. QED BY <1>1, <1>2, <1>3

LEMMA SlashesFinite ==
    ASSUME NEW s, NEW n \in Nat
    PROVE  IsFiniteSet(Slashes(s, n)) /\ Cardinality(Slashes(s, n)) \in Nat /\ LevelOf(s, n) \in Nat
<1>1. IsFiniteSet(1 .. n - 1)
  BY FS_Interval
<1>2. IsFiniteSet(Slashes(s, n))
  BY <1>1, FS_Subset DEF Slashes
<1>3. Cardinality(Slashes(s, n)) \in Nat
  BY <1>2, FS_CardinalityType
<1>4. QED BY <1>2, <1>3 DEF LevelOf, Slashes

LEMMA LevelsGrow ==
    ASSUME NEW s, NEW m \in Nat, NEW n \in Nat, m <= n
    PROVE  LevelOf(s, m) <= LevelOf(s, n)
<1>1. Slashes(s, m) \subseteq Slashes(s, n)
  BY DEF Slashes
<1>2. Cardinality(Slashes(s, m)) <= Cardinality(Slashes(s, n))
  BY <1>1, SlashesFinite, FS_Subset
<1>3. LevelOf(s, m) = 1 + Cardinality(Slashes(s, m)) /\ LevelOf(s, n) = 1 + Cardinality(Slashes(s, n))
  BY DEF LevelOf, Slashes
<1>4. QED BY <1>2, <1>3, SlashesFinite

LEMMA FirstLevel ==
    ASSUME NEW s
    PROVE  LevelOf(s, 1) = 1
<1>1. {m \in 1 .. 1 - 1 : s[m] = Slash} = {}
  OBVIOUS
<1>2. Cardinality({}) = 0
  BY FS_EmptySet
<1>3. QED BY <1>1, <1>2 DEF LevelOf

LEMMA SlashSteps ==
    ASSUME NEW s, NEW n \in Nat \ {0}, s[n] = Slash
    PROVE  LevelOf(s, n + 1) = LevelOf(s, n) + 1
<1>1. Slashes(s, n + 1) = Slashes(s, n) \cup {n} /\ n \notin Slashes(s, n)
  BY DEF Slashes
<1>2. Cardinality(Slashes(s, n) \cup {n}) = Cardinality(Slashes(s, n)) + 1
  BY <1>1, SlashesFinite, FS_AddElement
<1>3. LevelOf(s, n + 1) = 1 + Cardinality(Slashes(s, n + 1)) /\ LevelOf(s, n) = 1 + Cardinality(Slashes(s, n))
  BY DEF LevelOf, Slashes
<1>4. QED BY <1>1, <1>2, <1>3, SlashesFinite

LEMMA SameLevel ==
    ASSUME NEW s, NEW i \in Nat \ {0}, NEW n \in Nat, i <= n, \A m \in i .. n - 1 : s[m] # Slash
    PROVE  LevelOf(s, n) = LevelOf(s, i)
<1>1. {m \in 1 .. n - 1 : s[m] = Slash} = {m \in 1 .. i - 1 : s[m] = Slash}
  OBVIOUS
<1>2. QED BY <1>1 DEF LevelOf

LEMMA EndExists ==
    ASSUME NEW s \in Seq(Chars), NEW i \in 1 .. Len(s) + 1
    PROVE  Ends(s, i, LevelEnd(s, i))
<1> DEFINE S == {n \in i .. Len(s) + 1 : At(s, n) \in {Slash, Nul}}
<1>1. Len(s) \in Nat /\ At(s, Len(s) + 1) = Nul
  BY AtIs
<1>2. S \in SUBSET Nat /\ Len(s) + 1 \in S
  BY <1>1
<1>3. PICK p \in S : \A x \in S : p <= x
  BY <1>2, LeastExists
<1>4. ASSUME NEW m \in i .. p - 1
      PROVE  s[m] # Slash
  <2>1. m \notin S /\ m \in i .. Len(s) + 1 /\ m <= Len(s) /\ m \in Nat \ {0}
    BY <1>3, <1>1
  <2>2. At(s, m) = s[m] /\ At(s, m) # Slash
    BY <2>1, AtIs
  <2>3. QED BY <2>2
<1>5. Ends(s, i, p)
  BY <1>3, <1>4 DEF Ends
<1>6. QED BY <1>5 DEF Ends, LevelEnd

\* What there is to know about a level that starts at i.
LevelHere(s, i, k) ==
    /\ k \in 1 .. Len(Levels(s))
    /\ Levels(s)[k] = Level(s, i)
    /\ At(s, LevelEnd(s, i)) = Slash => Starts(s, LevelEnd(s, i) + 1, k + 1)
    /\ At(s, LevelEnd(s, i)) # Slash => LevelEnd(s, i) = Len(s) + 1 /\ Len(Levels(s)) = k

LEMMA LevelsIs ==
    ASSUME NEW s \in Seq(Chars)
    PROVE  /\ LevelOf(s, Len(s) + 1) \in Nat \ {0}
           /\ Len(Levels(s)) = LevelOf(s, Len(s) + 1)
           /\ DOMAIN Levels(s) = 1 .. Len(Levels(s))
<1>1. Len(s) + 1 \in Nat
  OBVIOUS
<1>2. LevelOf(s, Len(s) + 1) \in Nat /\ LevelOf(s, 1) <= LevelOf(s, Len(s) + 1)
  BY <1>1, SlashesFinite, LevelsGrow
<1>3. LevelOf(s, Len(s) + 1) \in Nat \ {0}
  BY <1>2, FirstLevel
<1>4. DOMAIN Levels(s) = 1 .. LevelOf(s, Len(s) + 1)
  BY DEF Levels
<1>5. Len(Levels(s)) = LevelOf(s, Len(s) + 1)
  BY <1>3, <1>4 DEF Levels
<1>6. QED BY <1>3, <1>4, <1>5

LEMMA LevelAt ==
    ASSUME NEW s \in Seq(Chars), NEW i, NEW k, Starts(s, i, k)
    PROVE  LevelHere(s, i, k)
<1> DEFINE p == LevelEnd(s, i)
<1>1. Len(s) \in Nat /\ i \in 1 .. Len(s) + 1 /\ i \in Nat \ {0} /\ LevelOf(s, i) = k /\ (i = 1 \/ s[i - 1] = Slash)
  BY DEF Starts
<1>2. Ends(s, i, p)
  BY <1>1, EndExists
<1> HIDE DEF p
<1>3. p \in i .. Len(s) + 1 /\ p \in Nat \ {0} /\ At(s, p) \in {Slash, Nul} /\ \A m \in i .. p - 1 : s[m] # Slash
  BY <1>1, <1>2 DEF Ends
<1>4. k \in Nat
  BY <1>1, SlashesFinite
<1>5. \A n \in i .. p : LevelOf(s, n) = k
  <2> TAKE n \in i .. p
  <2>1. n \in Nat /\ i <= n /\ \A m \in i .. n - 1 : s[m] # Slash
    BY <1>1, <1>3
  <2>2. QED BY <2>1, <1>1, SameLevel
<1>6. \A n \in 1 .. i - 1 : LevelOf(s, n) < k
  <2> TAKE n \in 1 .. i - 1
  <2>1. i # 1 /\ s[i - 1] = Slash /\ i - 1 \in Nat \ {0} /\ n \in Nat /\ n <= i - 1 /\ (i - 1) + 1 = i
    BY <1>1
  <2>2. LevelOf(s, (i - 1) + 1) = LevelOf(s, i - 1) + 1
    BY <2>1, SlashSteps
  <2>3. LevelOf(s, n) <= LevelOf(s, i - 1) /\ LevelOf(s, n) \in Nat /\ LevelOf(s, i - 1) \in Nat
    BY <2>1, LevelsGrow, SlashesFinite
  <2>4. QED BY <2>1, <2>2, <2>3, <1>1
<1>7. ASSUME At(s, p) = Slash
      PROVE  p <= Len(s) /\ s[p] = Slash /\ LevelOf(s, p + 1) = k + 1
  <2>1. p <= Len(s) /\ s[p] = Slash
    BY <1>7, <1>3, <1>1, AtIs, CharsAre
  <2>2. LevelOf(s, p + 1) = LevelOf(s, p) + 1
    BY <2>1, <1>3, SlashSteps
  <2>3. QED BY <2>1, <2>2, <1>5, <1>3, <1>1
<1>8. ASSUME At(s, p) # Slash
      PROVE  p = Len(s) + 1
  BY <1>8, <1>3, <1>1, AtIs
<1>9. \A n \in p + 1 .. Len(s) + 1 : LevelOf(s, n) > k
  <2> TAKE n \in p + 1 .. Len(s) + 1
  <2>1. At(s, p) = Slash
    BY <1>8, <1>3, <1>1
  <2>2. p + 1 \in Nat /\ n \in Nat /\ p + 1 <= n
    BY <1>3, <1>1
  <2>3. LevelOf(s, p + 1) <= LevelOf(s, n) /\ LevelOf(s, n) \in Nat
    BY <2>2, LevelsGrow, SlashesFinite
  <2>4. QED BY <2>1, <2>3, <1>7, <1>4
<1>10. PlacesIn(s, k) = i .. p
  <2>1. ASSUME NEW n \in 1 .. Len(s) + 1
        PROVE  LevelOf(s, n) = k <=> n \in i .. p
    <3>1. CASE n < i
      <4>1. n \in 1 .. i - 1 /\ n \in Nat
        BY <3>1, <1>1
      <4>2. LevelOf(s, n) < k /\ LevelOf(s, n) \in Nat
        BY <4>1, <1>6, SlashesFinite
      <4>3. QED BY <4>2, <1>4, <3>1, <1>1
    <3>2. CASE n > p
      <4>1. n \in p + 1 .. Len(s) + 1 /\ n \in Nat
        BY <3>2, <1>1, <1>3
      <4>2. LevelOf(s, n) > k /\ LevelOf(s, n) \in Nat
        BY <4>1, <1>9, SlashesFinite
      <4>3. QED BY <4>2, <1>4, <3>2, <1>1, <1>3
    <3>3. CASE ~(n < i) /\ ~(n > p)
      <4>1. n \in i .. p
        BY <3>3, <1>1, <1>3
      <4>2. QED BY <4>1, <1>5
    <3>4. QED BY <3>1, <3>2, <3>3
  <2>2. i .. p \subseteq 1 .. Len(s) + 1
    BY <1>1, <1>3
  <2>3. QED BY <2>1, <2>2 DEF PlacesIn
<1>11. Min(i .. p) = i /\ Max(i .. p) = p
  <2>0. i \in Nat /\ p \in Nat /\ i <= p
    BY <1>1, <1>3
  <2>1. i .. p \in SUBSET Nat /\ i .. p # {} /\ i \in i .. p /\ p \in i .. p /\ i .. p \in SUBSET (0 .. p)
    BY <2>0
  <2>2. Min(i .. p) \in i .. p /\ \A x \in i .. p : Min(i .. p) <= x
    BY <2>1, MinIs
  <2>3. Max(i .. p) \in i .. p /\ \A x \in i .. p : x <= Max(i .. p)
    BY <2>1, <1>3, MaxIs
  <2>4. QED BY <2>1, <2>2, <2>3, <1>1, <1>3
<1>12. k \in 1 .. LevelOf(s, Len(s) + 1)
  <2>1. LevelOf(s, i) <= LevelOf(s, Len(s) + 1) /\ LevelOf(s, 1) <= LevelOf(s, i) /\ LevelOf(s, Len(s) + 1) \in Nat
    BY <1>1, LevelsGrow, SlashesFinite
  <2>2. QED BY <2>1, FirstLevel, <1>1, <1>4
<1>13. Levels(s)[k] = SubSeq(s, i, p - 1)
  <2>1. Levels(s)[k] = SubSeq(s, Min(PlacesIn(s, k)), Max(PlacesIn(s, k)) - 1)
    BY <1>12 DEF Levels
  <2>2. QED BY <2>1, <1>10, <1>11
<1>14. Levels(s)[k] = Level(s, i)
  BY <1>13 DEF Level, p
<1>15. k \in 1 .. Len(Levels(s)) /\ Len(Levels(s)) = LevelOf(s, Len(s) + 1)
  BY <1>12, LevelsIs
<1>16. At(s, p) = Slash => Starts(s, p + 1, k + 1)
  BY <1>7, <1>3, <1>1 DEF Starts
<1>17. At(s, p) # Slash => p = Len(s) + 1 /\ Len(Levels(s)) = k
  BY <1>8, <1>5, <1>3, <1>15
<1>18. QED BY <1>14, <1>15, <1>16, <1>17 DEF LevelHere, p

LEMMA FirstStarts ==
    ASSUME NEW s \in Seq(Chars)
    PROVE  Starts(s, 1, 1)
BY FirstLevel DEF Starts

\* Every level starts somewhere.
LEMMA EveryLevel ==
    ASSUME NEW s \in Seq(Chars)
    PROVE  \A k \in 1 .. Len(Levels(s)) : \E i \in 1 .. Len(s) + 1 : Starts(s, i, k)
<1> DEFINE L == Len(Levels(s)) - 1
           S == {n \in 0 .. L : \E i \in 1 .. Len(s) + 1 : Starts(s, i, n + 1)}
<1>1. L \in Nat /\ Len(Levels(s)) = L + 1
  BY LevelsIs
<1> HIDE DEF L
<1>2. 0 \in S
  <2>1. Starts(s, 1, 0 + 1) /\ 1 \in 1 .. Len(s) + 1
    BY FirstStarts
  <2>2. QED BY <2>1, <1>1
<1>3. ASSUME NEW n \in 1 .. L, n - 1 \in S
      PROVE  n \in S
  <2>1. PICK i \in 1 .. Len(s) + 1 : Starts(s, i, (n - 1) + 1)
    BY <1>3
  <2>2. (n - 1) + 1 = n /\ n \in 0 .. L /\ n # Len(Levels(s))
    BY <1>1
  <2>3. LevelHere(s, i, n)
    BY <2>1, <2>2, LevelAt
  <2>4. Starts(s, LevelEnd(s, i) + 1, n + 1)
    BY <2>2, <2>3 DEF LevelHere
  <2>5. LevelEnd(s, i) + 1 \in 1 .. Len(s) + 1
    BY <2>4 DEF Starts
  <2>6. QED BY <2>2, <2>4, <2>5
<1>4. \A n \in 0 .. L : n \in S
  <2> HIDE DEF S
  <2> QED BY <1>1, <1>2, <1>3, UpTo
<1>5. ASSUME NEW k \in 1 .. Len(Levels(s))
      PROVE  \E i \in 1 .. Len(s) + 1 : Starts(s, i, k)
  <2>1. k - 1 \in 0 .. L /\ (k - 1) + 1 = k
    BY <1>1
  <2>2. k - 1 \in S
    BY <2>1, <1>4
  <2>3. QED BY <2>1, <2>2
<1>6. QED BY <1>5

\* What mqtt_valid_filter guarantees of a level that starts at i.
FilterLevel(s, i, k) ==
    /\ At(s, i) = Plus => LevelEnd(s, i) = i + 1 /\ Level(s, i) = <<Plus>>
    /\ At(s, i) = Hash => Level(s, i) = <<Hash>> /\ k = Len(Levels(s))
    /\ At(s, i) \notin {Plus, Hash} => Level(s, i) # <<Plus>> /\ Level(s, i) # <<Hash>>
    /\ (\E m \in DOMAIN Level(s, i) : Level(s, i)[m] = Plus) => Level(s, i) = <<Plus>>
    /\ (\E m \in DOMAIN Level(s, i) : Level(s, i)[m] = Hash) => Level(s, i) = <<Hash>> /\ k = Len(Levels(s))

\* The characters of a level.
LEMMA LevelChars ==
    ASSUME NEW s \in Seq(Chars), NEW i \in 1 .. Len(s) + 1
    PROVE  /\ Level(s, i) \in Seq(Chars) /\ Len(Level(s, i)) = LevelEnd(s, i) - i
           /\ DOMAIN Level(s, i) = 1 .. LevelEnd(s, i) - i
           /\ \A m \in 1 .. LevelEnd(s, i) - i : Level(s, i)[m] = s[i + m - 1]
<1> DEFINE p == LevelEnd(s, i)
<1>1. Ends(s, i, p)
  BY EndExists
<1> HIDE DEF p
<1>2. Len(s) \in Nat /\ p \in i .. Len(s) + 1
  BY <1>1 DEF Ends
<1>3. i \in 1 .. Len(s) + 1 /\ p - 1 \in i - 1 .. Len(s)
  BY <1>2
<1>4. /\ SubSeq(s, i, p - 1) \in Seq(Chars)
      /\ Len(SubSeq(s, i, p - 1)) = IF i <= p - 1 THEN p - 1 - i + 1 ELSE 0
      /\ \A m \in 1 .. p - 1 - i + 1 : SubSeq(s, i, p - 1)[m] = s[i + m - 1]
  BY <1>3, SubSeqProperties
<1>5. p - 1 - i + 1 = p - i /\ p - i \in Nat /\ (i <= p - 1 \/ p - i = 0)
  BY <1>2
<1>6. Len(SubSeq(s, i, p - 1)) = p - i
  BY <1>4, <1>5
<1>7. DOMAIN SubSeq(s, i, p - 1) = 1 .. p - i
  BY <1>4, <1>6
<1>8. Level(s, i) = SubSeq(s, i, p - 1)
  BY DEF Level, p
<1>9. \A m \in 1 .. p - i : SubSeq(s, i, p - 1)[m] = s[i + m - 1]
  BY <1>4, <1>5
<1>10. Level(s, i) \in Seq(Chars) /\ Len(Level(s, i)) = p - i /\ DOMAIN Level(s, i) = 1 .. p - i
       /\ \A m \in 1 .. p - i : Level(s, i)[m] = s[i + m - 1]
  BY <1>4, <1>6, <1>7, <1>8, <1>9
<1>11. QED BY <1>10 DEF p

LEMMA OneChar ==
    ASSUME NEW s, NEW u \in Seq(s), NEW c
    PROVE  u = <<c>> <=> Len(u) = 1 /\ u[1] = c
<1>1. ASSUME Len(u) = 1, u[1] = c
      PROVE  u = <<c>>
  <2>1. c \in s
    BY <1>1
  <2>2. <<c>> \in Seq(s) /\ Len(<<c>>) = 1 /\ <<c>>[1] = c
    BY <2>1
  <2>3. \A n \in 1 .. 1 : u[n] = <<c>>[n]
    BY <1>1, <2>2
  <2>4. QED BY <1>1, <2>2, <2>3, SeqEqual
<1>2. ASSUME u = <<c>>
      PROVE  Len(u) = 1 /\ u[1] = c
  BY <1>2
<1>3. QED BY <1>1, <1>2

LEMMA ValidLevels ==
    ASSUME NEW s \in Seq(Chars), mqtt_valid_filter(s), NEW i, NEW k, Starts(s, i, k)
    PROVE  FilterLevel(s, i, k)
<1> DEFINE p == LevelEnd(s, i)
           u == Level(s, i)
<1>1. i \in 1 .. Len(s) + 1 /\ i \in Nat \ {0} /\ Len(s) \in Nat /\ DOMAIN s = 1 .. Len(s)
  BY DEF Starts
<1>2. Ends(s, i, p) /\ LevelHere(s, i, k)
  BY <1>1, EndExists, LevelAt
<1>3. /\ u \in Seq(Chars) /\ Len(u) = p - i /\ DOMAIN u = 1 .. p - i
      /\ \A m \in 1 .. p - i : u[m] = s[i + m - 1]
  BY <1>1, LevelChars
<1>4. At(s, p) # Slash => p = Len(s) + 1 /\ k = Len(Levels(s))
  BY <1>2 DEF LevelHere
<1>5. FilterLevel(s, i, k) <=>
        /\ At(s, i) = Plus => p = i + 1 /\ u = <<Plus>>
        /\ At(s, i) = Hash => u = <<Hash>> /\ k = Len(Levels(s))
        /\ At(s, i) \notin {Plus, Hash} => u # <<Plus>> /\ u # <<Hash>>
        /\ (\E m \in DOMAIN u : u[m] = Plus) => u = <<Plus>>
        /\ (\E m \in DOMAIN u : u[m] = Hash) => u = <<Hash>> /\ k = Len(Levels(s))
  BY DEF FilterLevel
<1> HIDE DEF p, u
<1>6. p \in i .. Len(s) + 1 /\ p \in Nat \ {0} /\ At(s, p) \in {Slash, Nul} /\ \A m \in i .. p - 1 : s[m] # Slash
  BY <1>1, <1>2 DEF Ends
<1>7. \A n \in 1 .. Len(s) : s[n] \in {Plus, Hash} =>
        (n = 1 \/ s[n - 1] = Slash) /\ At(s, n + 1) \in {Nul, Slash} /\ (s[n] = Hash => At(s, n + 1) = Nul)
  BY <1>1 DEF mqtt_valid_filter
<1>8. Plus # Slash /\ Hash # Slash /\ Plus # Hash /\ Nul # Slash /\ Plus # Nul /\ Hash # Nul
  BY DEF Plus, Hash, Slash, Nul
\* A wildcard in the level fills it.
<1>9. ASSUME NEW n \in i .. p - 1, s[n] \in {Plus, Hash}
      PROVE  n = i /\ p = i + 1 /\ (s[n] = Hash => At(s, p) = Nul)
  <2>1. n \in 1 .. Len(s) /\ n \in Nat
    BY <1>1, <1>6
  <2>2. n = i
    <3>1. n - 1 \in i .. p - 1 => s[n - 1] # Slash
      BY <1>6
    <3>2. n # i => n - 1 \in i .. p - 1 /\ n # 1
      BY <1>1, <1>6
    <3>3. QED BY <3>1, <3>2, <2>1, <1>7, <1>9
  <2>3. p = i + 1
    <3>1. CASE i + 1 > p - 1
      BY <3>1, <2>2, <1>1, <1>6
    <3>2. CASE i + 1 <= p - 1
      <4>1. i + 1 \in i .. p - 1 /\ i + 1 <= Len(s) /\ i + 1 \in Nat \ {0}
        BY <3>2, <1>1, <1>6
      <4>2. s[i + 1] # Slash /\ At(s, i + 1) = s[i + 1] /\ At(s, i + 1) # Nul
        BY <4>1, <1>6, AtIs
      <4>3. At(s, i + 1) \in {Nul, Slash}
        BY <2>1, <2>2, <1>7, <1>9
      <4>4. QED BY <4>2, <4>3
    <3>3. QED BY <3>1, <3>2, <1>1, <1>6
  <2>4. s[n] = Hash => At(s, p) = Nul
    BY <2>1, <2>2, <2>3, <1>7
  <2>5. QED BY <2>2, <2>3, <2>4
<1>10. ASSUME p = i + 1
       PROVE  i \in i .. p - 1 /\ Len(u) = 1 /\ u[1] = s[i] /\ 1 \in 1 .. p - i
  <2>1. p - i = 1 /\ 1 \in 1 .. p - i /\ i + 1 - 1 = i /\ i \in i .. p - 1
    BY <1>10, <1>1
  <2>2. QED BY <2>1, <1>3
<1>11. ASSUME NEW n \in i .. p - 1, s[n] \in {Plus, Hash}
       PROVE  n = i /\ p = i + 1 /\ u = <<s[n]>> /\ (s[n] = Hash => k = Len(Levels(s)))
  <2>1. n = i /\ p = i + 1 /\ (s[n] = Hash => At(s, p) = Nul)
    BY <1>9, <1>11
  <2>2. Len(u) = 1 /\ u[1] = s[n]
    BY <2>1, <1>10
  <2>3. u = <<s[n]>>
    BY <2>2, <1>3, OneChar
  <2>4. QED BY <2>1, <2>3, <1>4, <1>8
<1>12. ASSUME NEW c \in {Plus, Hash}, At(s, i) = c
       PROVE  p = i + 1 /\ u = <<c>> /\ (c = Hash => k = Len(Levels(s)))
  <2>1. i <= Len(s) /\ s[i] = c
    BY <1>12, <1>1, <1>8, AtIs
  <2>2. i # p
    BY <1>12, <1>6, <1>8
  <2>3. i \in i .. p - 1
    BY <2>2, <1>1, <1>6
  <2>4. QED BY <2>1, <2>3, <1>11
<1>13. ASSUME NEW c \in {Plus, Hash}, u = <<c>>
       PROVE  At(s, i) = c
  <2>1. Len(u) = 1 /\ u[1] = c
    BY <1>13
  <2>2. p - i = 1 /\ 1 \in 1 .. p - i /\ i + 1 - 1 = i
    BY <2>1, <1>3, <1>1
  <2>3. s[i] = c /\ i <= Len(s)
    BY <2>1, <2>2, <1>3, <1>1, <1>6
  <2>4. QED BY <2>3, <1>1, AtIs
<1>14. ASSUME NEW c \in {Plus, Hash}, \E m \in DOMAIN u : u[m] = c
       PROVE  u = <<c>> /\ (c = Hash => k = Len(Levels(s)))
  <2>1. PICK m \in 1 .. p - i : u[m] = c
    BY <1>14, <1>3
  <2>2. i + m - 1 \in i .. p - 1 /\ s[i + m - 1] = c
    BY <2>1, <1>1, <1>3, <1>6
  <2>3. QED BY <2>2, <1>11
<1>15. QED
  <2>1. At(s, i) = Plus => p = i + 1 /\ u = <<Plus>>
    BY <1>12
  <2>2. At(s, i) = Hash => u = <<Hash>> /\ k = Len(Levels(s))
    BY <1>12
  <2>3. At(s, i) \notin {Plus, Hash} => u # <<Plus>> /\ u # <<Hash>>
    BY <1>13
  <2>4. (\E m \in DOMAIN u : u[m] = Plus) => u = <<Plus>>
    BY <1>14
  <2>5. (\E m \in DOMAIN u : u[m] = Hash) => u = <<Hash>> /\ k = Len(Levels(s))
    BY <1>14
  <2>6. QED BY <2>1, <2>2, <2>3, <2>4, <2>5, <1>5

\* Wildcards have a level to themselves.
LEMMA WildcardsWhole ==
    ASSUME NEW s \in Seq(Chars), mqtt_valid_filter(s)
    PROVE  WholeLevels(Levels(s))
<1>1. ASSUME NEW k \in DOMAIN Levels(s)
      PROVE  /\ (\E m \in DOMAIN Levels(s)[k] : Levels(s)[k][m] = Plus) => Levels(s)[k] = <<Plus>>
             /\ (\E m \in DOMAIN Levels(s)[k] : Levels(s)[k][m] = Hash) => Levels(s)[k] = <<Hash>> /\ k = Len(Levels(s))
  <2>1. k \in 1 .. Len(Levels(s))
    BY LevelsIs
  <2>2. PICK i \in 1 .. Len(s) + 1 : Starts(s, i, k)
    BY <2>1, EveryLevel
  <2>3. FilterLevel(s, i, k) /\ Levels(s)[k] = Level(s, i)
    BY <2>2, ValidLevels, LevelAt DEF LevelHere
  <2>4. QED BY <2>3 DEF FilterLevel
<1>2. QED BY <1>1 DEF WholeLevels

-----------------------------------------------------------------------------
(* The turns of the loop of mqtt_topic_match *)

\* The levels that the loop has been over match.
Agree(k) == \A m \in 1 .. k - 1 : Levels(filter)[m] \in {<<Plus>>, Levels(topic)[m]}

\* Wildcards in the first level do not match '$' topics.
Spared ==
    Levels(topic)[1] # << >> /\ Levels(topic)[1][1] = Dollar => Levels(filter)[1] \notin {<<Plus>>, <<Hash>>}

Decided == result = "yes" <=> LevelwiseMatch(Levels(filter), Levels(topic))

\* Both pointers stand at the start of the same level, and all levels before
\* it match, until the function returns.
TopicsInd ==
    /\ filter \in Seq(Chars) /\ mqtt_valid_filter(filter)
    /\ topic \in Seq(Chars)
    /\ result \in {"running", "yes", "no"}
    /\ \E k \in Nat : /\ Starts(filter, fp, k) /\ Starts(topic, tp, k)
                      /\ result = "running" => Agree(k)
    /\ IF result = "running" THEN Spared ELSE Decided

\* The match, with its parts named.
LevelwiseIs(n) ==
    LevelwiseMatch(Levels(filter), Levels(topic)) <=>
        /\ Spared
        /\ IF Levels(filter)[Len(Levels(filter))] = <<Hash>> THEN Len(Levels(topic)) >= n ELSE Len(Levels(topic)) = n
        /\ \A m \in 1 .. n : Levels(filter)[m] \in {<<Plus>>, Levels(topic)[m]}

LEMMA MatchOpen ==
    ASSUME Levels(filter)[Len(Levels(filter))] = <<Hash>>
    PROVE  LevelwiseIs(Len(Levels(filter)) - 1)
BY DEF LevelwiseIs, LevelwiseMatch, Spared

LEMMA MatchClosed ==
    ASSUME Levels(filter)[Len(Levels(filter))] # <<Hash>>
    PROVE  LevelwiseIs(Len(Levels(filter)))
BY DEF LevelwiseIs, LevelwiseMatch, Spared

\* The rule for '$' is about the first characters.
LEMMA SparedIs ==
    ASSUME filter \in Seq(Chars), mqtt_valid_filter(filter), topic \in Seq(Chars)
    PROVE  Spared <=> ~(At(topic, 1) = Dollar /\ At(filter, 1) \in {Plus, Hash})
<1>1. Starts(filter, 1, 1) /\ Starts(topic, 1, 1)
  BY FirstStarts
<1>2. Levels(filter)[1] = Level(filter, 1) /\ Levels(topic)[1] = Level(topic, 1) /\ FilterLevel(filter, 1, 1)
  BY <1>1, LevelAt, ValidLevels DEF LevelHere
<1>3. At(filter, 1) \in {Plus, Hash} <=> Levels(filter)[1] \in {<<Plus>>, <<Hash>>}
  BY <1>2 DEF FilterLevel
<1>4. 1 \in 1 .. Len(topic) + 1 /\ Len(topic) \in Nat
  OBVIOUS
<1> DEFINE p == LevelEnd(topic, 1)
           u == Level(topic, 1)
<1>5. /\ Ends(topic, 1, p)
      /\ u \in Seq(Chars) /\ Len(u) = p - 1 /\ \A m \in 1 .. p - 1 : u[m] = topic[1 + m - 1]
  BY <1>4, EndExists, LevelChars
<1>6. u = Levels(topic)[1]
  BY <1>2
<1> HIDE DEF p, u
<1>7. p \in 1 .. Len(topic) + 1 /\ At(topic, p) \in {Slash, Nul}
  BY <1>5 DEF Ends
<1>8. At(topic, 1) = Dollar <=> u # << >> /\ u[1] = Dollar
  <2>1. CASE p = 1
    <3>1. u = << >>
      BY <2>1, <1>5
    <3>2. At(topic, 1) # Dollar
      BY <2>1, <1>7 DEF Dollar, Slash, Nul
    <3>3. QED BY <3>1, <3>2
  <2>2. CASE p # 1
    <3>1. 1 \in 1 .. p - 1 /\ 1 + 1 - 1 = 1 /\ 1 <= Len(topic) /\ Len(u) > 0
      BY <2>2, <1>7, <1>5, <1>4
    <3>2. u[1] = topic[1] /\ u # << >>
      BY <3>1, <1>5
    <3>3. At(topic, 1) = topic[1]
      BY <3>1, AtIs
    <3>4. QED BY <3>2, <3>3
  <2>3. QED BY <2>1, <2>2
<1>9. QED BY <1>3, <1>6, <1>8 DEF Spared

LEMMA TopicsStart == TopicsInit => TopicsInd
<1> SUFFICES ASSUME TopicsInit
             PROVE  TopicsInd
  OBVIOUS
<1>1. \A n : \A s \in Strings(n) : s \in Seq(Chars)
  BY DEF Strings
<1>2. filter \in Seq(Chars) /\ mqtt_valid_filter(filter) /\ topic \in Seq(Chars) /\ fp = 1 /\ tp = 1
  BY <1>1 DEF TopicsInit
<1>3. Starts(filter, fp, 1) /\ Starts(topic, tp, 1)
  BY <1>2, FirstStarts
<1>4. Agree(1)
  BY DEF Agree
<1>5. result = IF Spared THEN "running" ELSE "no"
  BY <1>2, SparedIs DEF TopicsInit
<1>6. ~Spared => ~LevelwiseMatch(Levels(filter), Levels(topic))
  BY MatchOpen, MatchClosed DEF LevelwiseIs
<1>7. \E k \in Nat : Starts(filter, fp, k) /\ Starts(topic, tp, k) /\ (result = "running" => Agree(k))
  BY <1>3, <1>4
<1>8. result \in {"running", "yes", "no"} /\ IF result = "running" THEN Spared ELSE Decided
  BY <1>5, <1>6 DEF Decided
<1>9. QED BY <1>2, <1>7, <1>8 DEF TopicsInd

\* The function returns, with the right answer.
LEMMA ReturnsRight ==
    ASSUME TopicsInd, result = "running", NEW b \in BOOLEAN, Return(b),
           b <=> LevelwiseMatch(Levels(filter), Levels(topic))
    PROVE  TopicsInd'
<1>1. UNCHANGED <<filter, topic, fp, tp>> /\ result' = (IF b THEN "yes" ELSE "no")
  BY DEF Return
<1>2. result' \in {"yes", "no"} /\ (result' = "yes" <=> b)
  BY <1>1
<1>3. Decided'
  BY <1>1, <1>2 DEF Decided
<1>4. PICK k \in Nat : Starts(filter, fp, k) /\ Starts(topic, tp, k)
  BY DEF TopicsInd
<1>5. Starts(filter', fp', k) /\ Starts(topic', tp', k) /\ result' # "running"
  BY <1>1, <1>2, <1>4
<1>6. filter' \in Seq(Chars) /\ mqtt_valid_filter(filter') /\ topic' \in Seq(Chars)
  BY <1>1 DEF TopicsInd
<1>7. \E n \in Nat : Starts(filter', fp', n) /\ Starts(topic', tp', n) /\ (result' = "running" => Agree(n)')
  BY <1>5
<1>8. QED BY <1>2, <1>3, <1>5, <1>6, <1>7 DEF TopicsInd

\* What strcmp(f, "/#") == 0 tells at a slash.
LEMMA LastIsHash ==
    ASSUME NEW s \in Seq(Chars), mqtt_valid_filter(s), NEW p \in 1 .. Len(s), s[p] = Slash
    PROVE  SubSeq(s, p, Len(s)) = <<Slash, Hash>> <=> At(s, p + 1) = Hash
<1> DEFINE v == SubSeq(s, p, Len(s))
<1>1. Len(s) \in Nat /\ p \in Nat \ {0} /\ p <= Len(s) /\ p + 1 \in Nat \ {0} /\ DOMAIN s = 1 .. Len(s)
  OBVIOUS
<1>2. v \in Seq(Chars) /\ Len(v) = Len(s) - p + 1 /\ \A m \in 1 .. Len(s) - p + 1 : v[m] = s[p + m - 1]
  <2>1. p \in 1 .. Len(s) + 1 /\ Len(s) \in p - 1 .. Len(s) /\ p <= Len(s)
    BY <1>1
  <2>2. /\ v \in Seq(Chars)
        /\ Len(v) = IF p <= Len(s) THEN Len(s) - p + 1 ELSE 0
        /\ \A m \in 1 .. Len(s) - p + 1 : v[m] = s[p + m - 1]
    BY <2>1, SubSeqProperties
  <2>3. QED BY <2>1, <2>2
<1> HIDE DEF v
<1>3. ASSUME v = <<Slash, Hash>>
      PROVE  At(s, p + 1) = Hash
  <2>1. Len(v) = 2 /\ v[2] = Hash
    BY <1>3
  <2>2. Len(s) = p + 1
    <3>1. Len(s) - p + 1 = 2
      BY <2>1, <1>2
    <3>2. \A l, n \in Nat : l - n + 1 = 2 => l = n + 1
      OBVIOUS
    <3>3. QED BY <3>1, <3>2, <1>1
  <2>3. 2 \in 1 .. Len(s) - p + 1 /\ p + 2 - 1 = p + 1
    BY <2>2, <1>1
  <2>4. s[p + 1] = Hash
    BY <2>1, <2>3, <1>2
  <2>5. QED BY <2>2, <2>4, <1>1, AtIs
<1>4. ASSUME At(s, p + 1) = Hash
      PROVE  v = <<Slash, Hash>>
  <2>1. p + 1 <= Len(s) /\ s[p + 1] = Hash
    <3>1. Hash # Nul
      BY DEF Hash, Nul
    <3>2. QED BY <3>1, <1>4, <1>1, AtIs
  <2>2. At(s, (p + 1) + 1) = Nul
    <3>1. p + 1 \in DOMAIN s
      BY <2>1, <1>1
    <3>2. QED BY <3>1, <2>1 DEF mqtt_valid_filter
  <2>3. Len(s) = p + 1
    <3>1. (p + 1) + 1 \in Nat \ {0}
      BY <1>1
    <3>2. ~((p + 1) + 1 <= Len(s))
      BY <3>1, <2>2, AtIs
    <3>3. \A l, n \in Nat : n + 1 <= l /\ ~((n + 1) + 1 <= l) => l = n + 1
      OBVIOUS
    <3>4. QED BY <3>2, <3>3, <2>1, <1>1
  <2>4. Len(v) = 2 /\ 1 \in 1 .. Len(s) - p + 1 /\ 2 \in 1 .. Len(s) - p + 1 /\ p + 1 - 1 = p /\ p + 2 - 1 = p + 1
    BY <2>3, <1>1, <1>2
  <2>5. v[1] = Slash /\ v[2] = Hash
    BY <2>1, <2>4, <1>2
  <2>6. <<Slash, Hash>> \in Seq(Chars) /\ Len(<<Slash, Hash>>) = 2
    BY DEF Chars
  <2>7. \A n \in 1 .. Len(v) : v[n] = <<Slash, Hash>>[n]
    BY <2>4, <2>5
  <2>8. QED BY <1>2, <2>4, <2>6, <2>7, SeqEqual
<1>5. QED BY <1>3, <1>4 DEF v

\* Level k matches, both pointers at its end.
LEMMA AfterLevelStep ==
    ASSUME TopicsInd, result = "running", NEW k \in Nat,
           Starts(filter, fp, k), Starts(topic, tp, k), Agree(k + 1), At(filter, fp) # Hash,
           AfterLevel(LevelEnd(filter, fp), LevelEnd(topic, tp))
    PROVE  TopicsInd'
<1> DEFINE p == LevelEnd(filter, fp)
           q == LevelEnd(topic, tp)
           F == Levels(filter)
           T == Levels(topic)
<1>1. filter \in Seq(Chars) /\ mqtt_valid_filter(filter) /\ topic \in Seq(Chars) /\ Spared
  BY DEF TopicsInd
<1>2. LevelHere(filter, fp, k) /\ LevelHere(topic, tp, k) /\ FilterLevel(filter, fp, k)
  BY <1>1, LevelAt, ValidLevels
<1>3. fp \in 1 .. Len(filter) + 1 /\ tp \in 1 .. Len(topic) + 1
  BY DEF Starts
<1>4. Ends(filter, fp, p) /\ Ends(topic, tp, q)
  BY <1>1, <1>3, EndExists
<1>5. /\ k \in 1 .. Len(F) /\ k \in 1 .. Len(T) /\ Len(F) \in Nat /\ Len(T) \in Nat
      /\ At(filter, p) = Slash => Starts(filter, p + 1, k + 1)
      /\ At(filter, p) # Slash => p = Len(filter) + 1 /\ Len(F) = k
      /\ At(topic, q) = Slash => Starts(topic, q + 1, k + 1)
      /\ At(topic, q) # Slash => Len(T) = k
  BY <1>1, <1>2, LevelsIs DEF LevelHere
<1>6. At(filter, p) \in {Slash, Nul} /\ At(topic, q) \in {Slash, Nul} /\ Slash # Nul
  BY <1>4, CharsAre DEF Ends
<1>7. F[k] # <<Hash>>
  <2>1. At(filter, fp) = Plus => F[k] = <<Plus>>
    BY <1>2 DEF FilterLevel, LevelHere
  <2>2. At(filter, fp) # Plus => F[k] # <<Hash>>
    BY <1>2 DEF FilterLevel, LevelHere
  <2>3. <<Plus>> # <<Hash>>
    BY DEF Plus, Hash
  <2>4. QED BY <2>1, <2>2, <2>3
<1>8. \A m \in 1 .. k : F[m] \in {<<Plus>>, T[m]}
  BY (k + 1) - 1 = k DEF Agree
\* The topic ends here.
<1>9. ASSUME At(topic, q) = Nul
      PROVE  LevelwiseMatch(F, T) <=> At(filter, p) = Nul \/ SubSeq(filter, p, Len(filter)) = <<Slash, Hash>>
  <2>1. Len(T) = k
    BY <1>5, <1>6, <1>9
  <2>2. ASSUME At(filter, p) = Nul
        PROVE  LevelwiseMatch(F, T)
    <3>1. Len(F) = k
      BY <2>2, <1>5, <1>6
    <3>2. LevelwiseIs(Len(F))
      BY <3>1, <1>7, MatchClosed
    <3>3. QED BY <3>1, <3>2, <2>1, <1>1, <1>7, <1>8 DEF LevelwiseIs
  <2>3. ASSUME At(filter, p) # Nul
        PROVE  LevelwiseMatch(F, T) <=> SubSeq(filter, p, Len(filter)) = <<Slash, Hash>>
    <3>1. Starts(filter, p + 1, k + 1) /\ At(filter, p) = Slash
      BY <2>3, <1>5, <1>6
    <3>2. LevelHere(filter, p + 1, k + 1) /\ FilterLevel(filter, p + 1, k + 1)
      BY <3>1, <1>1, LevelAt, ValidLevels
    <3>3. k + 1 \in 1 .. Len(F) /\ (At(filter, p + 1) = Hash <=> F[k + 1] = <<Hash>>)
          /\ (F[k + 1] = <<Hash>> => Len(F) = k + 1)
      <4>1. <<Plus>> # <<Hash>> /\ Plus # Hash
        BY DEF Plus, Hash
      <4>2. QED BY <3>2, <4>1 DEF LevelHere, FilterLevel
    <3>4. p \in Nat \ {0} /\ p + 1 \in 1 .. Len(filter) + 1 /\ Len(filter) \in Nat /\ p <= Len(filter) /\ filter[p] = Slash
      <4>1. p \in Nat \ {0} /\ p + 1 \in 1 .. Len(filter) + 1 /\ Len(filter) \in Nat
        BY <3>1, <1>1, <1>3, <1>4 DEF Starts, Ends
      <4>2. p <= Len(filter)
        BY <4>1
      <4>3. QED BY <4>1, <4>2, <3>1, <1>1, AtIs
    <3>5. SubSeq(filter, p, Len(filter)) = <<Slash, Hash>> <=> At(filter, p + 1) = Hash
      <4>1. p \in 1 .. Len(filter)
        BY <3>4
      <4>2. QED BY <4>1, <3>4, <1>1, LastIsHash
    <3>6. CASE F[k + 1] = <<Hash>>
      <4>1. Len(F) = k + 1 /\ Len(F) - 1 = k
        BY <3>3, <3>6
      <4>2. LevelwiseIs(Len(F) - 1)
        BY <4>1, <3>6, MatchOpen
      <4>3. LevelwiseMatch(F, T)
        BY <4>1, <4>2, <3>6, <2>1, <1>1, <1>8 DEF LevelwiseIs
      <4>4. QED BY <4>3, <3>3, <3>5, <3>6
    <3>7. CASE F[k + 1] # <<Hash>>
      <4>1. CASE F[Len(F)] = <<Hash>>
        <5>1. LevelwiseIs(Len(F) - 1)
          BY <4>1, MatchOpen
        <5>2. Len(F) # k + 1 /\ Len(F) - 1 > k
          BY <4>1, <3>3, <3>7, <1>5
        <5>3. QED BY <5>1, <5>2, <4>1, <2>1, <3>3, <3>5, <3>7, <1>5 DEF LevelwiseIs
      <4>2. CASE F[Len(F)] # <<Hash>>
        <5>1. LevelwiseIs(Len(F))
          BY <4>2, MatchClosed
        <5>2. QED BY <5>1, <4>2, <2>1, <3>3, <3>5, <3>7, <1>5 DEF LevelwiseIs
      <4>3. QED BY <4>1, <4>2
    <3>8. QED BY <3>6, <3>7
  <2>4. QED BY <2>2, <2>3
\* The topic goes on, and the filter does not.
<1>10. ASSUME At(topic, q) # Nul, At(filter, p) # Slash
       PROVE  ~LevelwiseMatch(F, T)
  <2>1. Len(F) = k /\ Starts(topic, q + 1, k + 1)
    BY <1>5, <1>6, <1>10
  <2>2. k + 1 \in 1 .. Len(T)
    BY <2>1, <1>1, LevelAt DEF LevelHere
  <2>3. LevelwiseIs(Len(F))
    BY <2>1, <1>7, MatchClosed
  <2>4. QED BY <2>1, <2>2, <2>3, <1>5, <1>7 DEF LevelwiseIs
<1>11. CASE At(topic, q) = Nul /\ Return(At(filter, p) = Nul \/ SubSeq(filter, p, Len(filter)) = <<Slash, Hash>>)
  BY <1>11, <1>9, ReturnsRight
<1>12. CASE At(topic, q) # Nul /\ At(filter, p) # Slash /\ Return(FALSE)
  BY <1>12, <1>10, ReturnsRight
<1>13. CASE /\ At(topic, q) # Nul /\ At(filter, p) = Slash
            /\ fp' = p + 1 /\ tp' = q + 1 /\ UNCHANGED <<filter, topic, result>>
  <2>1. Starts(filter', fp', k + 1) /\ Starts(topic', tp', k + 1) /\ k + 1 \in Nat
    BY <1>13, <1>5, <1>6
  <2>2. Agree(k + 1)'
    BY <1>13 DEF Agree
  <2>3. \E n \in Nat : Starts(filter', fp', n) /\ Starts(topic', tp', n) /\ (result' = "running" => Agree(n)')
    BY <2>1, <2>2
  <2>4. Spared' /\ result' = "running"
    BY <1>13, <1>1 DEF Spared
  <2>5. filter' \in Seq(Chars) /\ mqtt_valid_filter(filter') /\ topic' \in Seq(Chars)
    BY <1>13, <1>1
  <2>6. QED BY <2>3, <2>4, <2>5 DEF TopicsInd
<1>14. QED BY <1>11, <1>12, <1>13 DEF AfterLevel

LEMMA RestStep == TopicsInd /\ MatchRest => TopicsInd'
<1> SUFFICES ASSUME TopicsInd, MatchRest
             PROVE  TopicsInd'
  OBVIOUS
<1>1. filter \in Seq(Chars) /\ mqtt_valid_filter(filter) /\ topic \in Seq(Chars) /\ result = "running" /\ Spared
  BY DEF TopicsInd, MatchRest
<1>2. PICK k \in Nat : Starts(filter, fp, k) /\ Starts(topic, tp, k) /\ Agree(k)
  BY <1>1 DEF TopicsInd
<1>3. At(filter, fp) = Hash /\ Return(TRUE)
  BY DEF MatchRest
<1>4. LevelHere(filter, fp, k) /\ LevelHere(topic, tp, k) /\ FilterLevel(filter, fp, k)
  BY <1>1, <1>2, LevelAt, ValidLevels
<1>5. Levels(filter)[k] = <<Hash>> /\ k = Len(Levels(filter)) /\ k \in 1 .. Len(Levels(topic)) /\ Len(Levels(topic)) \in Nat
  BY <1>1, <1>3, <1>4, LevelsIs DEF FilterLevel, LevelHere
<1>6. LevelwiseIs(k - 1)
  BY <1>5, MatchOpen
<1>7. LevelwiseMatch(Levels(filter), Levels(topic))
  BY <1>1, <1>2, <1>5, <1>6 DEF LevelwiseIs, Agree
<1>8. QED BY <1>1, <1>3, <1>7, ReturnsRight

LEMMA AgreeNext ==
    ASSUME NEW k \in Nat, Agree(k), Levels(filter)[k] \in {<<Plus>>, Levels(topic)[k]}
    PROVE  Agree(k + 1)
BY DEF Agree

LEMMA OneStep == TopicsInd /\ MatchOne => TopicsInd'
<1> SUFFICES ASSUME TopicsInd, MatchOne
             PROVE  TopicsInd'
  OBVIOUS
<1>1. filter \in Seq(Chars) /\ mqtt_valid_filter(filter) /\ topic \in Seq(Chars) /\ result = "running"
  BY DEF TopicsInd, MatchOne
<1>2. PICK k \in Nat : Starts(filter, fp, k) /\ Starts(topic, tp, k) /\ Agree(k)
  BY <1>1 DEF TopicsInd
<1>3. At(filter, fp) = Plus /\ AfterLevel(fp + 1, LevelEnd(topic, tp)) /\ Plus # Hash
  BY DEF MatchOne, Plus, Hash
<1>4. LevelHere(filter, fp, k) /\ FilterLevel(filter, fp, k)
  BY <1>1, <1>2, LevelAt, ValidLevels
<1>5. Levels(filter)[k] = <<Plus>> /\ LevelEnd(filter, fp) = fp + 1
  BY <1>3, <1>4 DEF FilterLevel, LevelHere
<1>6. Agree(k + 1)
  BY <1>2, <1>5, AgreeNext
<1>7. AfterLevel(LevelEnd(filter, fp), LevelEnd(topic, tp))
  BY <1>3, <1>5
<1>8. QED BY <1>1, <1>2, <1>3, <1>6, <1>7, AfterLevelStep

LEMMA LiteralStep == TopicsInd /\ MatchLiteral => TopicsInd'
<1> SUFFICES ASSUME TopicsInd, MatchLiteral
             PROVE  TopicsInd'
  OBVIOUS
<1>1. filter \in Seq(Chars) /\ mqtt_valid_filter(filter) /\ topic \in Seq(Chars) /\ result = "running"
  BY DEF TopicsInd, MatchLiteral
<1>2. PICK k \in Nat : Starts(filter, fp, k) /\ Starts(topic, tp, k) /\ Agree(k)
  BY <1>1 DEF TopicsInd
<1>3. At(filter, fp) \notin {Plus, Hash}
  BY DEF MatchLiteral
<1>4. LevelHere(filter, fp, k) /\ LevelHere(topic, tp, k) /\ FilterLevel(filter, fp, k)
  BY <1>1, <1>2, LevelAt, ValidLevels
<1>5. /\ Levels(filter)[k] = Level(filter, fp) /\ Levels(topic)[k] = Level(topic, tp)
      /\ Levels(filter)[k] # <<Plus>> /\ Levels(filter)[k] # <<Hash>>
      /\ k \in 1 .. Len(Levels(filter)) /\ Len(Levels(filter)) \in Nat
  BY <1>1, <1>3, <1>4, LevelsIs DEF FilterLevel, LevelHere
<1>6. CASE Level(filter, fp) = Level(topic, tp) /\ AfterLevel(LevelEnd(filter, fp), LevelEnd(topic, tp))
  <2>1. Agree(k + 1)
    BY <1>2, <1>5, <1>6, AgreeNext
  <2>2. QED BY <2>1, <1>1, <1>2, <1>3, <1>6, AfterLevelStep
<1>7. CASE Level(filter, fp) # Level(topic, tp) /\ Return(FALSE)
  <2>1. Levels(filter)[k] \notin {<<Plus>>, Levels(topic)[k]}
    BY <1>5, <1>7
  <2>2. ~LevelwiseMatch(Levels(filter), Levels(topic))
    <3>1. CASE Levels(filter)[Len(Levels(filter))] = <<Hash>>
      <4>1. LevelwiseIs(Len(Levels(filter)) - 1)
        BY <3>1, MatchOpen
      <4>2. k # Len(Levels(filter)) /\ k \in 1 .. Len(Levels(filter)) - 1
        BY <3>1, <1>5
      <4>3. QED BY <4>1, <4>2, <2>1 DEF LevelwiseIs
    <3>2. CASE Levels(filter)[Len(Levels(filter))] # <<Hash>>
      <4>1. LevelwiseIs(Len(Levels(filter)))
        BY <3>2, MatchClosed
      <4>2. QED BY <4>1, <2>1, <1>5 DEF LevelwiseIs
    <3>3. QED BY <3>1, <3>2
  <2>3. QED BY <2>2, <1>1, <1>7, ReturnsRight
<1>8. QED BY <1>6, <1>7 DEF MatchLiteral

\* The invariant of mqtt_topic_match's loop, for filters and topics of any
\* length over any alphabet: both pointers stand at the start of the same level
\* and all levels in front of it match, or the function has returned what the
\* protocol says.
THEOREM TopicsInvariant == TopicsSpec => []TopicsInd
<1>1. TopicsInd /\ [TopicsNext]_match => TopicsInd'
  <2> SUFFICES ASSUME TopicsInd, [TopicsNext]_match
               PROVE  TopicsInd'
    OBVIOUS
  <2>1. CASE UNCHANGED match
    BY <2>1 DEF TopicsInd, match, Decided, Spared, Agree
  <2>2. CASE TopicsNext
    BY <2>1, <2>2, RestStep, OneStep, LiteralStep DEF TopicsNext, Returned
  <2>3. QED BY <2>1, <2>2
<1>2. QED BY <1>1, TopicsStart, PTL DEF TopicsSpec

\* mqtt_topic_match decides what the protocol says, level by level, and stays
\* inside both strings; mqtt_valid_filter accepts only filters whose wildcards
\* fill a level.
THEOREM TopicsMatch == TopicsSpec => []MatchesByLevel
<1>1. TopicsInd => MatchesByLevel
  <2> SUFFICES ASSUME TopicsInd
               PROVE  MatchesByLevel
    OBVIOUS
  <2>1. WholeLevels(Levels(filter))
    BY WildcardsWhole DEF TopicsInd
  <2>2. fp \in 1 .. Len(filter) + 1 /\ tp \in 1 .. Len(topic) + 1
    BY DEF TopicsInd, Starts
  <2>3. result # "running" => Decided
    BY DEF TopicsInd
  <2>4. QED BY <2>1, <2>2, <2>3 DEF MatchesByLevel, Decided
<1>2. QED BY <1>1, TopicsInvariant, PTL

-----------------------------------------------------------------------------
(* Packet framing *)

LEMMA DivMod ==
    ASSUME NEW v \in Nat
    PROVE  /\ v \div Base \in Nat /\ v % Base \in Nat /\ v % Base < Base
           /\ v = Base * (v \div Base) + (v % Base)
<1>1. PICK b \in Nat : b = Base /\ b > 0
  BY FramesAssumption
<1>2. v \div b \in Nat /\ v % b \in Nat /\ v % b < b
  BY <1>1
<1>3. v = b * (v \div b) + (v % b)
  BY <1>1
<1>4. QED BY <1>1, <1>2, <1>3

LEMMA Regroup ==
    ASSUME NEW a \in Nat, NEW r \in Nat, NEW q \in Nat, NEW m \in Nat, NEW b \in Nat
    PROVE  a + (b * q + r) * m = (a + r * m) + q * (m * b)
OBVIOUS

Halves(v, q) ==
    q \in [0 .. MaxDigits -> Nat] /\ q[0] = v /\ \A d \in 1 .. MaxDigits : q[d] = q[d - 1] \div Base

LEMMA LeftIs ==
    ASSUME NEW v \in Nat
    PROVE  Halves(v, Left(v))
<1> DEFINE L == MaxDigits
           Step(g) == [d \in 0 .. L |-> IF d = 0 THEN v ELSE g[d - 1] \div Base]
           left == CHOOSE g : g = Step(g)
           step == [x \in (1 .. L) \X Nat |-> x[2] \div Base]
<1>1. L \in Nat
  BY FramesAssumption
<1>2. Left(v) = left
  BY DEF Left
<1> HIDE DEF L
<1>3. \E g : g = Step(g)
  <2>1. step \in [(1 .. L) \X Nat -> Nat]
    BY DivMod
  <2>2. PICK g \in [0 .. L -> Nat] : g[0] = v /\ \A n \in 1 .. L : g[n] = step[<<n, g[n - 1]>>]
    <3> HIDE DEF step
    <3>1. HasRun(Nat, v, L, step)
      BY <1>1, <2>1, LoopRuns
    <3>2. QED BY <3>1 DEF HasRun
  <2>3. ASSUME NEW n \in 1 .. L
        PROVE  g[n] = g[n - 1] \div Base
    <3>1. n - 1 \in 0 .. L /\ g[n - 1] \in Nat
      BY <1>1
    <3>2. step[<<n, g[n - 1]>>] = g[n - 1] \div Base
      BY <3>1
    <3>3. QED BY <2>2, <3>2
  <2>4. g = Step(g)
    <3> HIDE DEF step
    <3> QED BY <1>1, <2>2, <2>3
  <2>5. QED BY <2>4
<1>4. left = Step(left)
  <2> HIDE DEF Step
  <2> QED BY <1>3
<1>5. DOMAIN left = 0 .. L /\ left[0] = v /\ \A d \in 1 .. L : left[d] = left[d - 1] \div Base
  <2> HIDE DEF left
  <2>1. \A d \in 1 .. L : d \in 0 .. L /\ d # 0
    BY <1>1
  <2>2. QED BY <1>4, <1>1, <2>1
<1> HIDE DEF left
<1>6. \A d \in 0 .. L : left[d] \in Nat
  <2> DEFINE S == {d \in 0 .. L : left[d] \in Nat}
  <2>1. 0 \in S
    BY <1>1, <1>5
  <2>2. ASSUME NEW d \in 1 .. L, d - 1 \in S
        PROVE  d \in S
    <3>1. left[d - 1] \in Nat /\ d \in 0 .. L
      BY <2>2, <1>1
    <3>2. QED BY <3>1, <1>5, DivMod
  <2>3. \A d \in 0 .. L : d \in S
    <3> HIDE DEF S
    <3> QED BY <1>1, <2>1, <2>2, UpTo
  <2>4. QED BY <2>3
<1>7. left \in [0 .. L -> Nat]
  <2>1. left = [d \in 0 .. L |-> left[d]]
    <3> HIDE DEF Step
    <3>1. left = Step(left)
      BY <1>4
    <3>2. QED BY <3>1, <1>5 DEF Step
  <2>2. QED BY <2>1, <1>6
<1>8. QED BY <1>2, <1>5, <1>7 DEF Halves, L

\* The body lengths that are sent.
Lengths == 0 .. MaxBody

LEMMA DigitsAre ==
    ASSUME NEW v \in Lengths
    PROVE  /\ Digits(v) \in 1 .. MaxDigits /\ Left(v)[Digits(v)] = 0
           /\ \A d \in 1 .. Digits(v) - 1 : Left(v)[d] > 0
<1> DEFINE S == {d \in 1 .. MaxDigits : Left(v)[d] = 0}
<1>1. v \in Nat /\ MaxDigits \in Nat \ {0} /\ Left(v)[MaxDigits] = 0
  BY FramesAssumption DEF Lengths
<1>2. S \in SUBSET Nat /\ MaxDigits \in S
  BY <1>1
<1>3. Min(S) \in S /\ \A x \in S : Min(S) <= x
  BY <1>2, MinIs
<1>4. Digits(v) = Min(S)
  BY DEF Digits
<1> DEFINE n == Digits(v)
<1>5. n \in S /\ \A x \in S : n <= x
  BY <1>3, <1>4
<1> HIDE DEF n
<1>6. n \in 1 .. MaxDigits /\ Left(v)[n] = 0
  BY <1>5
<1>7. ASSUME NEW d \in 1 .. n - 1
      PROVE  Left(v)[d] > 0
  <2>1. d \in 1 .. MaxDigits /\ d \in 0 .. MaxDigits /\ ~(n <= d)
    BY <1>6, <1>1
  <2>2. d \notin S
    BY <2>1, <1>5
  <2>3. Left(v)[d] \in Nat
    BY <2>1, <1>1, LeftIs DEF Halves
  <2>4. QED BY <2>1, <2>2, <2>3
<1>8. QED BY <1>6, <1>7 DEF n

\* Only the last digit lacks the top bit.
LEMMA EncodeIs ==
    ASSUME NEW v \in Lengths
    PROVE  /\ mqtt_varint_encode(v) \in Seq(Nat) /\ Len(mqtt_varint_encode(v)) = Digits(v)
           /\ \A d \in 1 .. Digits(v) : mqtt_varint_encode(v)[d] % Base = Left(v)[d - 1] % Base
           /\ \A d \in 1 .. Digits(v) - 1 : mqtt_varint_encode(v)[d] >= Base
           /\ mqtt_varint_encode(v)[Digits(v)] < Base
<1> DEFINE q == Left(v)
           n == Digits(v)
           e == mqtt_varint_encode(v)
<1>1. v \in Nat /\ Base \in Nat \ {0, 1} /\ MaxDigits \in Nat
  BY FramesAssumption DEF Lengths
<1>2. Halves(v, q)
  BY <1>1, LeftIs
<1>3. n \in 1 .. MaxDigits /\ q[n] = 0 /\ \A d \in 1 .. n - 1 : q[d] > 0
  BY DigitsAre
<1>4. e = [d \in 1 .. n |-> (q[d - 1] % Base) + (IF q[d] > 0 THEN Base ELSE 0)]
  BY DEF mqtt_varint_encode
<1> HIDE DEF q, n, e
<1>5. q \in [0 .. MaxDigits -> Nat]
  BY <1>2 DEF Halves
<1>6. ASSUME NEW d \in 1 .. n
      PROVE  /\ e[d] \in Nat /\ e[d] % Base = q[d - 1] % Base
             /\ d # n => e[d] >= Base
             /\ d = n => e[d] < Base
  <2>1. d - 1 \in 0 .. MaxDigits /\ d \in 0 .. MaxDigits /\ (d # n => d \in 1 .. n - 1)
    BY <1>1, <1>3
  <2>2. PICK r \in Nat : r = q[d - 1] % Base /\ r < Base
    <3>1. q[d - 1] \in Nat
      BY <2>1, <1>5
    <3>2. QED BY <3>1, DivMod
  <2>3. e[d] = r + (IF q[d] > 0 THEN Base ELSE 0)
    BY <1>4, <2>2
  <2>4. r % Base = r /\ (r + Base) % Base = r
    BY <2>2, <1>1
  <2>5. CASE d = n
    <3>1. e[d] = r
      BY <2>3, <2>5, <1>3, <2>2
    <3>2. QED BY <3>1, <2>2, <2>4, <2>5
  <2>6. CASE d # n
    <3>1. e[d] = r + Base
      BY <2>1, <2>3, <2>6, <1>3
    <3>2. r + Base >= Base /\ r + Base \in Nat
      BY <2>2, <1>1
    <3>3. QED BY <3>1, <3>2, <2>2, <2>4, <2>6
  <2>7. QED BY <2>5, <2>6
<1>7. n \in Nat /\ DOMAIN e = 1 .. n
  BY <1>1, <1>3, <1>4
<1>8. e \in Seq(Nat) /\ Len(e) = n
  <2>1. e \in [1 .. n -> Nat]
    BY <1>4, <1>6, <1>7
  <2>2. QED BY <2>1, <1>7
<1>9. (\A d \in 1 .. n - 1 : d \in 1 .. n /\ d # n) /\ n \in 1 .. n
  BY <1>3, <1>1
<1>10. /\ \A d \in 1 .. n : e[d] % Base = q[d - 1] % Base
       /\ \A d \in 1 .. n - 1 : e[d] >= Base
       /\ e[n] < Base
  BY <1>6, <1>9
<1>11. QED BY <1>8, <1>10 DEF q, n, e

\* The loop of mqtt_varint_decode over n digits.
Reading(b, n, f) ==
    /\ f \in [0 .. n -> Nat \X Nat] /\ f[0] = <<0, 1>>
    /\ \A d \in 1 .. n : f[d] = <<f[d - 1][1] + (b[d] % Base) * f[d - 1][2], f[d - 1][2] * Base>>

LEMMA TurnsAre ==
    ASSUME NEW b \in Seq(Nat), NEW n \in 0 .. Len(b)
    PROVE  \E f : Reading(b, n, f) /\ Turns(b, n) = f[n]
<1> DEFINE P == Nat \X Nat
           turn(d, x) == <<x[1] + (b[d] % Base) * x[2], x[2] * Base>>
           Step(g) == [d \in 0 .. n |-> IF d = 0 THEN <<0, 1>> ELSE turn(d, g[d - 1])]
           acc == CHOOSE g : g = Step(g)
           step == [x \in (1 .. n) \X P |-> turn(x[1], x[2])]
<1>1. n \in Nat /\ <<0, 1>> \in P /\ Base \in Nat \ {0, 1}
  BY FramesAssumption
<1>2. Turns(b, n) = acc[n]
  BY DEF Turns
<1>3. \A d \in 1 .. n : b[d] % Base \in Nat
  <2> TAKE d \in 1 .. n
  <2>1. b[d] \in Nat
    OBVIOUS
  <2>2. QED BY <2>1, DivMod
<1>4. \A d \in 1 .. n, x \in P : turn(d, x) \in P
  <2> TAKE d \in 1 .. n, x \in P
  <2>1. PICK r \in Nat : r = b[d] % Base
    BY <1>3
  <2>2. PICK y \in Nat, z \in Nat : y = x[1] /\ z = x[2]
    OBVIOUS
  <2>3. \A k, l, m \in Nat : k * l \in Nat /\ m + k * l \in Nat
    OBVIOUS
  <2>4. y + r * z \in Nat /\ z * Base \in Nat
    BY <2>3, <1>1
  <2>5. QED BY <2>1, <2>2, <2>4
<1> HIDE DEF P, turn
<1>5. PICK g \in [0 .. n -> P] : g[0] = <<0, 1>> /\ \A d \in 1 .. n : g[d] = turn(d, g[d - 1])
  <2>1. step \in [(1 .. n) \X P -> P]
    BY <1>4
  <2>2. PICK g \in [0 .. n -> P] : g[0] = <<0, 1>> /\ \A d \in 1 .. n : g[d] = step[<<d, g[d - 1]>>]
    <3> HIDE DEF step
    <3>1. HasRun(P, <<0, 1>>, n, step)
      BY <1>1, <2>1, LoopRuns
    <3>2. QED BY <3>1 DEF HasRun
  <2>3. ASSUME NEW d \in 1 .. n
        PROVE  g[d] = turn(d, g[d - 1])
    <3>1. d - 1 \in 0 .. n /\ g[d - 1] \in P
      BY <1>1
    <3>2. step[<<d, g[d - 1]>>] = turn(d, g[d - 1])
      BY <3>1
    <3>3. QED BY <2>2, <3>2
  <2>4. QED BY <2>2, <2>3
<1>6. g = Step(g)
  BY <1>1, <1>5
<1>7. acc = Step(acc)
  <2> HIDE DEF Step
  <2> QED BY <1>6
<1>8. acc[0] = <<0, 1>> /\ \A d \in 1 .. n : acc[d] = turn(d, acc[d - 1])
  <2> HIDE DEF acc
  <2>1. \A d \in 1 .. n : d \in 0 .. n /\ d # 0
    BY <1>1
  <2>2. QED BY <1>7, <1>1, <2>1
<1> HIDE DEF acc
<1>9. \A d \in 0 .. n : acc[d] = g[d]
  <2> DEFINE S == {d \in 0 .. n : acc[d] = g[d]}
  <2>1. 0 \in S
    BY <1>1, <1>5, <1>8
  <2>2. ASSUME NEW d \in 1 .. n, d - 1 \in S
        PROVE  d \in S
    BY <2>2, <1>1, <1>5, <1>8
  <2>3. \A d \in 0 .. n : d \in S
    <3> HIDE DEF S
    <3> QED BY <1>1, <2>1, <2>2, UpTo
  <2>4. QED BY <2>3
<1>10. Turns(b, n) = g[n]
  <2>1. n \in 0 .. n
    BY <1>1
  <2>2. QED BY <2>1, <1>2, <1>9
<1>11. Reading(b, n, g)
  BY <1>5 DEF Reading, P, turn
<1>12. QED BY <1>10, <1>11

\* The value read plus what is left to read is the value written.
LEMMA TurnsRead ==
    ASSUME NEW v \in Lengths, NEW b \in Seq(Nat), Digits(v) <= Len(b),
           \A d \in 1 .. Digits(v) : b[d] = mqtt_varint_encode(v)[d]
    PROVE  Turns(b, Digits(v))[1] = v
<1> DEFINE q == Left(v)
           n == Digits(v)
<1>1. v \in Nat /\ Base \in Nat \ {0, 1} /\ MaxDigits \in Nat
  BY FramesAssumption DEF Lengths
<1>2. Halves(v, q)
  BY <1>1, LeftIs
<1>3. n \in 1 .. MaxDigits /\ q[n] = 0
  BY DigitsAre
<1>4. \A d \in 1 .. n : b[d] % Base = q[d - 1] % Base
  BY EncodeIs
<1>5. n \in 0 .. Len(b) /\ n \in Nat
  BY <1>1, <1>3
<1>6. PICK f : Reading(b, n, f) /\ Turns(b, n) = f[n]
  BY <1>5, TurnsAre
<1>7. Turns(b, Digits(v)) = Turns(b, n)
  OBVIOUS
<1> HIDE DEF q, n
<1>8. /\ q \in [0 .. MaxDigits -> Nat] /\ q[0] = v /\ \A d \in 1 .. MaxDigits : q[d] = q[d - 1] \div Base
      /\ f \in [0 .. n -> Nat \X Nat] /\ f[0] = <<0, 1>>
      /\ \A d \in 1 .. n : f[d] = <<f[d - 1][1] + (b[d] % Base) * f[d - 1][2], f[d - 1][2] * Base>>
  BY <1>2, <1>6 DEF Halves, Reading
<1> DEFINE S == {d \in 0 .. n : f[d][1] + q[d] * f[d][2] = v}
<1>9. 0 \in S
  <2>1. f[0][1] = 0 /\ f[0][2] = 1 /\ 0 + v * 1 = v
    BY <1>8, <1>1
  <2>2. QED BY <2>1, <1>5, <1>8
<1>10. ASSUME NEW d \in 1 .. n, d - 1 \in S
       PROVE  d \in S
  <2>1. d - 1 \in 0 .. MaxDigits /\ d \in 1 .. MaxDigits /\ d - 1 \in 0 .. n /\ d \in 0 .. n
    BY <1>3, <1>1
  <2>2. PICK a \in Nat, m \in Nat : a = f[d - 1][1] /\ m = f[d - 1][2]
    BY <2>1, <1>8
  <2>3. PICK w \in Nat : w = q[d - 1]
    BY <2>1, <1>8
  <2>4. PICK r \in Nat, u \in Nat : r = w % Base /\ u = w \div Base /\ w = Base * u + r
    BY DivMod
  <2>5. q[d] = u /\ b[d] % Base = r
    BY <2>1, <2>3, <2>4, <1>4, <1>8
  <2>6. f[d] = <<a + r * m, m * Base>>
    BY <2>2, <2>5, <1>8
  <2>7. a + w * m = v
    BY <1>10, <2>2, <2>3
  <2>8. a + (Base * u + r) * m = (a + r * m) + u * (m * Base)
    BY <1>1, Regroup
  <2>9. (a + r * m) + u * (m * Base) = v
    BY <2>4, <2>7, <2>8
  <2>10. f[d][1] = a + r * m /\ f[d][2] = m * Base
    BY <2>6
  <2>11. f[d][1] + q[d] * f[d][2] = v
    BY <2>5, <2>9, <2>10, Zenon
  <2>12. QED BY <2>1, <2>11
<1>11. \A d \in 0 .. n : d \in S
  <2> HIDE DEF S
  <2> QED BY <1>5, <1>9, <1>10, UpTo
<1>12. n \in S
  BY <1>5, <1>11
<1>13. PICK a \in Nat, m \in Nat : a = f[n][1] /\ m = f[n][2]
  <2>1. n \in 0 .. n
    BY <1>5
  <2>2. QED BY <2>1, <1>8
<1>14. a + 0 * m = v /\ 0 * m = 0
  BY <1>12, <1>13, <1>3
<1>15. a = v
  BY <1>14, <1>13
<1>16. QED BY <1>6, <1>13, <1>15 DEF n

\* What mqtt_varint_decode makes of a length that mqtt_varint_encode wrote,
\* whole or cut short.
LEMMA DecodeWhole ==
    ASSUME NEW v \in Lengths, NEW b \in Seq(Nat), Digits(v) <= Len(b),
           \A d \in 1 .. Digits(v) : b[d] = mqtt_varint_encode(v)[d]
    PROVE  mqtt_varint_decode(b) = [used |-> Digits(v), v |-> v]
<1> DEFINE n == Digits(v)
<1>1. n \in 1 .. MaxDigits /\ MaxDigits \in Nat
  BY DigitsAre, FramesAssumption
<1>2. b[n] < Base /\ \A d \in 1 .. n - 1 : b[d] >= Base /\ b[d] \in Nat
  <2>1. \A d \in 1 .. n - 1 : d \in 1 .. n /\ d \in 1 .. Len(b)
    BY <1>1
  <2>2. n \in 1 .. n
    BY <1>1
  <2>3. \A d \in 1 .. n : b[d] = mqtt_varint_encode(v)[d]
    OBVIOUS
  <2>4. (\A d \in 1 .. n - 1 : mqtt_varint_encode(v)[d] >= Base) /\ mqtt_varint_encode(v)[n] < Base
    BY EncodeIs
  <2> HIDE DEF n
  <2>5. b[n] < Base
    BY <2>2, <2>3, <2>4
  <2>6. \A d \in 1 .. n - 1 : b[d] >= Base
    BY <2>1, <2>3, <2>4
  <2>7. \A d \in 1 .. n - 1 : b[d] \in Nat
    BY <2>1
  <2>8. QED BY <2>5, <2>6, <2>7
<1>3. Turns(b, n)[1] = v
  BY TurnsRead
<1>4. n <= Len(b)
  OBVIOUS
<1> HIDE DEF n
<1>5. n \in Final(b) /\ Final(b) \in SUBSET Nat
  BY <1>1, <1>2, <1>4 DEF Final
<1>6. \A d \in Final(b) : n <= d
  <2>1. ASSUME NEW d \in Final(b), ~(n <= d)
        PROVE  FALSE
    <3>1. d \in 1 .. n - 1 /\ b[d] < Base
      BY <2>1, <1>1 DEF Final
    <3>2. Base \in Nat
      BY FramesAssumption
    <3>3. QED BY <3>1, <3>2, <1>2
  <2>2. QED BY <2>1
<1>7. Min(Final(b)) = n
  <2>1. Min(Final(b)) \in Final(b) /\ \A x \in Final(b) : Min(Final(b)) <= x
    BY <1>5, MinIs
  <2>2. PICK m \in Nat : m = Min(Final(b))
    BY <2>1, <1>5
  <2>3. m <= n /\ n <= m
    BY <2>1, <2>2, <1>5, <1>6
  <2>4. QED BY <2>2, <2>3, <1>1
<1>8. mqtt_varint_decode(b) = [used |-> n, v |-> v]
  BY <1>3, <1>5, <1>7 DEF mqtt_varint_decode
<1>9. QED BY <1>8 DEF n

LEMMA DecodeNone ==
    ASSUME NEW b \in Seq(Nat), \A d \in 1 .. MaxDigits : d <= Len(b) => b[d] >= Base
    PROVE  mqtt_varint_decode(b) = [used |-> IF Len(b) < MaxDigits THEN 0 ELSE Malformed, v |-> 0]
<1>1. MaxDigits \in Nat /\ Base \in Nat
  BY FramesAssumption
<1>2. ASSUME NEW d \in Final(b)
      PROVE  FALSE
  <2>1. d \in 1 .. MaxDigits /\ d <= Len(b) /\ b[d] < Base
    BY DEF Final
  <2>2. b[d] >= Base /\ b[d] \in Nat
    BY <2>1, <1>1
  <2>3. QED BY <2>1, <2>2, <1>1
<1>3. Final(b) = {}
  BY <1>2
<1>4. QED BY <1>3 DEF mqtt_varint_decode

LEMMA DecodeShort ==
    ASSUME NEW v \in Lengths, NEW b \in Seq(Nat), Len(b) < Digits(v),
           \A d \in 1 .. Len(b) : b[d] = mqtt_varint_encode(v)[d]
    PROVE  mqtt_varint_decode(b) = [used |-> 0, v |-> 0]
<1>1. Digits(v) \in 1 .. MaxDigits /\ MaxDigits \in Nat /\ Len(b) \in Nat
  BY DigitsAre, FramesAssumption
<1>2. ASSUME NEW d \in 1 .. MaxDigits, d <= Len(b)
      PROVE  b[d] >= Base
  <2>1. d \in 1 .. Len(b) /\ d \in 1 .. Digits(v) - 1
    BY <1>1, <1>2
  <2>2. QED BY <2>1, EncodeIs
<1>3. Len(b) < MaxDigits
  BY <1>1
<1>4. QED BY <1>2, <1>3, DecodeNone

Bodies == {s \in Seq(Nat) : Len(s) \in Lengths}

LEMMA BuildIs ==
    ASSUME NEW type \in Nat, NEW body \in Bodies
    PROVE  /\ mqtt_build(type, body) \in Seq(Nat)
           /\ Len(mqtt_build(type, body)) = 1 + Digits(Len(body)) + Len(body)
           /\ mqtt_build(type, body)[1] = type
           /\ \A d \in 1 .. Digits(Len(body)) : mqtt_build(type, body)[1 + d] = mqtt_varint_encode(Len(body))[d]
           /\ \A m \in 1 .. Len(body) : mqtt_build(type, body)[1 + Digits(Len(body)) + m] = body[m]
<1>1. PICK l \in Nat : l = Len(body) /\ l \in Lengths
  BY DEF Bodies
<1>2. PICK n \in Nat \ {0} : n = Digits(l)
  <2>1. MaxDigits \in Nat
    BY FramesAssumption
  <2>2. QED BY <1>1, <2>1, DigitsAre
<1>3. PICK e \in Seq(Nat) : e = mqtt_varint_encode(l) /\ Len(e) = n
  BY <1>1, <1>2, EncodeIs
<1> DEFINE h == <<type>>
           u == h \o e
           w == u \o body
<1>4. h \in Seq(Nat) /\ Len(h) = 1 /\ h[1] = type /\ body \in Seq(Nat)
  BY DEF Bodies
<1>5. mqtt_build(type, body) = w
  BY <1>1, <1>3 DEF mqtt_build
<1> HIDE DEF h
<1>6. u \in Seq(Nat) /\ Len(u) = 1 + n /\ \A i \in 1 .. 1 + n : u[i] = IF i <= 1 THEN h[i] ELSE e[i - 1]
  <2>1. /\ u \in Seq(Nat) /\ Len(u) = Len(h) + Len(e)
        /\ \A i \in 1 .. Len(h) + Len(e) : u[i] = IF i <= Len(h) THEN h[i] ELSE e[i - Len(h)]
    BY <1>3, <1>4, ConcatProperties
  <2> HIDE DEF u
  <2>2. QED BY <2>1, <1>3, <1>4
<1> HIDE DEF u
<1>7. w \in Seq(Nat) /\ Len(w) = 1 + n + l /\ \A i \in 1 .. 1 + n + l : w[i] = IF i <= 1 + n THEN u[i] ELSE body[i - (1 + n)]
  <2>1. /\ w \in Seq(Nat) /\ Len(w) = Len(u) + Len(body)
        /\ \A i \in 1 .. Len(u) + Len(body) : w[i] = IF i <= Len(u) THEN u[i] ELSE body[i - Len(u)]
    BY <1>4, <1>6, ConcatProperties
  <2>2. Len(u) = 1 + n /\ Len(body) = l /\ Len(u) + Len(body) = 1 + n + l
    BY <1>1, <1>6
  <2> HIDE DEF w
  <2>3. QED BY <2>1, <2>2
<1> HIDE DEF w
<1>8. w[1] = type
  <2>1. 1 \in 1 .. 1 + n + l /\ 1 \in 1 .. 1 + n /\ 1 <= 1 + n
    OBVIOUS
  <2>2. QED BY <2>1, <1>4, <1>6, <1>7
<1>9. \A d \in 1 .. n : w[1 + d] = e[d]
  <2> TAKE d \in 1 .. n
  <2>1. 1 + d \in 1 .. 1 + n + l /\ 1 + d \in 1 .. 1 + n /\ 1 + d <= 1 + n /\ ~(1 + d <= 1) /\ (1 + d) - 1 = d
    OBVIOUS
  <2>2. QED BY <2>1, <1>6, <1>7
<1>10. \A m \in 1 .. l : w[1 + n + m] = body[m]
  <2> TAKE m \in 1 .. l
  <2>1. 1 + n + m \in 1 .. 1 + n + l /\ ~(1 + n + m <= 1 + n) /\ (1 + n + m) - (1 + n) = m
    OBVIOUS
  <2>2. QED BY <2>1, <1>7
<1>11. QED BY <1>1, <1>2, <1>3, <1>5, <1>7, <1>8, <1>9, <1>10

\* Two ways to cut the same bytes agree as far as both first parts go.
Agrees(b, w, c, t) == b \o w = c \o t

LEMMA SamePrefix ==
    ASSUME NEW b \in Seq(Nat), NEW w \in Seq(Nat), NEW c \in Seq(Nat), NEW t \in Seq(Nat), Agrees(b, w, c, t)
    PROVE  \A i \in 1 .. Len(b) : i <= Len(c) => b[i] = c[i]
<1> TAKE i \in 1 .. Len(b)
<1>1. (b \o w)[i] = b[i]
  BY ConcatProperties
<1>2. i <= Len(c) => (c \o t)[i] = c[i]
  BY ConcatProperties
<1>3. QED BY <1>1, <1>2, Zenon DEF Agrees

Packet(type, body) ==
    [kind |-> "packet", type |-> type, body |-> body, total |-> Len(mqtt_build(type, body))]

\* What mqtt_frame makes of a buffer that starts with a packet, or with a part
\* of one.
LEMMA FramesPacket ==
    ASSUME NEW type \in Nat, NEW body \in Bodies, NEW b \in Seq(Nat),
           \A i \in 1 .. Len(b) : i <= Len(mqtt_build(type, body)) => b[i] = mqtt_build(type, body)[i]
    PROVE  mqtt_frame(b) = IF Len(b) < Len(mqtt_build(type, body)) THEN NoFrame("more") ELSE Packet(type, body)
<1>1. PICK l \in Nat : l = Len(body) /\ l \in Lengths
  BY DEF Bodies
<1>2. PICK n \in Nat \ {0} : n = Digits(l) /\ n <= MaxDigits
  <2>1. MaxDigits \in Nat
    BY FramesAssumption
  <2>2. QED BY <1>1, <2>1, DigitsAre
<1>3. PICK c \in Seq(Nat) : /\ c = mqtt_build(type, body) /\ Len(c) = 1 + n + l /\ c[1] = type
                            /\ \A d \in 1 .. n : c[1 + d] = mqtt_varint_encode(l)[d]
                            /\ \A m \in 1 .. l : c[1 + n + m] = body[m]
  <2>1. Len(body) = l /\ Digits(Len(body)) = n
    BY <1>1, <1>2
  <2>2. /\ mqtt_build(type, body) \in Seq(Nat)
        /\ Len(mqtt_build(type, body)) = 1 + Digits(Len(body)) + Len(body)
        /\ mqtt_build(type, body)[1] = type
        /\ \A d \in 1 .. Digits(Len(body)) : mqtt_build(type, body)[1 + d] = mqtt_varint_encode(Len(body))[d]
        /\ \A m \in 1 .. Len(body) : mqtt_build(type, body)[1 + Digits(Len(body)) + m] = body[m]
    BY BuildIs
  <2>3. QED BY <2>1, <2>2
<1>4. \A i \in 1 .. Len(b) : i <= 1 + n + l => b[i] = c[i]
  BY <1>3
<1>5. PICK k \in Nat : k = Len(b)
  OBVIOUS
<1> DEFINE v == SubSeq(b, 2, Len(b))
<1>6. CASE k < 2
  <2>1. mqtt_frame(b) = NoFrame("more")
    BY <1>5, <1>6 DEF mqtt_frame
  <2>2. k < 1 + n + l
    BY <1>6
  <2>3. QED BY <2>1, <2>2, <1>3, <1>5
<1>7. CASE k >= 2
  <2>1. v \in Seq(Nat) /\ Len(v) = k - 1 /\ \A i \in 1 .. k - 1 : v[i] = b[1 + i]
    <3>1. 2 \in 1 .. Len(b) + 1 /\ Len(b) \in 2 - 1 .. Len(b)
      BY <1>5, <1>7
    <3>2. /\ v \in Seq(Nat) /\ Len(v) = IF 2 <= Len(b) THEN Len(b) - 2 + 1 ELSE 0
          /\ \A i \in 1 .. Len(b) - 2 + 1 : v[i] = b[2 + i - 1]
      BY <3>1, SubSeqProperties
    <3>3. Len(b) - 2 + 1 = k - 1 /\ 2 <= Len(b)
      BY <1>5, <1>7
    <3>4. \A i \in 1 .. k - 1 : 2 + i - 1 = 1 + i
      OBVIOUS
    <3>5. QED BY <3>2, <3>3, <3>4
  <2>2. \A d \in 1 .. n : d <= k - 1 => v[d] = mqtt_varint_encode(l)[d]
    <3> TAKE d \in 1 .. n
    <3> HAVE d <= k - 1
    <3>1. d \in 1 .. k - 1 /\ 1 + d \in 1 .. Len(b) /\ 1 + d <= 1 + n + l
      BY <1>5
    <3>2. v[d] = b[1 + d] /\ b[1 + d] = c[1 + d]
      BY <3>1, <2>1, <1>4
    <3>3. QED BY <3>2, <1>3
  <2>3. CASE k - 1 < n
    <3>1. Len(v) < Digits(l) /\ \A d \in 1 .. Len(v) : v[d] = mqtt_varint_encode(l)[d]
      <4> HIDE DEF v
      <4>1. Len(v) = k - 1 /\ k - 1 < Digits(l)
        BY <2>1, <2>3, <1>2
      <4>2. \A d \in 1 .. k - 1 : d \in 1 .. n /\ d <= k - 1
        BY <2>3
      <4>3. QED BY <4>1, <4>2, <2>2
    <3>2. mqtt_varint_decode(v) = [used |-> 0, v |-> 0]
      <4> HIDE DEF v
      <4> QED BY <3>1, <2>1, <1>1, DecodeShort
    <3>3. mqtt_frame(b) = NoFrame("more")
      BY <3>2 DEF mqtt_frame
    <3>4. k < 1 + n + l
      BY <2>3
    <3>5. QED BY <3>3, <3>4, <1>3, <1>5
  <2>4. CASE k - 1 >= n
    <3>1. Digits(l) <= Len(v) /\ \A d \in 1 .. Digits(l) : v[d] = mqtt_varint_encode(l)[d]
      BY <2>1, <2>2, <2>4, <1>2
    <3>2. mqtt_varint_decode(v) = [used |-> n, v |-> l]
      <4>1. mqtt_varint_decode(v) = [used |-> Digits(l), v |-> l]
        <5> HIDE DEF v
        <5> QED BY <3>1, <2>1, <1>1, DecodeWhole
      <4>2. QED BY <4>1, <1>2
    <3>3. n # 0 /\ n # Malformed /\ ~(Len(b) < 2)
      BY <1>2, <1>5, <1>7, FramesAssumption DEF Malformed
    <3>4. mqtt_frame(b) = IF Len(b) < 1 + n + l THEN NoFrame("more")
                          ELSE [kind |-> "packet", type |-> b[1], body |-> SubSeq(b, 2 + n, 1 + n + l), total |-> 1 + n + l]
      <4> DEFINE x == mqtt_varint_decode(v)
      <4>1. x.used = n /\ x.v = l
        BY <3>2
      <4>2. mqtt_frame(b) = IF Len(b) < 2 \/ x.used = 0 THEN NoFrame("more")
                            ELSE IF x.used = Malformed THEN NoFrame("malformed")
                            ELSE IF Len(b) < 1 + x.used + x.v THEN NoFrame("more")
                            ELSE [kind |-> "packet", type |-> b[1], body |-> SubSeq(b, 2 + x.used, 1 + x.used + x.v), total |-> 1 + x.used + x.v]
        BY DEF mqtt_frame
      <4> HIDE DEF x
      <4>3. QED BY <4>1, <4>2, <3>3
    <3>5. CASE k < 1 + n + l
      BY <3>4, <3>5, <1>3, <1>5
    <3>6. CASE k >= 1 + n + l
      <4>1. b[1] = type
        <5>1. 1 \in 1 .. Len(b) /\ 1 <= 1 + n + l
          BY <1>5, <1>7
        <5>2. QED BY <5>1, <1>3, <1>4
      <4>2. SubSeq(b, 2 + n, 1 + n + l) = body
        <5>1. 2 + n \in 1 .. Len(b) + 1 /\ 1 + n + l \in (2 + n) - 1 .. Len(b)
          BY <3>6, <1>5
        <5> DEFINE s == SubSeq(b, 2 + n, 1 + n + l)
        <5>2. PICK x \in Nat, y \in Nat : x = 2 + n /\ y = 1 + n + l
          OBVIOUS
        <5>3. x \in 1 .. Len(b) + 1 /\ y \in x - 1 .. Len(b) /\ s = SubSeq(b, x, y)
          BY <5>1, <5>2
        <5> HIDE DEF s
        <5>4. s \in Seq(Nat) /\ Len(s) = l /\ \A i \in 1 .. l : s[i] = b[(2 + n) + i - 1]
          <6>1. /\ SubSeq(b, x, y) \in Seq(Nat) /\ Len(SubSeq(b, x, y)) = IF x <= y THEN y - x + 1 ELSE 0
                /\ \A i \in 1 .. y - x + 1 : SubSeq(b, x, y)[i] = b[x + i - 1]
            <7>1. x \in Int /\ y \in Int /\ \A i \in x .. y : b[i] \in Nat
              <8>1. \A i \in x .. y : i \in 1 .. Len(b)
                BY <5>2, <5>3
              <8>2. QED BY <8>1
            <7>2. QED BY <7>1, SubSeqProperties
          <6>2. y - x + 1 = l /\ (~(x <= y) => l = 0)
            BY <5>2
          <6>3. QED BY <6>1, <6>2, <5>2, <5>3
        <5>5. \A i \in 1 .. l : s[i] = body[i]
          <6> TAKE i \in 1 .. l
          <6>1. (2 + n) + i - 1 = 1 + n + i /\ 1 + n + i \in 1 .. Len(b) /\ 1 + n + i <= 1 + n + l
            BY <3>6, <1>5
          <6>2. s[i] = b[1 + n + i]
            BY <6>1, <5>4
          <6>3. b[1 + n + i] = c[1 + n + i] /\ c[1 + n + i] = body[i]
            BY <6>1, <1>3, <1>4
          <6>4. QED BY <6>2, <6>3
        <5>6. body \in Seq(Nat)
          BY DEF Bodies
        <5>7. s = body
          BY <5>4, <5>5, <5>6, <1>1, SeqEqual
        <5>8. QED BY <5>7 DEF s
      <4>3. QED BY <4>1, <4>2, <3>4, <3>6, <1>3, <1>5 DEF Packet
    <3>7. QED BY <3>5, <3>6, <1>5
  <2>5. QED BY <2>3, <2>4, <1>2, <1>5
<1>8. QED BY <1>6, <1>7, <1>5

\* A part of a length with a digit too many is malformed, or not yet readable.
LEMMA FramesBad ==
    ASSUME NEW b \in Seq(Nat), \A i \in 1 .. Len(b) : b[i] >= Base
    PROVE  mqtt_frame(b).kind \in {"more", "malformed"}
<1> DEFINE v == SubSeq(b, 2, Len(b))
<1>1. CASE Len(b) < 2
  BY <1>1 DEF mqtt_frame, NoFrame
<1>2. CASE Len(b) >= 2
  <2>1. PICK k \in Nat : k = Len(b) /\ k >= 2
    BY <1>2
  <2>2. v \in Seq(Nat) /\ Len(v) = k - 1 /\ \A i \in 1 .. k - 1 : v[i] = b[1 + i]
    <3>1. 2 \in 1 .. Len(b) + 1 /\ Len(b) \in 2 - 1 .. Len(b)
      BY <2>1
    <3>2. /\ v \in Seq(Nat) /\ Len(v) = IF 2 <= Len(b) THEN Len(b) - 2 + 1 ELSE 0
          /\ \A i \in 1 .. Len(b) - 2 + 1 : v[i] = b[2 + i - 1]
      BY <3>1, SubSeqProperties
    <3>3. Len(b) - 2 + 1 = k - 1 /\ 2 <= Len(b)
      BY <2>1
    <3>4. \A i \in 1 .. k - 1 : 2 + i - 1 = 1 + i
      OBVIOUS
    <3>5. QED BY <3>2, <3>3, <3>4
  <2>3. \A d \in 1 .. MaxDigits : d <= Len(v) => v[d] >= Base
    <3> TAKE d \in 1 .. MaxDigits
    <3> HAVE d <= Len(v)
    <3>1. d \in 1 .. k - 1 /\ 1 + d \in 1 .. Len(b)
      BY <2>1, <2>2, FramesAssumption
    <3>2. QED BY <3>1, <2>2
  <2>4. mqtt_varint_decode(v) = [used |-> IF Len(v) < MaxDigits THEN 0 ELSE Malformed, v |-> 0]
    <3> HIDE DEF v
    <3> QED BY <2>2, <2>3, DecodeNone
  <2>5. mqtt_varint_decode(v).used \in {0, Malformed}
    BY <2>4
  <2>6. QED BY <2>5 DEF mqtt_frame, NoFrame
<1>3. QED BY <1>1, <1>2

-----------------------------------------------------------------------------
(* The stream *)

Joined(s, t) == s \o t

LEMMA Cancel ==
    ASSUME NEW s \in Seq(Nat), NEW x \in Seq(Nat), NEW y \in Seq(Nat), Joined(s, x) = Joined(s, y)
    PROVE  x = y
<1>1. SubSeq(s \o x, Len(s) + 1, Len(s \o x)) = x
  BY ConcatCut
<1>2. SubSeq(s \o y, Len(s) + 1, Len(s \o y)) = y
  BY ConcatCut
<1>3. QED BY <1>1, <1>2, Zenon DEF Joined

Parts(bodies) == [p \in DOMAIN bodies |-> mqtt_build(p, bodies[p])]

LEMMA PartsAreBytes ==
    ASSUME NEW bodies \in Seq(Bodies)
    PROVE  /\ Parts(bodies) \in Seq(Seq(Nat)) /\ Len(Parts(bodies)) = Len(bodies)
           /\ Bytes(bodies) = FlattenSeq(Parts(bodies)) /\ Bytes(bodies) \in Seq(Nat)
<1>1. PICK k \in Nat : k = Len(bodies) /\ DOMAIN bodies = 1 .. k
  OBVIOUS
<1>2. \A p \in 1 .. k : mqtt_build(p, bodies[p]) \in Seq(Nat)
  <2> TAKE p \in 1 .. k
  <2>1. bodies[p] \in Bodies /\ p \in Nat
    BY <1>1
  <2>2. QED BY <2>1, BuildIs
<1>3. Parts(bodies) \in [1 .. k -> Seq(Nat)]
  BY <1>1, <1>2 DEF Parts
<1>4. Parts(bodies) \in Seq(Seq(Nat)) /\ Len(Parts(bodies)) = k
  BY <1>3
<1>5. Bytes(bodies) = FlattenSeq(Parts(bodies))
  BY DEF Bytes, Parts
<1>6. QED BY <1>1, <1>4, <1>5, FlattenType

\* The first g of the bodies.
LEMMA FirstOf ==
    ASSUME NEW S, NEW s \in Seq(S), NEW g \in 0 .. Len(s)
    PROVE  /\ SubSeq(s, 1, g) \in Seq(S) /\ Len(SubSeq(s, 1, g)) = g /\ DOMAIN SubSeq(s, 1, g) = 1 .. g
           /\ \A i \in 1 .. g : SubSeq(s, 1, g)[i] = s[i]
<1>1. g \in Int /\ 1 \in Int /\ \A i \in 1 .. g : s[i] \in S
  OBVIOUS
<1>2. /\ SubSeq(s, 1, g) \in Seq(S) /\ Len(SubSeq(s, 1, g)) = IF 1 <= g THEN g - 1 + 1 ELSE 0
      /\ \A i \in 1 .. g - 1 + 1 : SubSeq(s, 1, g)[i] = s[1 + i - 1]
  BY <1>1, SubSeqProperties
<1>3. g - 1 + 1 = g /\ (~(1 <= g) => g = 0) /\ \A i \in 1 .. g : 1 + i - 1 = i
  OBVIOUS
<1>4. Len(SubSeq(s, 1, g)) = g
  BY <1>2, <1>3
<1>5. QED BY <1>2, <1>3, <1>4

LEMMA PartsOfFirst ==
    ASSUME NEW bodies \in Seq(Bodies), NEW g \in 0 .. Len(bodies)
    PROVE  Parts(SubSeq(bodies, 1, g)) = SubSeq(Parts(bodies), 1, g)
<1>1. /\ SubSeq(bodies, 1, g) \in Seq(Bodies) /\ DOMAIN SubSeq(bodies, 1, g) = 1 .. g
      /\ \A i \in 1 .. g : SubSeq(bodies, 1, g)[i] = bodies[i]
  BY FirstOf
<1>2. Parts(bodies) \in Seq(Seq(Nat)) /\ Len(Parts(bodies)) = Len(bodies)
  BY PartsAreBytes
<1>3. /\ SubSeq(Parts(bodies), 1, g) \in Seq(Seq(Nat)) /\ Len(SubSeq(Parts(bodies), 1, g)) = g
      /\ \A i \in 1 .. g : SubSeq(Parts(bodies), 1, g)[i] = Parts(bodies)[i]
  <2>1. g \in 0 .. Len(Parts(bodies))
    BY <1>2
  <2>2. QED BY <2>1, <1>2, FirstOf
<1>4. Parts(SubSeq(bodies, 1, g)) \in Seq(Seq(Nat)) /\ Len(Parts(SubSeq(bodies, 1, g))) = Len(SubSeq(bodies, 1, g))
  BY <1>1, PartsAreBytes
<1>5. Len(SubSeq(bodies, 1, g)) = g
  BY FirstOf
<1>6. ASSUME NEW i \in 1 .. g
      PROVE  Parts(SubSeq(bodies, 1, g))[i] = SubSeq(Parts(bodies), 1, g)[i]
  <2>1. i \in DOMAIN bodies
    OBVIOUS
  <2>2. Parts(bodies)[i] = mqtt_build(i, bodies[i])
    BY <2>1 DEF Parts
  <2>3. Parts(SubSeq(bodies, 1, g))[i] = mqtt_build(i, SubSeq(bodies, 1, g)[i])
    BY <1>1 DEF Parts
  <2>4. QED BY <2>2, <2>3, <1>1, <1>3
<1>7. QED BY <1>3, <1>4, <1>5, <1>6, SeqEqual

LEMMA BytesSplit ==
    ASSUME NEW bodies \in Seq(Bodies), NEW g \in 0 .. Len(bodies)
    PROVE  \E t \in Seq(Nat) : Bytes(bodies) = Joined(Bytes(SubSeq(bodies, 1, g)), t)
<1> DEFINE P == Parts(bodies)
           A == SubSeq(P, 1, g)
           B == SubSeq(P, g + 1, Len(P))
<1>1. P \in Seq(Seq(Nat)) /\ Len(P) = Len(bodies) /\ Bytes(bodies) = FlattenSeq(P)
  BY PartsAreBytes
<1>2. A \in Seq(Seq(Nat)) /\ B \in Seq(Seq(Nat)) /\ A \o B = P
  <2> HIDE DEF P
  <2>1. g \in 0 .. Len(P)
    BY <1>1
  <2>2. QED BY <1>1, <2>1, CutAt
<1>3. SubSeq(bodies, 1, g) \in Seq(Bodies)
  BY FirstOf
<1>4. Bytes(SubSeq(bodies, 1, g)) = FlattenSeq(A)
  BY <1>3, PartsAreBytes, PartsOfFirst
<1> HIDE DEF P, A, B
<1>5. FlattenSeq(A \o B) = FlattenSeq(A) \o FlattenSeq(B) /\ FlattenSeq(B) \in Seq(Nat)
  BY <1>2, FlattenConcat, FlattenType
<1>6. Bytes(bodies) = Joined(Bytes(SubSeq(bodies, 1, g)), FlattenSeq(B))
  BY <1>1, <1>2, <1>4, <1>5, Zenon DEF Joined
<1>7. QED BY <1>5, <1>6

LEMMA BytesGrow ==
    ASSUME NEW bodies \in Seq(Bodies), NEW g \in 0 .. Len(bodies) - 1
    PROVE  Bytes(SubSeq(bodies, 1, g + 1)) = Joined(Bytes(SubSeq(bodies, 1, g)), mqtt_build(g + 1, bodies[g + 1]))
<1> DEFINE A == SubSeq(bodies, 1, g)
           B == SubSeq(bodies, 1, g + 1)
           x == mqtt_build(g + 1, bodies[g + 1])
<1>1. g \in 0 .. Len(bodies) /\ g + 1 \in 0 .. Len(bodies) /\ g + 1 \in DOMAIN bodies /\ g \in Nat
  OBVIOUS
<1>2. A \in Seq(Bodies) /\ Len(A) = g /\ DOMAIN A = 1 .. g /\ \A i \in 1 .. g : A[i] = bodies[i]
  BY <1>1, FirstOf
<1>3. B \in Seq(Bodies) /\ Len(B) = g + 1 /\ DOMAIN B = 1 .. g + 1 /\ \A i \in 1 .. g + 1 : B[i] = bodies[i]
  BY <1>1, FirstOf
<1>4. bodies[g + 1] \in Bodies /\ g + 1 \in Nat
  BY <1>1
<1>5. x \in Seq(Nat)
  BY <1>4, BuildIs
<1> HIDE DEF A, B
<1>6. /\ Parts(A) \in Seq(Seq(Nat)) /\ Len(Parts(A)) = g /\ Bytes(A) = FlattenSeq(Parts(A))
      /\ Parts(B) \in Seq(Seq(Nat)) /\ Len(Parts(B)) = g + 1 /\ Bytes(B) = FlattenSeq(Parts(B))
  BY <1>2, <1>3, PartsAreBytes
<1>7. Parts(B) = Append(Parts(A), x)
  <2>1. \A i \in 1 .. g : Parts(A)[i] = mqtt_build(i, bodies[i])
    BY <1>2 DEF Parts
  <2>2. \A i \in 1 .. g + 1 : Parts(B)[i] = mqtt_build(i, bodies[i])
    BY <1>3 DEF Parts
  <2> HIDE DEF x
  <2>3. /\ Append(Parts(A), x) \in Seq(Seq(Nat)) /\ Len(Append(Parts(A), x)) = g + 1
        /\ Append(Parts(A), x)[g + 1] = x /\ \A i \in 1 .. g : Append(Parts(A), x)[i] = Parts(A)[i]
    BY <1>1, <1>5, <1>6, AppendProperties
  <2>4. ASSUME NEW i \in 1 .. g + 1
        PROVE  Parts(B)[i] = Append(Parts(A), x)[i]
    <3>1. CASE i = g + 1
      <4>1. Parts(B)[g + 1] = x
        <5>1. g + 1 \in 1 .. g + 1
          BY <1>1
        <5>2. QED BY <5>1, <2>2 DEF x
      <4>2. QED BY <4>1, <3>1, <2>3
    <3>2. CASE i # g + 1
      <4>1. i \in 1 .. g
        BY <3>2, <1>1
      <4>2. QED BY <4>1, <2>1, <2>2, <2>3
    <3>3. QED BY <3>1, <3>2
  <2>5. QED BY <2>3, <2>4, <1>6, SeqEqual
<1>8. FlattenSeq(Append(Parts(A), x)) = FlattenSeq(Parts(A)) \o x
  <2> HIDE DEF x
  <2> QED BY <1>5, <1>6, FlattenAppend
<1>9. Bytes(B) = Joined(Bytes(A), x)
  BY <1>6, <1>7, <1>8, Zenon DEF Joined
<1>10. QED BY <1>9 DEF A, B

\* The packets of the first bodies.
LEMMA PacketsGrow ==
    ASSUME NEW bodies \in Seq(Bodies), NEW g \in 0 .. Len(bodies) - 1
    PROVE  Packets(SubSeq(bodies, 1, g + 1)) = Append(Packets(SubSeq(bodies, 1, g)), <<g + 1, bodies[g + 1]>>)
<1> DEFINE A == SubSeq(bodies, 1, g)
           B == SubSeq(bodies, 1, g + 1)
           x == <<g + 1, bodies[g + 1]>>
           T == Nat \X Bodies
<1>1. g \in 0 .. Len(bodies) /\ g + 1 \in 0 .. Len(bodies) /\ g \in Nat /\ g + 1 \in 1 .. g + 1
  OBVIOUS
<1>2. /\ DOMAIN A = 1 .. g /\ \A i \in 1 .. g : A[i] = bodies[i]
      /\ DOMAIN B = 1 .. g + 1 /\ \A i \in 1 .. g + 1 : B[i] = bodies[i]
  BY <1>1, FirstOf
<1>3. \A i \in 1 .. g + 1 : <<i, bodies[i]>> \in T /\ (i \in 1 .. g \/ i = g + 1)
  BY <1>1
<1> HIDE DEF A, B, T
<1>4. Packets(A) = [i \in 1 .. g |-> <<i, bodies[i]>>]
  BY <1>2 DEF Packets
<1>5. Packets(B) = [i \in 1 .. g + 1 |-> <<i, bodies[i]>>]
  BY <1>2 DEF Packets
<1>6. Packets(A) \in Seq(T) /\ Len(Packets(A)) = g /\ Packets(B) \in Seq(T) /\ Len(Packets(B)) = g + 1
  <2>1. Packets(A) \in [1 .. g -> T] /\ Packets(B) \in [1 .. g + 1 -> T]
    BY <1>1, <1>3, <1>4, <1>5
  <2>2. QED BY <2>1, <1>1
<1>7. x \in T
  BY <1>1, <1>3
<1>8. Packets(B)[g + 1] = x /\ \A i \in 1 .. g : Packets(B)[i] = Packets(A)[i]
  BY <1>1, <1>4, <1>5
<1> HIDE DEF x
<1>9. /\ Append(Packets(A), x) \in Seq(T) /\ Len(Append(Packets(A), x)) = g + 1
      /\ Append(Packets(A), x)[g + 1] = x /\ \A i \in 1 .. g : Append(Packets(A), x)[i] = Packets(A)[i]
  BY <1>1, <1>6, <1>7, AppendProperties
<1>10. \A i \in 1 .. g + 1 : Packets(B)[i] = Append(Packets(A), x)[i]
  BY <1>3, <1>8, <1>9
<1>11. Packets(B) = Append(Packets(A), x)
  BY <1>6, <1>9, <1>10, SeqEqual
<1>12. QED BY <1>11 DEF A, B, x

LEMMA PacketsOfFirst ==
    ASSUME NEW bodies \in Seq(Bodies), NEW g \in 0 .. Len(bodies)
    PROVE  /\ Packets(bodies) \in Seq(Nat \X Bodies) /\ Len(Packets(bodies)) = Len(bodies)
           /\ Packets(SubSeq(bodies, 1, g)) = SubSeq(Packets(bodies), 1, g)
           /\ Len(Packets(SubSeq(bodies, 1, g))) = g
<1> DEFINE T == Nat \X Bodies
           A == SubSeq(bodies, 1, g)
<1>1. PICK k \in Nat : k = Len(bodies) /\ DOMAIN bodies = 1 .. k /\ \A i \in 1 .. k : <<i, bodies[i]>> \in T
  OBVIOUS
<1>2. g \in 0 .. k /\ DOMAIN A = 1 .. g /\ \A i \in 1 .. g : A[i] = bodies[i]
  BY <1>1, FirstOf
<1> HIDE DEF T, A
<1>3. Packets(bodies) = [i \in 1 .. k |-> <<i, bodies[i]>>] /\ Packets(A) = [i \in 1 .. g |-> <<i, bodies[i]>>]
  BY <1>1, <1>2 DEF Packets
<1>4. g \in Nat /\ \A i \in 1 .. g : i \in 1 .. k
  BY <1>2
<1>5. Packets(bodies) \in [1 .. k -> T] /\ Packets(A) \in [1 .. g -> T]
  BY <1>1, <1>3, <1>4
<1>6. Packets(bodies) \in Seq(T) /\ Len(Packets(bodies)) = k /\ Packets(A) \in Seq(T) /\ Len(Packets(A)) = g
  BY <1>4, <1>5
<1>7. /\ SubSeq(Packets(bodies), 1, g) \in Seq(T) /\ Len(SubSeq(Packets(bodies), 1, g)) = g
      /\ \A i \in 1 .. g : SubSeq(Packets(bodies), 1, g)[i] = Packets(bodies)[i]
  <2>1. g \in 0 .. Len(Packets(bodies))
    BY <1>2, <1>6
  <2>2. QED BY <2>1, <1>6, FirstOf
<1>8. \A i \in 1 .. g : Packets(A)[i] = SubSeq(Packets(bodies), 1, g)[i]
  BY <1>3, <1>4, <1>7
<1>9. Packets(A) = SubSeq(Packets(bodies), 1, g)
  BY <1>6, <1>7, <1>8, SeqEqual
<1>10. QED BY <1>1, <1>6, <1>9 DEF A, T

-----------------------------------------------------------------------------
(* read_client *)

\* The bytes of the packets handed over, what is buffered and what is on the
\* way are what the peer writes.
NothingLost(r, w) == Joined(Joined(Bytes(SubSeq(sent, 1, Len(handled))), r), w) = StreamSent

\* Besides: the buffer has room whenever poll() is next, and a closed client
\* was closed at what follows the packets handed over.
FramesInd ==
    /\ sent \in Seq(Bodies) /\ bad \in BOOLEAN
    /\ wire \in Seq(Nat) /\ in \in Seq(Nat) /\ off \in 0 .. Len(in) /\ Len(in) <= MaxPacket
    /\ reader \in {"poll", "parse", "closed", "gone"}
    /\ Len(handled) \in 0 .. Len(sent) /\ handled = Packets(SubSeq(sent, 1, Len(handled)))
    /\ reader = "poll" => off = 0 /\ Len(in) < MaxPacket
    /\ reader # "closed" => NothingLost(Rest, wire)
    /\ reader = "closed" => IF Len(handled) = Len(sent) THEN bad ELSE TooLarge(Len(handled) + 1)

BadPart == IF bad THEN TooManyDigits ELSE << >>

LEMMA BadPartIs ==
    /\ BadPart \in Seq(Nat) /\ \A i \in 1 .. Len(BadPart) : BadPart[i] >= Base
    /\ ~bad => BadPart = << >>
<1>1. PICK k \in Nat, b \in Nat : k = MaxDigits + 1 /\ b = Base /\ 2 * b - 1 \in Nat /\ 2 * b - 1 >= b
  BY FramesAssumption
<1>2. TooManyDigits = [m \in 1 .. k |-> 2 * b - 1]
  BY <1>1 DEF TooManyDigits
<1>3. TooManyDigits \in Seq(Nat) /\ Len(TooManyDigits) = k
  BY <1>1, <1>2
<1>4. \A i \in 1 .. k : TooManyDigits[i] >= b
  BY <1>1, <1>2
<1>5. CASE bad
  BY <1>1, <1>3, <1>4, <1>5 DEF BadPart
<1>6. CASE ~bad
  BY <1>6 DEF BadPart
<1>7. QED BY <1>5, <1>6

LEMMA StreamIs ==
    ASSUME sent \in Seq(Bodies)
    PROVE  StreamSent = Joined(Bytes(sent), BadPart) /\ StreamSent \in Seq(Nat)
<1>1. Bytes(sent) \in Seq(Nat)
  BY PartsAreBytes
<1>2. StreamSent = Joined(Bytes(sent), BadPart)
  BY DEF StreamSent, BadPart, Joined
<1>3. Bytes(sent) \o BadPart \in Seq(Nat)
  BY <1>1, BadPartIs
<1>4. QED BY <1>2, <1>3 DEF Joined

LEMMA RestIs ==
    ASSUME in \in Seq(Nat), off \in 0 .. Len(in)
    PROVE  /\ Rest \in Seq(Nat) /\ Len(Rest) = Len(in) - off
           /\ \A i \in 1 .. Len(in) - off : Rest[i] = in[off + i]
           /\ off = 0 => Rest = in
<1>1. PICK k \in Nat, o \in Nat : k = Len(in) /\ o = off /\ o <= k
  OBVIOUS
<1>2. o + 1 \in Int /\ k \in Int /\ \A i \in o + 1 .. k : in[i] \in Nat
  BY <1>1
<1>3. /\ SubSeq(in, o + 1, k) \in Seq(Nat) /\ Len(SubSeq(in, o + 1, k)) = IF o + 1 <= k THEN k - (o + 1) + 1 ELSE 0
      /\ \A i \in 1 .. k - (o + 1) + 1 : SubSeq(in, o + 1, k)[i] = in[(o + 1) + i - 1]
  BY <1>2, SubSeqProperties
<1>4. k - (o + 1) + 1 = k - o /\ (~(o + 1 <= k) => k - o = 0) /\ \A i \in 1 .. k - o : (o + 1) + i - 1 = o + i
  BY <1>1
<1>5. Rest = SubSeq(in, o + 1, k)
  BY <1>1 DEF Rest
<1>6. Rest \in Seq(Nat) /\ Len(Rest) = k - o /\ \A i \in 1 .. k - o : Rest[i] = in[o + i]
  BY <1>3, <1>4, <1>5
<1>7. ASSUME o = 0
      PROVE  Rest = in
  <2>1. k - o = k /\ \A i \in 1 .. k : o + i = i
    BY <1>7
  <2>2. Len(Rest) = k /\ \A i \in 1 .. k : Rest[i] = in[i]
    BY <2>1, <1>6
  <2>3. QED BY <2>2, <1>1, <1>6, SeqEqual
<1>8. QED BY <1>1, <1>6, <1>7

LEMMA FramesStart == FramesInit => FramesInd
<1> SUFFICES ASSUME FramesInit
             PROVE  FramesInd
  OBVIOUS
<1>1. \A b \in UNION {[1 .. l -> BodyBytes] : l \in 0 .. MaxBody} : b \in Bodies
  <2>1. ASSUME NEW l \in 0 .. MaxBody, NEW b \in [1 .. l -> BodyBytes]
        PROVE  b \in Bodies
    <3>1. l \in Nat /\ BodyBytes \subseteq Nat
      BY FramesAssumption
    <3>2. b \in [1 .. l -> Nat]
      BY <3>1
    <3>3. b \in Seq(Nat) /\ Len(b) = l
      BY <3>1, <3>2
    <3>4. QED BY <3>3 DEF Bodies, Lengths
  <2>2. QED BY <2>1
<1>2. sent \in Seq(Bodies)
  <2>1. PICK n \in 1 .. MaxPackets : sent \in [1 .. n -> UNION {[1 .. l -> BodyBytes] : l \in 0 .. MaxBody}]
    BY DEF FramesInit
  <2>2. n \in Nat /\ sent \in [1 .. n -> Bodies]
    BY <2>1, <1>1, FramesAssumption
  <2>3. QED BY <2>2
<1>3. /\ bad \in BOOLEAN /\ wire = StreamSent /\ in = << >> /\ off = 0 /\ handled = << >> /\ reader = "poll"
  BY DEF FramesInit
<1>4. StreamSent \in Seq(Nat)
  BY <1>2, StreamIs
<1>5. in \in Seq(Nat) /\ Len(in) = 0 /\ off \in 0 .. Len(in)
  BY <1>3
<1>6. Rest = << >>
  BY <1>3, <1>5, RestIs
<1>7. SubSeq(sent, 1, 0) = << >> /\ Len(handled) = 0
  BY <1>2, <1>3
<1>8. Bytes(<< >>) = << >> /\ Packets(<< >>) = << >>
  <2>1. [p \in DOMAIN << >> |-> mqtt_build(p, << >>[p])] = << >> /\ [p \in DOMAIN << >> |-> <<p, << >>[p]>>] = << >>
    OBVIOUS
  <2>2. QED BY <2>1, FlattenEmpty DEF Bytes, Packets
<1>9. NothingLost(Rest, wire)
  <2>1. Joined(Joined(Bytes(SubSeq(sent, 1, Len(handled))), Rest), wire) = Joined(Joined(<< >>, << >>), StreamSent)
    BY <1>3, <1>6, <1>7, <1>8
  <2>2. << >> \o << >> = << >> /\ << >> \o StreamSent = StreamSent
    BY <1>4
  <2>3. Joined(Joined(<< >>, << >>), StreamSent) = StreamSent
    BY <2>2, Zenon DEF Joined
  <2>4. QED BY <2>1, <2>3 DEF NothingLost
<1>10. MaxPacket \in Nat \ {0}
  BY FramesAssumption
<1>11. Len(handled) \in 0 .. Len(sent) /\ handled = Packets(SubSeq(sent, 1, Len(handled)))
  <2>1. 0 \in 0 .. Len(sent)
    BY <1>2
  <2>2. Packets(SubSeq(sent, 1, Len(handled))) = << >>
    BY <1>7, <1>8
  <2>3. QED BY <2>1, <2>2, <1>3, <1>7
<1>12. QED BY <1>2, <1>3, <1>4, <1>5, <1>9, <1>10, <1>11 DEF FramesInd

LEMMA RecvStep == FramesInd /\ Recv => FramesInd'
<1> SUFFICES ASSUME FramesInd, Recv
             PROVE  FramesInd'
  OBVIOUS
<1>1. /\ reader = "poll" /\ off' = 0 /\ UNCHANGED <<bad, sent, handled>>
      /\ sent \in Seq(Bodies) /\ bad \in BOOLEAN
      /\ wire \in Seq(Nat) /\ in \in Seq(Nat) /\ off = 0 /\ Len(in) < MaxPacket
      /\ Len(handled) \in 0 .. Len(sent) /\ handled = Packets(SubSeq(sent, 1, Len(handled)))
      /\ NothingLost(Rest, wire)
  BY DEF FramesInd, Recv
<1>2. MaxPacket \in Nat /\ Len(in) \in Nat
  BY <1>1, FramesAssumption
<1>3. PICK n \in 1 .. Len(wire) : /\ n <= MaxPacket - Len(in)
                                 /\ in' = in \o SubSeq(wire, 1, n)
                                 /\ wire' = SubSeq(wire, n + 1, Len(wire))
                                 /\ reader' = "parse"
  <2>1. Len(in) # MaxPacket
    BY <1>1, <1>2
  <2>2. QED BY <2>1, Zenon DEF Recv
<1> DEFINE x == SubSeq(wire, 1, n)
           y == SubSeq(wire, n + 1, Len(wire))
           h == Bytes(SubSeq(sent, 1, Len(handled)))
<1>4. x \in Seq(Nat) /\ y \in Seq(Nat) /\ x \o y = wire /\ Len(x) = n
  <2>1. n \in 0 .. Len(wire)
    BY <1>1
  <2>2. QED BY <2>1, <1>1, CutAt
<1>5. Rest = in
  BY <1>1, <1>2, RestIs
<1>6. h \in Seq(Nat)
  <2>1. SubSeq(sent, 1, Len(handled)) \in Seq(Bodies)
    BY <1>1, FirstOf
  <2>2. QED BY <2>1, PartsAreBytes
<1>7. in' = Joined(in, x) /\ wire' = y
  BY <1>3 DEF Joined
<1>8. (h \o in) \o wire = StreamSent
  BY <1>1, <1>5 DEF NothingLost, Joined
<1>9. h' = h
  BY <1>1
<1> HIDE DEF x, y, h
<1>10. in \o x \in Seq(Nat) /\ Len(in \o x) = Len(in) + n
  BY <1>1, <1>4, ConcatProperties
<1>11. in' \in Seq(Nat) /\ Len(in') <= MaxPacket /\ Len(in') \in Nat
  <2>1. in' = in \o x
    BY <1>7 DEF Joined
  <2>2. Len(in') = Len(in) + n /\ in' \in Seq(Nat)
    BY <2>1, <1>10
  <2>3. n \in Nat /\ Len(in) + n <= MaxPacket
    BY <1>1, <1>2, <1>3
  <2>4. QED BY <2>2, <2>3, <1>2
<1>12. Rest' = in'
  <2>1. off' \in 0 .. Len(in') /\ off' = 0
    BY <1>1, <1>11
  <2>2. SubSeq(in', 1, Len(in')) = in'
    BY <1>11, SubSeqFull
  <2>3. Rest' = SubSeq(in', off' + 1, Len(in'))
    BY DEF Rest
  <2>4. QED BY <2>1, <2>2, <2>3
<1>13. Assoc(h, in, x) /\ Assoc(h \o in, x, y)
  <2>1. h \o in \in Seq(Nat)
    BY <1>1, <1>6
  <2>2. QED BY <2>1, <1>1, <1>4, <1>6, AssocHolds
<1>14. Joined(Joined(h, in'), wire') = StreamSent
  <2>1. Joined(Joined(h, in'), wire') = (h \o (in \o x)) \o y
    BY <1>7, Zenon DEF Joined
  <2>2. h \o (in \o x) = (h \o in) \o x
    BY <1>13, Zenon DEF Assoc
  <2>3. ((h \o in) \o x) \o y = (h \o in) \o (x \o y)
    BY <1>13, Zenon DEF Assoc
  <2>4. QED BY <2>1, <2>2, <2>3, <1>4, <1>8, Zenon
<1>15. StreamSent' = StreamSent
  BY <1>1 DEF StreamSent
<1>16. NothingLost(Rest, wire)'
  <2>1. NothingLost(Rest, wire)' <=> Joined(Joined(h', Rest'), wire') = StreamSent'
    BY DEF NothingLost, h
  <2>2. QED BY <2>1, <1>9, <1>12, <1>14, <1>15
<1>17. /\ sent' \in Seq(Bodies) /\ bad' \in BOOLEAN /\ wire' \in Seq(Nat) /\ off' \in 0 .. Len(in')
       /\ Len(handled') \in 0 .. Len(sent') /\ handled' = Packets(SubSeq(sent', 1, Len(handled')))
  BY <1>1, <1>4, <1>7, <1>11
<1>18. QED BY <1>3, <1>11, <1>16, <1>17 DEF FramesInd

\* What the buffer starts with: the next packet, or the bytes behind the last.
LEMMA NextPacket ==
    ASSUME FramesInd, reader = "parse", Len(handled) # Len(sent)
    PROVE  \E t \in Seq(Nat) : Agrees(Rest, wire, mqtt_build(Len(handled) + 1, sent[Len(handled) + 1]), t)
<1>1. /\ sent \in Seq(Bodies) /\ wire \in Seq(Nat) /\ Len(handled) \in 0 .. Len(sent) /\ NothingLost(Rest, wire)
      /\ Rest \in Seq(Nat)
  BY RestIs DEF FramesInd
<1>2. PICK g \in Nat : g = Len(handled) /\ g \in 0 .. Len(sent) - 1 /\ g + 1 \in 0 .. Len(sent) /\ g + 1 \in 1 .. Len(sent)
  BY <1>1
<1> DEFINE h == Bytes(SubSeq(sent, 1, g))
           c == mqtt_build(g + 1, sent[g + 1])
<1>3. h \in Seq(Nat) /\ c \in Seq(Nat)
  <2>1. SubSeq(sent, 1, g) \in Seq(Bodies)
    BY <1>1, <1>2, FirstOf
  <2>2. g + 1 \in Nat /\ sent[g + 1] \in Bodies
    BY <1>1, <1>2
  <2>3. QED BY <2>1, <2>2, PartsAreBytes, BuildIs
<1>4. PICK t \in Seq(Nat) : Bytes(sent) = Joined(Bytes(SubSeq(sent, 1, g + 1)), t)
  BY <1>1, <1>2, BytesSplit
<1>5. Bytes(SubSeq(sent, 1, g + 1)) = Joined(h, c)
  BY <1>1, <1>2, BytesGrow
<1>6. StreamSent = Joined(Bytes(sent), BadPart) /\ BadPart \in Seq(Nat)
  BY <1>1, StreamIs, BadPartIs
<1>7. Joined(Joined(h, Rest), wire) = StreamSent
  BY <1>1, <1>2 DEF NothingLost
<1> HIDE DEF h, c
<1>8. Assoc(h, Rest, wire) /\ Assoc(h, c, t) /\ Assoc(h, c \o t, BadPart) /\ Assoc(c, t, BadPart) /\ t \o BadPart \in Seq(Nat)
  <2>1. c \o t \in Seq(Nat) /\ t \o BadPart \in Seq(Nat)
    BY <1>3, <1>4, <1>6
  <2>2. QED BY <2>1, <1>1, <1>3, <1>4, <1>6, AssocHolds
<1> DEFINE r == Rest \o wire
           u == c \o (t \o BadPart)
<1>9. h \o r = StreamSent
  BY <1>7, <1>8, Zenon DEF Joined, Assoc
<1>10. h \o u = StreamSent
  <2>1. StreamSent = ((h \o c) \o t) \o BadPart
    BY <1>4, <1>5, <1>6, Zenon DEF Joined
  <2>2. (h \o c) \o t = h \o (c \o t)
    BY <1>8, Zenon DEF Assoc
  <2>3. (h \o (c \o t)) \o BadPart = h \o ((c \o t) \o BadPart)
    BY <1>8, Zenon DEF Assoc
  <2>4. (c \o t) \o BadPart = u
    BY <1>8, Zenon DEF Assoc
  <2>5. QED BY <2>1, <2>2, <2>3, <2>4, Zenon
<1>11. r \in Seq(Nat) /\ u \in Seq(Nat)
  BY <1>1, <1>3, <1>8
<1>12. r = u
  <2> HIDE DEF r, u
  <2>1. Joined(h, r) = Joined(h, u)
    BY <1>9, <1>10, Zenon DEF Joined
  <2>2. QED BY <2>1, <1>3, <1>11, Cancel
<1>13. Agrees(Rest, wire, c, t \o BadPart)
  BY <1>12, Zenon DEF Agrees
<1>14. QED BY <1>2, <1>8, <1>13 DEF c

LEMMA BehindLast ==
    ASSUME FramesInd, reader = "parse", Len(handled) = Len(sent)
    PROVE  /\ \A i \in 1 .. Len(Rest) : Rest[i] >= Base
           /\ ~bad => off = Len(in)
<1>1. /\ sent \in Seq(Bodies) /\ wire \in Seq(Nat) /\ NothingLost(Rest, wire)
      /\ in \in Seq(Nat) /\ off \in 0 .. Len(in)
  BY DEF FramesInd
<1>2. Rest \in Seq(Nat) /\ Len(Rest) = Len(in) - off
  BY <1>1, RestIs
<1>3. SubSeq(sent, 1, Len(handled)) = sent
  BY <1>1, SubSeqFull
<1> DEFINE h == Bytes(sent)
           r == Rest \o wire
<1>4. h \in Seq(Nat) /\ BadPart \in Seq(Nat) /\ StreamSent = Joined(h, BadPart)
  BY <1>1, PartsAreBytes, BadPartIs, StreamIs
<1>5. Joined(Joined(h, Rest), wire) = StreamSent
  BY <1>1, <1>3 DEF NothingLost
<1> HIDE DEF h
<1>6. Assoc(h, Rest, wire)
  BY <1>1, <1>2, <1>4, AssocHolds
<1>7. Joined(h, r) = Joined(h, BadPart)
  BY <1>4, <1>5, <1>6, Zenon DEF Joined, Assoc
<1>8. r \in Seq(Nat)
  BY <1>1, <1>2
<1>9. r = BadPart
  <2> HIDE DEF r
  <2> QED BY <1>4, <1>7, <1>8, Cancel
<1>10. Len(r) = Len(Rest) + Len(wire) /\ \A i \in 1 .. Len(Rest) : r[i] = Rest[i]
  <2>1. PICK p \in Seq(Nat), q \in Seq(Nat) : p = Rest /\ q = wire
    BY <1>1, <1>2
  <2>2. /\ Len(p \o q) = Len(p) + Len(q)
        /\ \A i \in 1 .. Len(p) + Len(q) : (p \o q)[i] = IF i <= Len(p) THEN p[i] ELSE q[i - Len(p)]
    BY ConcatProperties
  <2>3. \A i \in 1 .. Len(p) : i \in 1 .. Len(p) + Len(q) /\ i <= Len(p)
    OBVIOUS
  <2>4. r = p \o q
    BY <2>1
  <2> HIDE DEF r
  <2>5. Len(r) = Len(p) + Len(q) /\ \A i \in 1 .. Len(p) : r[i] = p[i]
    BY <2>2, <2>3, <2>4
  <2>6. QED BY <2>1, <2>5
<1> HIDE DEF r
<1>11. Len(Rest) \in Nat /\ Len(wire) \in Nat
  BY <1>1, <1>2
<1>12. \A i \in 1 .. Len(Rest) : Rest[i] >= Base
  <2> TAKE i \in 1 .. Len(Rest)
  <2>1. i \in 1 .. Len(BadPart) /\ BadPart[i] = Rest[i]
    BY <1>9, <1>10, <1>11
  <2>2. QED BY <2>1, BadPartIs
<1>13. ASSUME ~bad
       PROVE  off = Len(in)
  <2>1. Len(BadPart) = 0
    BY <1>13, BadPartIs
  <2>2. Len(Rest) = 0
    <3>1. PICK k \in Nat, l \in Nat : k = Len(Rest) /\ l = Len(wire)
      BY <1>11
    <3>2. k + l = 0
      BY <3>1, <2>1, <1>9, <1>10
    <3>3. k = 0
      BY <3>2
    <3>4. QED BY <3>1, <3>3
  <2>3. QED BY <2>2, <1>1, <1>2
<1>14. QED BY <1>12, <1>13

\* What mqtt_frame says of the buffer.
LEMMA FrameIs ==
    ASSUME FramesInd, reader = "parse"
    PROVE  IF Len(handled) = Len(sent) THEN mqtt_frame(Rest).kind \in {"more", "malformed"} /\ (~bad => off = Len(in))
           ELSE mqtt_frame(Rest) =
                  IF Len(Rest) < Len(mqtt_build(Len(handled) + 1, sent[Len(handled) + 1])) THEN NoFrame("more")
                  ELSE Packet(Len(handled) + 1, sent[Len(handled) + 1])
<1>1. Rest \in Seq(Nat)
  BY RestIs DEF FramesInd
<1>2. CASE Len(handled) = Len(sent)
  <2>1. \A i \in 1 .. Len(Rest) : Rest[i] >= Base
    BY <1>2, BehindLast
  <2>2. PICK r \in Seq(Nat) : r = Rest
    BY <1>1
  <2>3. mqtt_frame(r).kind \in {"more", "malformed"}
    BY <2>1, <2>2, FramesBad
  <2>4. QED BY <2>2, <2>3, <1>2, BehindLast
<1>3. CASE Len(handled) # Len(sent)
  <2>1. PICK g \in Nat : g = Len(handled) + 1 /\ sent[g] \in Bodies
    BY <1>3 DEF FramesInd
  <2>2. PICK b \in Bodies : b = sent[g]
    BY <2>1
  <2>3. PICK t \in Seq(Nat) : Agrees(Rest, wire, mqtt_build(g, b), t)
    BY <1>3, <2>1, <2>2, NextPacket
  <2>4. mqtt_build(g, b) \in Seq(Nat) /\ wire \in Seq(Nat)
    BY BuildIs DEF FramesInd
  <2>5. PICK r \in Seq(Nat), c \in Seq(Nat) : r = Rest /\ c = mqtt_build(g, b)
    BY <1>1, <2>4
  <2>6. \A i \in 1 .. Len(r) : i <= Len(c) => r[i] = c[i]
    BY <2>3, <2>4, <2>5, SamePrefix
  <2>7. mqtt_frame(r) = IF Len(r) < Len(mqtt_build(g, b)) THEN NoFrame("more") ELSE Packet(g, b)
    BY <2>5, <2>6, FramesPacket
  <2>8. QED BY <1>3, <2>1, <2>2, <2>5, <2>7
<1>4. QED BY <1>2, <1>3

LEMMA CloseStep ==
    ASSUME FramesInd, reader = "parse", off < Len(in),
           mqtt_frame(Rest).kind = "malformed" \/ (mqtt_frame(Rest).kind = "more" /\ Len(Rest) = MaxPacket),
           reader' = "closed", UNCHANGED <<bad, sent, wire, in, off, handled>>
    PROVE  FramesInd'
<1>1. IF Len(handled) = Len(sent) THEN bad ELSE TooLarge(Len(handled) + 1)
  <2>1. CASE Len(handled) = Len(sent)
    <3>1. ~bad => off = Len(in)
      BY <2>1, FrameIs
    <3>2. off \in Nat /\ Len(in) \in Nat
      BY DEF FramesInd
    <3>3. QED BY <3>1, <3>2, <2>1
  <2>2. CASE Len(handled) # Len(sent)
    <3> DEFINE c == mqtt_build(Len(handled) + 1, sent[Len(handled) + 1])
    <3>1. mqtt_frame(Rest) = IF Len(Rest) < Len(c) THEN NoFrame("more") ELSE Packet(Len(handled) + 1, sent[Len(handled) + 1])
      BY <2>2, FrameIs
    <3>2. NoFrame("more").kind = "more" /\ Packet(Len(handled) + 1, sent[Len(handled) + 1]).kind = "packet"
      BY DEF NoFrame, Packet
    <3> HIDE DEF c
    <3>3. Len(Rest) < Len(c) /\ Len(Rest) = MaxPacket
      BY <3>1, <3>2
    <3>4. MaxPacket < Len(c)
      BY <3>3
    <3>5. Len(c) \in Nat /\ MaxPacket \in Nat
      <4>1. Len(handled) + 1 \in Nat /\ sent[Len(handled) + 1] \in Bodies
        BY <2>2 DEF FramesInd
      <4>2. c \in Seq(Nat)
        BY <4>1, BuildIs DEF c
      <4>3. QED BY <4>2, FramesAssumption
    <3>6. TooLarge(Len(handled) + 1)
      <4>1. Len(c) > MaxPacket
        BY <3>4, <3>5
      <4>2. QED BY <4>1 DEF TooLarge, c
    <3>7. QED BY <2>2, <3>6
  <2>3. QED BY <2>1, <2>2
<1>2. (IF Len(handled) = Len(sent) THEN bad ELSE TooLarge(Len(handled) + 1))'
  BY <1>1 DEF TooLarge
<1>3. QED BY <1>2 DEF FramesInd

LEMMA KeepStep ==
    ASSUME FramesInd, reader = "parse",
           off = Len(in) \/ (mqtt_frame(Rest).kind = "more" /\ Len(Rest) # MaxPacket),
           in' = Rest, off' = 0, reader' = "poll", UNCHANGED <<bad, sent, wire, handled>>
    PROVE  FramesInd'
<1>1. /\ in \in Seq(Nat) /\ off \in 0 .. Len(in) /\ Len(in) <= MaxPacket /\ NothingLost(Rest, wire)
      /\ MaxPacket \in Nat \ {0} /\ Len(in) \in Nat
  BY FramesAssumption DEF FramesInd
<1>2. Rest \in Seq(Nat) /\ Len(Rest) = Len(in) - off
  BY <1>1, RestIs
<1>3. Len(Rest) < MaxPacket
  BY <1>1, <1>2
<1>4. in' \in Seq(Nat) /\ Len(in') < MaxPacket /\ Len(in') <= MaxPacket /\ off' \in 0 .. Len(in')
  BY <1>1, <1>2, <1>3
<1>5. Rest' = Rest
  <2>1. Rest' = SubSeq(in', off' + 1, Len(in'))
    BY DEF Rest
  <2>2. SubSeq(Rest, 1, Len(Rest)) = Rest
    BY <1>2, SubSeqFull
  <2>3. SubSeq(in', off' + 1, Len(in')) = SubSeq(Rest, 1, Len(Rest))
    OBVIOUS
  <2>4. QED BY <2>1, <2>2, <2>3
<1>6. StreamSent' = StreamSent
  BY DEF StreamSent
<1>7. NothingLost(Rest, wire)'
  BY <1>1, <1>5, <1>6 DEF NothingLost
<1>8. QED BY <1>4, <1>7 DEF FramesInd

LEMMA HandStep ==
    ASSUME FramesInd, reader = "parse", mqtt_frame(Rest).kind = "packet",
           handled' = Append(handled, <<mqtt_frame(Rest).type, mqtt_frame(Rest).body>>),
           off' = off + mqtt_frame(Rest).total, UNCHANGED <<bad, sent, wire, in, reader>>
    PROVE  FramesInd'
<1>1. /\ sent \in Seq(Bodies) /\ wire \in Seq(Nat)
      /\ in \in Seq(Nat) /\ off \in 0 .. Len(in) /\ NothingLost(Rest, wire)
      /\ Len(handled) \in 0 .. Len(sent) /\ handled = Packets(SubSeq(sent, 1, Len(handled)))
  BY DEF FramesInd
<1>2. Rest \in Seq(Nat) /\ Len(Rest) = Len(in) - off /\ \A i \in 1 .. Len(in) - off : Rest[i] = in[off + i]
  BY <1>1, RestIs
<1>3. Len(handled) # Len(sent)
  BY FrameIs
<1>4. PICK g \in Nat : /\ g = Len(handled) /\ g \in 0 .. Len(sent) - 1 /\ g + 1 \in Nat /\ g + 1 \in 0 .. Len(sent)
                       /\ sent[g + 1] \in Bodies
  <2>1. PICK g \in Nat, l \in Nat : g = Len(handled) /\ l = Len(sent) /\ g <= l /\ g # l
    BY <1>1, <1>3
  <2>2. g \in 0 .. l - 1 /\ g + 1 \in Nat /\ g + 1 \in 0 .. l /\ g + 1 \in 1 .. l
    BY <2>1
  <2>3. sent[g + 1] \in Bodies
    BY <2>1, <2>2, <1>1
  <2>4. QED BY <2>1, <2>2, <2>3
<1>5. PICK b \in Bodies : b = sent[g + 1]
  BY <1>4
<1>6. PICK c \in Seq(Nat) : c = mqtt_build(g + 1, b)
  BY <1>4, BuildIs
<1>7. mqtt_frame(Rest) = Packet(g + 1, b) /\ Len(c) <= Len(Rest)
  <2>1. mqtt_frame(Rest) = IF Len(Rest) < Len(c) THEN NoFrame("more") ELSE Packet(g + 1, b)
    BY <1>3, <1>4, <1>5, <1>6, FrameIs
  <2>2. NoFrame("more").kind # "packet"
    BY DEF NoFrame
  <2>3. ~(Len(Rest) < Len(c)) /\ Len(Rest) \in Nat /\ Len(c) \in Nat
    BY <2>1, <2>2, <1>2, <1>6
  <2>4. QED BY <2>1, <2>3
<1>8. handled' = Append(handled, <<g + 1, b>>) /\ off' = off + Len(c)
  BY <1>6, <1>7 DEF Packet
<1>9. handled' = Packets(SubSeq(sent, 1, g + 1)) /\ Len(handled') = g + 1
  <2>1. Packets(SubSeq(sent, 1, g + 1)) = Append(Packets(SubSeq(sent, 1, g)), <<g + 1, sent[g + 1]>>)
    BY <1>1, <1>4, PacketsGrow
  <2>2. handled' = Packets(SubSeq(sent, 1, g + 1))
    BY <2>1, <1>1, <1>4, <1>5, <1>8
  <2>3. Len(Packets(SubSeq(sent, 1, g + 1))) = g + 1
    BY <1>1, <1>4, PacketsOfFirst
  <2>4. QED BY <2>2, <2>3
<1>10. PICK o \in Nat, k \in Nat, m \in Nat : o = off /\ k = Len(in) /\ m = Len(c) /\ o + m <= k /\ o <= k /\ Len(Rest) = k - o
  <2>1. PICK o \in Nat, k \in Nat, m \in Nat : o = off /\ k = Len(in) /\ m = Len(c) /\ o <= k
    <3>1. off \in Nat /\ Len(in) \in Nat /\ off <= Len(in)
      BY <1>1
    <3>2. Len(c) \in Nat
      BY <1>6
    <3>3. QED BY <3>1, <3>2
  <2>2. m <= k - o
    BY <2>1, <1>2, <1>7
  <2>3. o + m <= k
    BY <2>2
  <2>4. QED BY <2>1, <2>3, <1>2
<1>11. off' = o + m /\ in' = in /\ off' \in 0 .. Len(in')
  BY <1>8, <1>10
<1> DEFINE x == SubSeq(Rest, 1, m)
           y == SubSeq(Rest, m + 1, Len(Rest))
           h == Bytes(SubSeq(sent, 1, g))
<1>12. x \in Seq(Nat) /\ y \in Seq(Nat) /\ Len(x) = m /\ Len(y) = (k - o) - m /\ x \o y = Rest
  <2>1. m \in 0 .. Len(Rest)
    BY <1>10
  <2>2. /\ x \in Seq(Nat) /\ y \in Seq(Nat) /\ Len(x) = m /\ Len(y) = Len(Rest) - m
        /\ x \o y = Rest
    BY <2>1, <1>2, CutAt
  <2> HIDE DEF x, y
  <2>3. QED BY <2>2, <1>10
<1>13. x = c
  <2>1. PICK t \in Seq(Nat) : Agrees(Rest, wire, c, t)
    BY <1>3, <1>4, <1>5, <1>6, NextPacket
  <2>2. \A i \in 1 .. Len(Rest) : i <= Len(c) => Rest[i] = c[i]
    BY <2>1, <1>1, <1>2, SamePrefix
  <2>3. \A i \in 1 .. m : x[i] = Rest[i]
    <3>1. m \in 0 .. Len(Rest)
      BY <1>10
    <3>2. QED BY <3>1, <1>2, FirstOf
  <2>4. \A i \in 1 .. m : i \in 1 .. Len(Rest) /\ i <= Len(c)
    BY <1>10
  <2> HIDE DEF x
  <2>5. \A i \in 1 .. m : x[i] = c[i]
    BY <2>2, <2>3, <2>4
  <2>6. QED BY <2>5, <1>6, <1>10, <1>12, SeqEqual
<1>14. Rest' = y
  <2>1. Rest' = SubSeq(in, (o + m) + 1, k)
    BY <1>10, <1>11 DEF Rest
  <2>2. /\ SubSeq(in, (o + m) + 1, k) \in Seq(Nat) /\ Len(SubSeq(in, (o + m) + 1, k)) = k - (o + m)
        /\ \A i \in 1 .. k - (o + m) : SubSeq(in, (o + m) + 1, k)[i] = in[(o + m) + i]
    <3>1. PICK a \in Nat : a = (o + m) + 1 /\ a \in Int /\ k \in Int /\ \A i \in a .. k : in[i] \in Nat
      <4>1. PICK a \in Nat : a = (o + m) + 1
        OBVIOUS
      <4>2. \A i \in a .. k : i \in 1 .. Len(in)
        BY <4>1, <1>10
      <4>3. \A i \in a .. k : in[i] \in Nat
        BY <4>2, <1>1
      <4>4. QED BY <4>1, <4>3
    <3>2. /\ SubSeq(in, a, k) \in Seq(Nat) /\ Len(SubSeq(in, a, k)) = IF a <= k THEN k - a + 1 ELSE 0
          /\ \A i \in 1 .. k - a + 1 : SubSeq(in, a, k)[i] = in[a + i - 1]
      BY <3>1, SubSeqProperties
    <3>3. k - a + 1 = k - (o + m) /\ (~(a <= k) => k - (o + m) = 0) /\ \A i \in 1 .. k - (o + m) : a + i - 1 = (o + m) + i
      BY <3>1, <1>10
    <3>4. QED BY <3>1, <3>2, <3>3
  <2>3. \A i \in 1 .. (k - o) - m : y[i] = in[(o + m) + i]
    <3>1. PICK a \in Nat, e \in Nat : a = m + 1 /\ e = k - o /\ e = Len(Rest) /\ \A i \in a .. e : Rest[i] \in Nat
      <4>1. PICK a \in Nat, e \in Nat : a = m + 1 /\ e = k - o /\ e = Len(Rest)
        <5>1. k - o \in Nat /\ m + 1 \in Nat
          BY <1>10
        <5>2. QED BY <5>1, <1>10
      <4>2. \A i \in a .. e : i \in 1 .. Len(Rest)
        BY <4>1
      <4>3. \A i \in a .. e : Rest[i] \in Nat
        BY <4>2, <1>2
      <4>4. QED BY <4>1, <4>3
    <3>2. \A i \in 1 .. e - a + 1 : SubSeq(Rest, a, e)[i] = Rest[a + i - 1]
      BY <3>1, SubSeqProperties
    <3>3. y = SubSeq(Rest, a, e)
      BY <3>1
    <3> HIDE DEF y
    <3> TAKE i \in 1 .. (k - o) - m
    <3>4. i \in 1 .. e - a + 1 /\ a + i - 1 = m + i /\ m + i \in 1 .. Len(in) - off /\ off + (m + i) = (o + m) + i
      BY <3>1, <1>10
    <3>5. y[i] = Rest[m + i]
      BY <3>2, <3>3, <3>4
    <3>6. Rest[m + i] = in[off + (m + i)]
      BY <3>4, <1>2
    <3>7. QED BY <3>4, <3>5, <3>6
  <2>4. (k - o) - m = k - (o + m)
    OBVIOUS
  <2> DEFINE z == SubSeq(in, (o + m) + 1, k)
  <2>5. z \in Seq(Nat) /\ Len(z) = k - (o + m) /\ \A i \in 1 .. k - (o + m) : z[i] = in[(o + m) + i]
    BY <2>2
  <2> HIDE DEF y, z
  <2>6. Len(y) = Len(z) /\ \A i \in 1 .. Len(z) : z[i] = y[i]
    BY <2>3, <2>4, <2>5, <1>12
  <2>7. z = y
    BY <2>5, <2>6, <1>12, SeqEqual
  <2>8. QED BY <2>1, <2>7 DEF z
<1>15. Bytes(SubSeq(sent, 1, g + 1)) = Joined(h, c)
  BY <1>1, <1>4, <1>5, <1>6, BytesGrow
<1>16. h \in Seq(Nat)
  <2>1. SubSeq(sent, 1, g) \in Seq(Bodies)
    BY <1>1, <1>4, FirstOf
  <2>2. QED BY <2>1, PartsAreBytes
<1>17. Joined(Joined(h, Rest), wire) = StreamSent
  BY <1>1, <1>4 DEF NothingLost
<1> HIDE DEF x, y, h
<1>18. Assoc(h, c, y)
  BY <1>6, <1>12, <1>16, AssocHolds
<1>19. Joined(Joined(Joined(h, c), y), wire) = StreamSent
  <2>1. (h \o c) \o y = h \o (c \o y)
    BY <1>18, Zenon DEF Assoc
  <2>2. c \o y = Rest
    BY <1>12, <1>13, Zenon
  <2>3. QED BY <2>1, <2>2, <1>17, Zenon DEF Joined
<1>20. StreamSent' = StreamSent
  BY DEF StreamSent
<1>21. NothingLost(Rest, wire)'
  <2>1. NothingLost(Rest, wire)' <=> Joined(Joined(Bytes(SubSeq(sent', 1, Len(handled'))), Rest'), wire') = StreamSent'
    BY DEF NothingLost
  <2>2. Bytes(SubSeq(sent', 1, Len(handled'))) = Joined(h, c)
    BY <1>9, <1>15
  <2>3. QED BY <2>1, <2>2, <1>14, <1>19, <1>20
<1>22. Len(handled') \in 0 .. Len(sent') /\ handled' = Packets(SubSeq(sent', 1, Len(handled')))
  BY <1>4, <1>9
<1>23. QED BY <1>11, <1>21, <1>22 DEF FramesInd

LEMMA ParseStep == FramesInd /\ Parse => FramesInd'
<1> SUFFICES ASSUME FramesInd, Parse
             PROVE  FramesInd'
  OBVIOUS
<1> DEFINE fr == mqtt_frame(Rest)
           full == fr.kind = "more" /\ Len(Rest) = MaxPacket
<1>1. reader = "parse" /\ UNCHANGED <<bad, sent, wire>>
  BY DEF Parse
<1>2. CASE /\ off < Len(in) /\ (fr.kind = "malformed" \/ full)
           /\ reader' = "closed" /\ UNCHANGED <<in, off, handled>>
  BY <1>1, <1>2, CloseStep
<1>3. CASE /\ off = Len(in) \/ (fr.kind = "more" /\ ~full)
           /\ in' = Rest /\ off' = 0 /\ reader' = "poll" /\ UNCHANGED handled
  BY <1>1, <1>3, KeepStep
<1>4. CASE /\ off < Len(in) /\ fr.kind = "packet"
           /\ handled' = Append(handled, <<fr.type, fr.body>>) /\ off' = off + fr.total /\ UNCHANGED <<in, reader>>
  BY <1>1, <1>4, HandStep
<1>5. QED BY <1>2, <1>3, <1>4, Zenon DEF Parse

\* The invariant of read_client's loop, for packets of any bytes cut anywhere:
\* what was handed over, what is buffered and what is on the way is what the
\* peer writes, the buffer has room whenever poll() is next, and a closed
\* client was closed for what follows the packets handed over.
THEOREM FramesInvariant == FramesSpec => []FramesInd
<1>1. FramesInd /\ [FramesNext]_framing => FramesInd'
  <2> SUFFICES ASSUME FramesInd, [FramesNext]_framing
               PROVE  FramesInd'
    OBVIOUS
  <2>1. CASE UNCHANGED framing
    <3>1. UNCHANGED <<bad, sent, wire, in, off, handled, reader>>
      BY <2>1 DEF framing
    <3>2. Rest' = Rest /\ StreamSent' = StreamSent
      BY <3>1 DEF Rest, StreamSent
    <3>3. TooLarge(Len(handled) + 1)' <=> TooLarge(Len(handled) + 1)
      BY <3>1 DEF TooLarge
    <3>4. NothingLost(Rest, wire)' <=> NothingLost(Rest, wire)
      BY <3>1, <3>2 DEF NothingLost
    <3>5. QED BY <3>1, <3>3, <3>4 DEF FramesInd
  <2>2. CASE ConnEnds
    <3>1. UNCHANGED <<bad, sent, wire, in, off, handled>> /\ reader # "closed" /\ reader' = "gone"
      BY <2>2 DEF ConnEnds
    <3>2. Rest' = Rest /\ StreamSent' = StreamSent
      BY <3>1 DEF Rest, StreamSent
    <3>3. NothingLost(Rest, wire)' <=> NothingLost(Rest, wire)
      BY <3>1, <3>2 DEF NothingLost
    <3>4. QED BY <3>1, <3>3 DEF FramesInd
  <2>3. CASE FramesNext
    BY <2>1, <2>2, <2>3, RecvStep, ParseStep DEF FramesNext, AllRead
  <2>4. QED BY <2>1, <2>3
<1>2. QED BY <1>1, FramesStart, PTL DEF FramesSpec

\* read_client hands over the packets sent, in order, however recv() cuts the
\* stream, loses no byte, and closes only for a packet it cannot read or hold.
THEOREM FramesSurvive == FramesSpec => []FramesArePackets
<1>1. FramesInd => FramesArePackets
  <2> SUFFICES ASSUME FramesInd
               PROVE  FramesArePackets
    OBVIOUS
  <2>1. sent \in Seq(Bodies) /\ Len(handled) \in 0 .. Len(sent) /\ handled = Packets(SubSeq(sent, 1, Len(handled)))
    BY DEF FramesInd
  <2>2. PICK g \in Nat : g = Len(handled) /\ g \in 0 .. Len(sent)
    BY <2>1
  <2>3. /\ Packets(sent) \in Seq(Nat \X Bodies) /\ Len(Packets(sent)) = Len(sent)
        /\ handled = SubSeq(Packets(sent), 1, g)
    BY <2>1, <2>2, PacketsOfFirst
  <2>4. IsPrefix(handled, Packets(sent))
    <3>1. handled \in Seq(Nat \X Bodies)
      <4>1. g \in 0 .. Len(Packets(sent))
        BY <2>2, <2>3
      <4>2. QED BY <4>1, <2>3, FirstOf
    <3>2. SubSeq(handled, 1, Len(handled)) = handled
      BY <3>1, SubSeqFull
    <3>3. Len(handled) <= Len(Packets(sent))
      BY <2>1, <2>3
    <3>4. QED BY <3>2, <3>3, <2>2, <2>3 DEF IsPrefix
  <2>5. reader # "closed" => (Bytes(SubSeq(sent, 1, Len(handled))) \o Rest) \o wire = StreamSent
    BY DEF FramesInd, NothingLost, Joined
  <2>6. handled = Packets(sent) <=> Len(handled) = Len(sent)
    <3>1. ASSUME Len(handled) = Len(sent)
          PROVE  handled = Packets(sent)
      <4>1. SubSeq(Packets(sent), 1, Len(Packets(sent))) = Packets(sent)
        BY <2>3, SubSeqFull
      <4>2. QED BY <4>1, <3>1, <2>2, <2>3
    <3>2. QED BY <3>1, <2>3
  <2>7. reader = "closed" => IF handled = Packets(sent) THEN bad ELSE TooLarge(Len(handled) + 1)
    BY <2>6 DEF FramesInd
  <2>8. QED BY <2>4, <2>5, <2>7 DEF FramesArePackets
<1>2. QED BY <1>1, FramesInvariant, PTL
=============================================================================

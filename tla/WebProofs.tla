------------------------------ MODULE WebProofs ------------------------------
(***************************************************************************)
(* The web programs, without bounds: the ids of the item service for any    *)
(* number of connections and bodies, any ids that clients ask for and any   *)
(* width of the counter; the notes board for any users, texts and limit;    *)
(* the WebSocket chat for any clients, payload lengths and write calls;     *)
(* the todo page for any tabs, texts and number of todos.                   *)
(***************************************************************************)
EXTENDS ItemStore, NotesBoard, WsChat, TodoApp, BoundedInduction, FiniteSetTheorems, SequenceTheorems, TLAPS

-----------------------------------------------------------------------------
(* The item service *)

\* A thread works on an id only once it has a request, and keeps both.
Underway ==
    \A c \in Conns :
      /\ phase[c] \in {"new", "parse", "route"} => id[c] = Nothing
      /\ phase[c] \in {"route", "insert"} => req[c] # Nothing
      /\ phase[c] = "insert" => id[c] # Nothing
      /\ id[c] # Nothing => req[c] # Nothing

\* Until the counter wraps it is above every id drawn or put, save the largest,
\* whose id + 1 wraps.
Above == NoWrap => \A c \in Conns : id[c] \notin {Nothing, LastId} => id[c] < next_id

IndInv == ItemsTypeOK /\ Underway /\ Above

-----------------------------------------------------------------------------
LEMMA RequestParts ==
    ASSUME NEW r \in Requests
    PROVE  /\ r.method \in {"GET", "POST", "PUT", "DELETE"} /\ r.body \in Values
           /\ r.target \in Items => r.target[2] \in PutIds /\ r.target[2] \in ItemIds
BY IdsAssumption DEF Requests, Items

LEMMA InitHolds == ItemsInit => IndInv
BY IdsAssumption DEF ItemsInit, IndInv, ItemsTypeOK, Underway, Above, ItemIds

\* A step of a thread that takes no id leaves the claims as they are.
LEMMA NoClaim ==
    ASSUME IndInv, NEW c \in Conns, UNCHANGED <<next_id, req, id>>,
           NEW s \in {Nothing, 200, 201, 204, 400, 404}, Answer(c, s),
           items' \in [ItemIds -> Values \cup {Nothing}]
    PROVE  IndInv'
<1>1. ItemsTypeOK'
  BY DEF IndInv, ItemsTypeOK, Answer
<1>2. Underway'
  BY DEF IndInv, ItemsTypeOK, Underway, Answer
<1>3. Above'
  BY DEF IndInv, Above, NoWrap
<1>4. QED BY <1>1, <1>2, <1>3 DEF IndInv

LEMMA ReadSteps ==
    ASSUME IndInv, NEW c \in Conns,
           NoRequest(c) \/ list_items(c) \/ Unroutable(c) \/ get_item(c) \/ PutPanics(c)
    PROVE  IndInv'
<1>1. UNCHANGED <<items, next_id, req, id>>
  BY DEF NoRequest, list_items, Unroutable, get_item, PutPanics
<1>2. \E s \in {Nothing, 200, 201, 204, 400, 404} : Answer(c, s)
  BY DEF NoRequest, list_items, Unroutable, get_item, PutPanics
<1>3. items' \in [ItemIds -> Values \cup {Nothing}]
  BY <1>1 DEF IndInv, ItemsTypeOK
<1>4. QED BY <1>1, <1>2, <1>3, NoClaim

LEMMA WriteSteps ==
    ASSUME IndInv, NEW c \in Conns, delete_item(c) \/ Insert(c)
    PROVE  IndInv'
<1>1. UNCHANGED <<next_id, req, id>>
  BY DEF delete_item, Insert
<1>2. \E s \in {Nothing, 200, 201, 204, 400, 404} : Answer(c, s)
  BY DEF delete_item, Insert
<1>3. items' \in [ItemIds -> Values \cup {Nothing}]
  <2>1. CASE delete_item(c)
    BY <2>1 DEF delete_item, IndInv, ItemsTypeOK
  <2>2. CASE Insert(c)
    <3>1. req[c] \in Requests
      BY <2>2 DEF Insert, IndInv, ItemsTypeOK, Underway
    <3>2. req[c].body \in Values
      BY <3>1, RequestParts
    <3>3. QED BY <2>2, <3>2 DEF Insert, IndInv, ItemsTypeOK
  <2>3. QED BY <2>1, <2>2
<1>4. QED BY <1>1, <1>2, <1>3, NoClaim

LEMMA ArriveSteps ==
    ASSUME IndInv, NEW c \in Conns, serve(c) \/ parse(c)
    PROVE  IndInv'
<1>1. CASE serve(c)
  <2>1. ItemsTypeOK'
    BY <1>1 DEF serve, IndInv, ItemsTypeOK
  <2>2. Underway'
    BY <1>1 DEF serve, IndInv, ItemsTypeOK, Underway
  <2>3. Above'
    BY <1>1 DEF serve, IndInv, Above, NoWrap
  <2>4. QED BY <2>1, <2>2, <2>3 DEF IndInv
<1>2. CASE parse(c)
  <2>1. PICK r \in Requests : req' = [req EXCEPT ![c] = r]
    BY <1>2 DEF parse
  <2>2. r # Nothing
    BY <2>1, IdsAssumption
  <2>3. ItemsTypeOK'
    BY <1>2, <2>1 DEF parse, IndInv, ItemsTypeOK
  <2>4. Underway'
    BY <1>2, <2>1, <2>2 DEF parse, IndInv, ItemsTypeOK, Underway
  <2>5. Above'
    <3>1. id[c] = Nothing /\ id' = id /\ next_id' = next_id
      BY <1>2 DEF parse, IndInv, Underway
    <3>2. \A d \in Conns : d # c => req'[d] = req[d]
      BY <2>1 DEF IndInv, ItemsTypeOK
    <3>3. NoWrap' => NoWrap
      BY <3>1, <3>2, IdsAssumption DEF NoWrap, ItemIds
    <3>4. QED BY <3>1, <3>3 DEF IndInv, Above
  <2>6. QED BY <2>3, <2>4, <2>5 DEF IndInv
<1>3. QED BY <1>1, <1>2

\* The first halves of create and put: the thread takes an id.
LEMMA ReserveTypes ==
    ASSUME IndInv, NEW c \in Conns, phase[c] = "route", NEW i \in ItemIds, NEW n \in ItemIds, Reserved(c, i, n)
    PROVE  ItemsTypeOK' /\ Underway'
<1>1. ItemsTypeOK'
  BY DEF Reserved, IndInv, ItemsTypeOK
<1>2. i # Nothing
  BY IdsAssumption
<1>3. Underway'
  BY <1>2 DEF Reserved, IndInv, ItemsTypeOK, Underway
<1>4. QED BY <1>1, <1>3

LEMMA CreateStep ==
    ASSUME IndInv, NEW c \in Conns, CreateReserve(c)
    PROVE  IndInv'
<1>1. /\ phase[c] = "route" /\ req[c].method = "POST" /\ next_id \in 0 .. LastId /\ LastId \in Nat
      /\ id \in [Conns -> ItemIds \cup {Nothing}]
  BY IdsAssumption DEF CreateReserve, Routed, IndInv, ItemsTypeOK, ItemIds
<1>2. (next_id + 1) % (LastId + 1) \in 0 .. LastId
  BY <1>1
<1>3. next_id < LastId => (next_id + 1) % (LastId + 1) = next_id + 1
  BY <1>1
<1>4. ItemsTypeOK' /\ Underway'
  BY <1>1, <1>2, ReserveTypes DEF CreateReserve, ItemIds
<1>5. /\ id' = [id EXCEPT ![c] = next_id] /\ next_id' = (next_id + 1) % (LastId + 1)
      /\ req' = req
  BY DEF CreateReserve, Reserved
<1>6. Above'
  <2> SUFFICES ASSUME NoWrap'
               PROVE  \A d \in Conns : id'[d] \notin {Nothing, LastId} => id'[d] < next_id'
    BY DEF Above
  <2>1. id'[c] = next_id /\ \A d \in Conns : d # c => id'[d] = id[d]
    BY <1>1, <1>5
  <2>2. next_id # LastId
    BY <2>1, <1>1, <1>5 DEF NoWrap
  <2>3. id[c] = Nothing
    BY <1>1 DEF IndInv, Underway
  <2>4. NoWrap
    BY <2>1, <2>3, <1>5, IdsAssumption DEF NoWrap, ItemIds
  <2>5. next_id' = next_id + 1
    BY <2>2, <1>1, <1>3, <1>5
  <2>6. ASSUME NEW d \in Conns, id'[d] \notin {Nothing, LastId}
        PROVE  id'[d] < next_id'
    <3>1. CASE d = c
      BY <3>1, <2>1, <2>5, <1>1
    <3>2. CASE d # c
      <4>1. id[d] < next_id /\ id[d] \in 0 .. LastId
        BY <3>2, <2>1, <2>4, <2>6 DEF IndInv, Above, ItemsTypeOK, ItemIds
      <4>2. QED BY <4>1, <3>2, <2>1, <2>5, <1>1
    <3>3. QED BY <3>1, <3>2
  <2>7. QED BY <2>6
<1>7. QED BY <1>4, <1>6 DEF IndInv

LEMMA PutStep ==
    ASSUME IndInv, NEW c \in Conns, PutReserve(c)
    PROVE  IndInv'
<1> DEFINE i == req[c].target[2]
           bump == (i + 1) % (LastId + 1)
           n == IF bump > next_id THEN bump ELSE next_id
<1>1. /\ phase[c] = "route" /\ req[c].method = "PUT" /\ next_id \in 0 .. LastId /\ LastId \in Nat
      /\ id \in [Conns -> ItemIds \cup {Nothing}] /\ req[c] \in Requests /\ req[c].target \in Items
  BY IdsAssumption DEF PutReserve, Routed, IndInv, ItemsTypeOK, ItemIds, Underway
<1>2. i \in 0 .. LastId
  BY <1>1, RequestParts DEF ItemIds
<1> HIDE DEF i
<1>3. bump \in 0 .. LastId /\ (i # LastId => bump = i + 1)
  BY <1>1, <1>2
<1> HIDE DEF bump
<1>4. n \in 0 .. LastId /\ next_id <= n /\ (i # LastId => i < n)
  BY <1>1, <1>2, <1>3
<1>5. Reserved(c, i, n)
  BY DEF PutReserve, i, bump
<1> HIDE DEF n
<1>6. ItemsTypeOK' /\ Underway'
  BY <1>1, <1>2, <1>4, <1>5, ReserveTypes DEF ItemIds
<1>7. id' = [id EXCEPT ![c] = i] /\ next_id' = n /\ req' = req
  BY <1>5 DEF Reserved
<1>8. Above'
  <2> SUFFICES ASSUME NoWrap'
               PROVE  \A d \in Conns : id'[d] \notin {Nothing, LastId} => id'[d] < next_id'
    BY DEF Above
  <2>1. id'[c] = i /\ \A d \in Conns : d # c => id'[d] = id[d]
    BY <1>1, <1>7
  <2>2. id[c] = Nothing
    BY <1>1 DEF IndInv, Underway
  <2>3. NoWrap
    BY <2>1, <2>2, <1>7, IdsAssumption DEF NoWrap, ItemIds
  <2>4. ASSUME NEW d \in Conns, id'[d] \notin {Nothing, LastId}
        PROVE  id'[d] < next_id'
    <3>1. CASE d = c
      BY <3>1, <2>1, <2>4, <1>4, <1>7
    <3>2. CASE d # c
      <4>1. id[d] < next_id /\ id[d] \in 0 .. LastId
        BY <3>2, <2>1, <2>3, <2>4 DEF IndInv, Above, ItemsTypeOK, ItemIds
      <4>2. QED BY <4>1, <3>2, <2>1, <1>1, <1>4, <1>7
    <3>3. QED BY <3>1, <3>2
  <2>5. QED BY <2>4
<1>9. QED BY <1>6, <1>8 DEF IndInv

\* The inductive invariant: every thread's id and request fit its place, and
\* the counter is above what was drawn and put (store.rs, create and put).
THEOREM IdsInvariant == ItemsSpec => []IndInv
<1>1. IndInv /\ [ItemsNext]_itemVars => IndInv'
  <2> SUFFICES ASSUME IndInv, [ItemsNext]_itemVars
               PROVE  IndInv'
    OBVIOUS
  <2>1. ASSUME NEW c \in Conns,
               \/ serve(c) \/ NoRequest(c) \/ parse(c)
               \/ list_items(c) \/ Unroutable(c) \/ get_item(c) \/ delete_item(c)
               \/ CreateReserve(c) \/ PutReserve(c) \/ PutPanics(c) \/ Insert(c)
        PROVE  IndInv'
    BY <2>1, ArriveSteps, ReadSteps, WriteSteps, CreateStep, PutStep
  <2>2. CASE UNCHANGED itemVars
    BY <2>2 DEF itemVars, IndInv, ItemsTypeOK, Underway, Above, NoWrap
  <2>3. QED BY <2>1, <2>2 DEF ItemsNext
<1>2. QED BY <1>1, InitHolds, PTL DEF ItemsSpec

\* Store::create against Store::put: the id that a POST draws was neither drawn
\* by a POST nor claimed by a PUT before, whether its item was inserted yet, is
\* there or is deleted, until the counter reaches its largest value.
THEOREM DrawsFreshIds == ItemsSpec => FreshIds
<1>1. IndInv /\ [ItemsNext]_itemVars => [FreshId]_itemVars
  <2> SUFFICES ASSUME IndInv, NoWrap, NEW c \in Conns, CreateReserve(c), next_id < LastId
               PROVE  id'[c] \notin Claimed
    BY DEF FreshId
  <2>1. id'[c] = next_id
    BY DEF CreateReserve, Reserved, IndInv, ItemsTypeOK
  <2>2. next_id \in 0 .. LastId /\ LastId \in Nat
    BY IdsAssumption DEF IndInv, ItemsTypeOK, ItemIds
  <2>3. ASSUME NEW d \in Conns, id[d] # Nothing
        PROVE  id[d] # next_id
    <3>1. id[d] \in 0 .. LastId
      BY <2>3 DEF IndInv, ItemsTypeOK, ItemIds
    <3>2. id[d] # LastId => id[d] < next_id
      BY <2>3 DEF IndInv, Above
    <3>3. QED BY <2>2, <3>1, <3>2
  <2>4. QED BY <2>1, <2>3 DEF Claimed
<1>2. QED BY <1>1, IdsInvariant, PTL DEF ItemsSpec, FreshIds

-----------------------------------------------------------------------------
(* Notes board: what is encoded and decoded *)

\* The characters of texts and forms.
Sign == STRING \cup {Spc, "t", "byte"} \cup Encoded \cup Hex
Plain == Sign \ {Amp, Eq}

LEMMA Distinct ==
    /\ Plus # Pct /\ Plus # Amp /\ Plus # Eq /\ Pct # Amp /\ Pct # Eq /\ Amp # Eq
    /\ Spc \notin Encoded /\ "t" \notin Encoded /\ "t" # Spc
    /\ \A h \in Hex : h # Amp /\ h # Eq
BY DEF Plus, Pct, Amp, Eq, Spc, Encoded, Hex

LEMMA DigitsAre ==
    /\ Digits(Pct) = <<"2", "5">> /\ Digits(Plus) = <<"2", "B">>
    /\ Digits(Amp) = <<"2", "6">> /\ Digits(Eq) = <<"3", "D">>
BY Distinct DEF Digits

\* Two digits name the character they were made from.
LEMMA ByteIs ==
    ASSUME NEW c \in Encoded
    PROVE  \E h, l \in Hex : Digits(c) = <<h, l>> /\ Byte(h, l) = c
<1>1. PICK h \in Hex, l \in Hex : Digits(c) = <<h, l>>
  BY DigitsAre DEF Encoded, Hex
<1>2. \A e \in Encoded : Digits(e) = Digits(c) => e = c
  BY DigitsAre DEF Encoded
<1>3. Byte(h, l) = c
  <2>1. \E e \in Encoded : Digits(e) = <<h, l>>
    BY <1>1
  <2>2. \A x \in Encoded \cup {"byte"} :
          (IF \E e \in Encoded : Digits(e) = <<h, l>> THEN x \in Encoded /\ Digits(x) = <<h, l>>
           ELSE x = "byte") <=> x = c
    BY <1>1, <1>2, <2>1
  <2>3. QED BY <2>2 DEF Byte
<1>4. QED BY <1>1, <1>3

LEMMA ByteType == \A h, l : Byte(h, l) \in Encoded \cup {"byte"}
<1> SUFFICES ASSUME NEW h, NEW l PROVE Byte(h, l) \in Encoded \cup {"byte"}
  OBVIOUS
<1>1. \E x \in Encoded \cup {"byte"} :
          IF \E e \in Encoded : Digits(e) = <<h, l>> THEN x \in Encoded /\ Digits(x) = <<h, l>>
          ELSE x = "byte"
  OBVIOUS
<1>2. QED BY <1>1 DEF Byte

-----------------------------------------------------------------------------
\* What the loop makes of the byte at i, and how far it moves on.
Escape(b, i) == b[i] = Pct /\ i + 2 <= Len(b) /\ b[i + 1] \in Hex /\ b[i + 2] \in Hex
Read(b, i) == IF b[i] = Plus THEN Spc ELSE IF Escape(b, i) THEN Byte(b[i + 1], b[i + 2]) ELSE b[i]
Skip(b, i) == IF Escape(b, i) THEN 3 ELSE 1

Decoding(b, f) ==
    /\ f[Len(b) + 1] = << >>
    /\ \A i \in 1 .. Len(b) : f[i] = <<Read(b, i)>> \o f[i + Skip(b, i)]

LEMMA ReadType ==
    ASSUME NEW b \in Seq(Sign), NEW i \in 1 .. Len(b)
    PROVE  Read(b, i) \in Sign /\ i + Skip(b, i) \in (i + 1) .. (Len(b) + 1)
<1>1. Read(b, i) \in Sign
  <2>1. b[i] \in Sign /\ Spc \in Sign /\ Encoded \cup {"byte"} \subseteq Sign
    BY DEF Sign
  <2>2. QED BY <2>1, ByteType, Zenon DEF Read
<1>2. PICK L \in Nat : L = Len(b)
  OBVIOUS
<1>3. CASE Escape(b, i)
  BY <1>1, <1>2, <1>3 DEF Skip, Escape
<1>4. CASE ~Escape(b, i)
  BY <1>1, <1>2, <1>4 DEF Skip
<1>5. QED BY <1>3, <1>4

HasDecoding(b) == \E f : percent_decode(b) = f[1] /\ Decoding(b, f)

LEMMA DecodeRuns ==
    ASSUME NEW b \in Seq(Sign)
    PROVE  HasDecoding(b)
<1>1. PICK L \in Nat : L = Len(b)
  OBVIOUS
<1> DEFINE Loop(g) == [i \in 1 .. L + 1 |->
                        IF i > L THEN << >>
                        ELSE CASE b[i] = Plus -> <<Spc>> \o g[i + 1]
                               [] b[i] = Pct /\ i + 2 <= L /\ b[i + 1] \in Hex /\ b[i + 2] \in Hex ->
                                    <<Byte(b[i + 1], b[i + 2])>> \o g[i + 3]
                               [] OTHER -> <<b[i]>> \o g[i + 1]]
           f == CHOOSE g : g = Loop(g)
           Q == Seq(Sign)
           R == [0 .. L -> Q]
           rd == [i \in 1 .. L |-> Read(b, i)]
           to == [i \in 1 .. L |-> i + Skip(b, i)]
           G == [x \in (1 .. L) \X R |-> <<rd[L + 1 - x[1]]>> \o x[2][L + 1 - to[L + 1 - x[1]]]]
<1>2. percent_decode(b) = f[1]
  BY <1>1, SMT DEF percent_decode
<1>3. ASSUME NEW g, NEW i \in 1 .. L
      PROVE  Loop(g)[i] = <<Read(b, i)>> \o g[i + Skip(b, i)]
  <2>1. i \in 1 .. L + 1 /\ ~(i > L)
    OBVIOUS
  <2> DEFINE e == Loop(g)[i]
  <2>2. e = CASE b[i] = Plus -> <<Spc>> \o g[i + 1]
                               [] b[i] = Pct /\ i + 2 <= L /\ b[i + 1] \in Hex /\ b[i + 2] \in Hex ->
                                    <<Byte(b[i + 1], b[i + 2])>> \o g[i + 3]
                               [] OTHER -> <<b[i]>> \o g[i + 1]
    BY <2>1, Zenon
  <2> HIDE DEF e, Loop
  <2>3. CASE b[i] = Plus
    <3>1. ~Escape(b, i)
      BY <2>3, Distinct DEF Escape
    <3>2. Read(b, i) = Spc /\ Skip(b, i) = 1
      BY <2>3, <3>1 DEF Read, Skip
    <3>3. ~(b[i] = Pct)
      BY <2>3, Distinct
    <3>4. e = <<Spc>> \o g[i + 1]
      BY <2>2, <2>3, <3>3, Zenon
    <3>5. QED BY <3>2, <3>4, Zenon DEF e
  <2>4. CASE b[i] # Plus /\ Escape(b, i)
    <3>1. Read(b, i) = Byte(b[i + 1], b[i + 2]) /\ Skip(b, i) = 3
      BY <2>4 DEF Read, Skip
    <3>2. b[i] = Pct /\ i + 2 <= L /\ b[i + 1] \in Hex /\ b[i + 2] \in Hex
      BY <1>1, <2>4, Zenon DEF Escape
    <3>3. e = <<Byte(b[i + 1], b[i + 2])>> \o g[i + 3]
      BY <2>2, <2>4, <3>2, Zenon
    <3>4. QED BY <3>1, <3>3, Zenon DEF e
  <2>5. CASE b[i] # Plus /\ ~Escape(b, i)
    <3>1. Read(b, i) = b[i] /\ Skip(b, i) = 1
      BY <2>5 DEF Read, Skip
    <3>2. ~(b[i] = Pct /\ i + 2 <= L /\ b[i + 1] \in Hex /\ b[i + 2] \in Hex)
      BY <1>1, <2>5, Zenon DEF Escape
    <3>3. e = <<b[i]>> \o g[i + 1]
      BY <2>2, <2>5, <3>2, Zenon
    <3>4. QED BY <3>1, <3>3, Zenon DEF e
  <2>6. QED BY <2>3, <2>4, <2>5
<1>4. ASSUME NEW g
      PROVE  Loop(g)[L + 1] = << >> /\ Loop(g) = [i \in 1 .. L + 1 |-> Loop(g)[i]]
  OBVIOUS
<1>5. \A i \in 1 .. L : rd[i] = Read(b, i) /\ rd[i] \in Sign /\ to[i] = i + Skip(b, i) /\ to[i] \in i + 1 .. L + 1
  BY <1>1, ReadType
<1> HIDE DEF rd, to, Loop
<1>6. ASSUME NEW n \in 1 .. L, NEW r \in R
      PROVE  /\ G[<<n, r>>] = <<rd[L + 1 - n]>> \o r[L + 1 - to[L + 1 - n]] /\ G[<<n, r>>] \in Q
             /\ L + 1 - to[L + 1 - n] \in 0 .. n - 1
  <2>1. L + 1 - n \in 1 .. L
    OBVIOUS
  <2>2. rd[L + 1 - n] \in Sign /\ to[L + 1 - n] \in (L + 1 - n) + 1 .. L + 1
    BY <1>5, <2>1
  <2>3. L + 1 - to[L + 1 - n] \in 0 .. n - 1
    BY <2>2
  <2>4. r[L + 1 - to[L + 1 - n]] \in Q
    BY <2>3
  <2>5. <<rd[L + 1 - n]>> \in Q
    BY <2>2
  <2>6. <<rd[L + 1 - n]>> \o r[L + 1 - to[L + 1 - n]] \in Q
    BY <2>4, <2>5, ConcatProperties
  <2>7. <<n, r>> \in (1 .. L) \X R
    BY Zenon
  <2>8. G[<<n, r>>] = <<rd[L + 1 - <<n, r>>[1]]>> \o <<n, r>>[2][L + 1 - to[L + 1 - <<n, r>>[1]]]
    BY <2>7, Zenon
  <2>9. <<n, r>>[1] = n /\ <<n, r>>[2] = r
    OBVIOUS
  <2> HIDE DEF G
  <2>10. G[<<n, r>>] = <<rd[L + 1 - n]>> \o r[L + 1 - to[L + 1 - n]]
    BY <2>8, <2>9, Zenon
  <2>11. QED BY <2>3, <2>6, <2>10, Zenon
<1>7. G \in [(1 .. L) \X R -> Q]
  <2> HIDE DEF Q, R
  <2>1. \A x \in (1 .. L) \X R : G[x] \in Q
    <3> SUFFICES ASSUME NEW x \in (1 .. L) \X R PROVE G[x] \in Q
      OBVIOUS
    <3>1. x[1] \in 1 .. L /\ x[2] \in R /\ x = <<x[1], x[2]>>
      OBVIOUS
    <3> HIDE DEF G
    <3>2. G[<<x[1], x[2]>>] \in Q
      BY <1>6, <3>1
    <3>3. QED BY <3>1, <3>2, Zenon
  <2>2. QED BY <2>1, Zenon
<1>8. ASSUME NEW n \in 1 .. L, NEW r \in R, NEW s \in R, \A k \in 0 .. n - 1 : r[k] = s[k]
      PROVE  G[<<n, r>>] = G[<<n, s>>]
  <2> HIDE DEF G, R
  <2>1. L + 1 - to[L + 1 - n] \in 0 .. n - 1
    BY <1>6
  <2>2. r[L + 1 - to[L + 1 - n]] = s[L + 1 - to[L + 1 - n]]
    BY <1>8, <2>1
  <2>3. /\ G[<<n, r>>] = <<rd[L + 1 - n]>> \o r[L + 1 - to[L + 1 - n]]
        /\ G[<<n, s>>] = <<rd[L + 1 - n]>> \o s[L + 1 - to[L + 1 - n]]
    BY <1>6, Zenon
  <2>4. QED BY <2>2, <2>3, Zenon
<1>9. PICK g \in R : g[0] = << >> /\ \A n \in 1 .. L : g[n] = G[<<n, g>>]
  <2>1. << >> \in Q
    OBVIOUS
  <2> HIDE DEF G, Q
  <2>2. HasCourse(Q, << >>, L, G)
    BY <1>7, <1>8, <2>1, CourseRuns
  <2>3. QED BY <2>2, Zenon DEF HasCourse
<1> DEFINE h == [i \in 1 .. L + 1 |-> g[L + 1 - i]]
<1>10. \A i \in 1 .. L + 1 : h[i] = g[L + 1 - i]
  OBVIOUS
<1> HIDE DEF G, R
<1>11. ASSUME NEW i \in 1 .. L + 1 PROVE h[i] = Loop(h)[i]
  <2>1. CASE i = L + 1
    <3>1. h[i] = << >>
      BY <1>9, <1>10, <2>1
    <3>2. QED BY <1>4, <2>1, <3>1
  <2>2. CASE i # L + 1
    <3>1. i \in 1 .. L /\ L + 1 - i \in 1 .. L /\ L + 1 - (L + 1 - i) = i
      BY <2>2
    <3>2. h[i] = g[L + 1 - i]
      BY <1>10
    <3> HIDE DEF h
    <3>3. g[L + 1 - i] = G[<<L + 1 - i, g>>]
      BY <1>9, <3>1
    <3>4. G[<<L + 1 - i, g>>] = <<rd[L + 1 - (L + 1 - i)]>> \o g[L + 1 - to[L + 1 - (L + 1 - i)]]
      BY <1>6, <3>1, Zenon
    <3>5. rd[i] = Read(b, i) /\ to[i] = i + Skip(b, i) /\ to[i] \in 1 .. L + 1
      BY <1>5, <3>1
    <3>6. h[to[i]] = g[L + 1 - to[i]]
      BY <1>10, <3>5
    <3>7. Loop(h)[i] = <<Read(b, i)>> \o h[i + Skip(b, i)]
      BY <1>3, <3>1, Zenon
    <3>8. QED BY <3>1, <3>2, <3>3, <3>4, <3>5, <3>6, <3>7, Zenon
  <2>3. QED BY <2>1, <2>2
<1>12. h = Loop(h)
  <2>1. h = [i \in 1 .. L + 1 |-> h[i]]
    OBVIOUS
  <2> HIDE DEF h
  <2>2. Loop(h) = [i \in 1 .. L + 1 |-> Loop(h)[i]]
    BY <1>4, Zenon
  <2>3. [i \in 1 .. L + 1 |-> h[i]] = [i \in 1 .. L + 1 |-> Loop(h)[i]]
    BY <1>11, Zenon
  <2>4. QED BY <2>1, <2>2, <2>3, Zenon
<1>13. f = Loop(f)
  BY <1>12, Zenon
<1> HIDE DEF f
<1>14. Decoding(b, f)
  <2>1. f[L + 1] = << >>
    BY <1>4, <1>13, Zenon
  <2>2. \A i \in 1 .. L : f[i] = <<Read(b, i)>> \o f[i + Skip(b, i)]
    BY <1>3, <1>13, Zenon
  <2>3. QED BY <1>1, <2>1, <2>2, Zenon DEF Decoding
<1>15. QED BY <1>2, <1>14, Zenon DEF HasDecoding

-----------------------------------------------------------------------------
\* What a browser writes for a character.
code == [c \in Sign |-> IF c = Spc THEN <<Plus>>
                        ELSE IF c \in Encoded THEN <<Pct>> \o Digits(c) ELSE <<c>>]

LEMMA CodeIs ==
    ASSUME NEW c \in Sign
    PROVE  /\ c = Spc => code[c] = <<Plus>>
           /\ c # Spc /\ c \notin Encoded => code[c] = <<c>>
           /\ c \in Encoded => \E h, l \in Hex : code[c] = <<Pct, h, l>> /\ Byte(h, l) = c
<1>1. c = Spc => code[c] = <<Plus>>
  BY DEF code
<1>2. c # Spc /\ c \notin Encoded => code[c] = <<c>>
  BY DEF code
<1>3. ASSUME c \in Encoded
      PROVE  \E h, l \in Hex : code[c] = <<Pct, h, l>> /\ Byte(h, l) = c
  <2>1. PICK h \in Hex, l \in Hex : Digits(c) = <<h, l>> /\ Byte(h, l) = c
    BY <1>3, ByteIs
  <2>2. c # Spc
    BY <1>3, Distinct
  <2>3. code[c] = <<Pct>> \o Digits(c)
    BY <1>3, <2>2, Zenon DEF code
  <2>4. <<Pct>> \o <<h, l>> = <<Pct, h, l>>
    <3> DEFINE S == {Pct, h, l}
               o == <<Pct>>
               d == <<h, l>>
               e == <<Pct, h, l>>
    <3>1. /\ o \in Seq(S) /\ d \in Seq(S) /\ e \in Seq(S) /\ Len(o) = 1 /\ Len(d) = 2 /\ Len(e) = 3
          /\ o[1] = Pct /\ d[1] = h /\ d[2] = l /\ e[1] = Pct /\ e[2] = h /\ e[3] = l
      OBVIOUS
    <3> HIDE DEF S, o, d, e
    <3> DEFINE w == o \o d
    <3>2. w \in Seq(S) /\ Len(w) = Len(o) + Len(d)
          /\ \A k \in 1 .. Len(o) + Len(d) : w[k] = IF k <= Len(o) THEN o[k] ELSE d[k - Len(o)]
      BY <3>1, ConcatProperties
    <3> HIDE DEF w
    <3>3. Len(w) = 3 /\ \A k \in 1 .. 3 : w[k] = IF k <= 1 THEN o[k] ELSE d[k - 1]
      BY <3>1, <3>2
    <3>4. \A k \in 1 .. 3 : w[k] = e[k]
      BY <3>1, <3>3
    <3>5. w = e
      BY <3>1, <3>2, <3>3, <3>4, SeqEqual
    <3>6. QED BY <3>5, Zenon DEF w, o, d, e
  <2>5. QED BY <2>1, <2>3, <2>4, Zenon
<1>4. QED BY <1>1, <1>2, <1>3, Zenon

LEMMA CodeType == code \in [Sign -> Seq(Plain)]
<1>1. ASSUME NEW c \in Sign PROVE code[c] \in Seq(Plain)
  <2>1. Plus \in Plain /\ Pct \in Plain /\ Hex \subseteq Plain
    BY Distinct DEF Plain, Sign, Encoded
  <2>2. CASE c = Spc
    <3>1. <<Plus>> \in Seq(Plain)
      BY <2>1
    <3>2. QED BY <2>2, <3>1, CodeIs
  <2>3. CASE c \in Encoded
    <3>1. PICK h \in Hex, l \in Hex : code[c] = <<Pct, h, l>>
      BY <2>3, CodeIs
    <3>2. QED BY <2>1, <3>1
  <2>4. CASE c # Spc /\ c \notin Encoded
    <3>1. code[c] = <<c>> /\ c \in Plain
      BY <2>4, CodeIs DEF Plain, Encoded
    <3>2. QED BY <3>1
  <2>5. QED BY <2>2, <2>3, <2>4
<1>2. QED
  <2>1. DOMAIN code = Sign /\ code = [c \in Sign |-> code[c]]
    BY DEF code
  <2>2. QED BY <1>1, <2>1, Zenon

LEMMA PlainIsSign == Plain \subseteq Sign /\ Seq(Plain) \subseteq Seq(Sign) /\ Seq(STRING) \subseteq Seq(Sign)
<1>1. Plain \subseteq Sign /\ STRING \subseteq Sign
  BY DEF Plain, Sign
<1> HIDE DEF Plain, Sign
<1>2. ASSUME NEW A, A \subseteq Sign PROVE Seq(A) \subseteq Seq(Sign)
  BY <1>2
<1>3. QED BY <1>1, <1>2

LEMMA EncodeIs ==
    ASSUME NEW s \in Seq(Sign)
    PROVE  urlencode(s) = Spell(code, s) /\ urlencode(s) \in Seq(Plain)
<1> DEFINE w == [k \in DOMAIN s |->
                   IF s[k] = Spc THEN <<Plus>>
                   ELSE IF s[k] \in Encoded THEN <<Pct>> \o Digits(s[k]) ELSE <<s[k]>>]
<1>1. ASSUME NEW k \in DOMAIN s PROVE w[k] = code[s[k]]
  <2>1. s[k] \in Sign
    OBVIOUS
  <2>2. QED BY <2>1, Zenon DEF code
<1>2. w = [k \in DOMAIN s |-> w[k]]
  BY Zenon
<1>3. urlencode(s) = FlattenSeq(w)
  BY DEF urlencode
<1> HIDE DEF w
<1>4. w = Spellings(code, s)
  BY <1>1, <1>2, Zenon DEF Spellings
<1>5. urlencode(s) = Spell(code, s)
  BY <1>3, <1>4, Zenon DEF Spell
<1>6. Spell(code, s) \in Seq(Plain)
  BY CodeType, SpellType
<1>7. QED BY <1>5, <1>6

\* Decoding what was written for a character behind p gives it back.
ReadsAt(b, p, c) ==
    /\ Read(b, Len(p) + 1) = c
    /\ Len(p) + 1 + Skip(b, Len(p) + 1) = Len(p \o code[c]) + 1
    /\ Len(p) + 1 \in 1 .. Len(b)

LEMMA ReadsBack ==
    ASSUME NEW p \in Seq(Plain), NEW c \in Sign, NEW q \in Seq(Plain)
    PROVE  ReadsAt((p \o code[c]) \o q, p, c)
<1> DEFINE w == code[c]
           v == p \o w
           b == v \o q
<1>1. w \in Seq(Plain)
  BY CodeType
<1>2. PICK P \in Nat, W \in Nat, Z \in Nat : P = Len(p) /\ W = Len(w) /\ Z = Len(q)
  BY <1>1
<1> HIDE DEF w
<1>3. v \in Seq(Plain) /\ Len(v) = P + W /\ \A k \in 1 .. P + W : v[k] = IF k <= P THEN p[k] ELSE w[k - P]
  BY <1>1, <1>2, ConcatProperties
<1> HIDE DEF v
<1>4. b \in Seq(Plain) /\ Len(b) = P + W + Z /\ \A k \in 1 .. P + W : b[k] = v[k]
  <2>1. b \in Seq(Plain) /\ Len(b) = (P + W) + Z
        /\ \A k \in 1 .. (P + W) + Z : b[k] = IF k <= P + W THEN v[k] ELSE q[k - (P + W)]
    <3>1. b \in Seq(Plain) /\ Len(b) = Len(v) + Len(q)
          /\ \A k \in 1 .. Len(v) + Len(q) : b[k] = IF k <= Len(v) THEN v[k] ELSE q[k - Len(v)]
      BY <1>3, ConcatProperties
    <3>2. Len(v) = P + W /\ Len(q) = Z
      BY <1>2, <1>3
    <3> HIDE DEF b
    <3>3. QED BY <3>1, <3>2, Zenon
  <2> HIDE DEF b
  <2>2. QED BY <2>1
<1> HIDE DEF b
<1>5. ASSUME NEW k \in 1 .. W PROVE b[P + k] = w[k]
  <2>1. P + k \in 1 .. P + W /\ ~(P + k <= P) /\ (P + k) - P = k
    OBVIOUS
  <2>2. b[P + k] = v[P + k] /\ v[P + k] = w[(P + k) - P]
    BY <1>3, <1>4, <2>1
  <2>3. QED BY <2>1, <2>2
<1> SUFFICES Read(b, P + 1) = c /\ P + 1 + Skip(b, P + 1) = Len(v) + 1 /\ P + 1 \in 1 .. Len(b)
  BY <1>2, Zenon DEF b, v, w, ReadsAt
<1>6. CASE c = Spc
  <2>1. w = <<Plus>>
    BY <1>6, CodeIs DEF w
  <2>2. W = 1 /\ w[1] = Plus
    BY <1>2, <2>1
  <2>3. b[P + 1] = Plus
    BY <1>5, <2>2
  <2>4. ~Escape(b, P + 1)
    BY <2>3, Distinct DEF Escape
  <2>5. QED BY <1>3, <1>4, <1>6, <2>2, <2>3, <2>4 DEF Read, Skip
<1>7. CASE c \in Encoded
  <2>1. PICK h \in Hex, l \in Hex : w = <<Pct, h, l>> /\ Byte(h, l) = c
    BY <1>7, CodeIs DEF w
  <2>2. W = 3 /\ w[1] = Pct /\ w[2] = h /\ w[3] = l
    BY <1>2, <2>1
  <2>3. b[P + 1] = Pct /\ b[P + 2] = h /\ b[P + 3] = l
    BY <1>5, <2>2
  <2>4. (P + 1) + 1 = P + 2 /\ (P + 1) + 2 = P + 3 /\ P + 3 <= Len(b)
    BY <1>4, <2>2
  <2>5. Escape(b, P + 1)
    BY <2>3, <2>4 DEF Escape
  <2>6. b[P + 1] # Plus
    BY <2>3, Distinct
  <2>7. Read(b, P + 1) = Byte(b[P + 2], b[P + 3])
    BY <2>4, <2>5, <2>6 DEF Read
  <2>8. Read(b, P + 1) = c
    BY <2>1, <2>3, <2>7
  <2>9. Skip(b, P + 1) = 3
    BY <2>5 DEF Skip
  <2>10. QED BY <1>3, <1>4, <2>2, <2>8, <2>9
<1>8. CASE c # Spc /\ c \notin Encoded
  <2>1. w = <<c>>
    BY <1>8, CodeIs DEF w
  <2>2. W = 1 /\ w[1] = c
    BY <1>2, <2>1
  <2>3. b[P + 1] = c /\ c # Plus /\ c # Pct
    BY <1>5, <1>8, <2>2 DEF Encoded
  <2>4. ~Escape(b, P + 1)
    BY <2>3 DEF Escape
  <2>5. QED BY <1>3, <1>4, <2>2, <2>3, <2>4 DEF Read, Skip
<1>9. QED BY <1>6, <1>7, <1>8

\* The loop undoes what the browser did.
LEMMA DecodesEncoded ==
    ASSUME NEW t \in Seq(Sign)
    PROVE  percent_decode(urlencode(t)) = t
<1> DEFINE b == urlencode(t)
           pre(k) == SubSeq(t, 1, k)
           at(k) == Len(Spell(code, pre(k))) + 1
           post(k) == SubSeq(t, k + 1, Len(t))
<1>1. b = Spell(code, t) /\ b \in Seq(Plain) /\ b \in Seq(Sign)
  BY EncodeIs, PlainIsSign
<1> HIDE DEF b
<1>2. PICK f : percent_decode(b) = f[1] /\ Decoding(b, f)
  BY <1>1, DecodeRuns, Zenon DEF HasDecoding
<1>3. PICK L \in Nat : L = Len(t)
  OBVIOUS
<1>4. ASSUME NEW k \in 0 .. L
      PROVE  pre(k) \in Seq(Sign) /\ post(k) \in Seq(Sign)
  BY <1>3, CutAt
<1>5. pre(L) = t /\ post(L) = << >> /\ pre(0) = << >> /\ post(0) = t
  <2>1. pre(L) = t
    BY <1>3, SubSeqFull
  <2>2. post(L) = << >>
    BY <1>3, SubSeqEmpty
  <2>3. pre(0) = << >>
    BY <1>3, SubSeqEmpty
  <2>4. post(0) = t
    BY <1>3, SubSeqFull
  <2>5. QED BY <2>1, <2>2, <2>3, <2>4
<1>6. at(L) = Len(b) + 1 /\ at(0) = 1
  <2> HIDE DEF pre
  <2>1. Spell(code, << >>) = << >>
    BY SpellEmpty
  <2>2. Len(<< >>) + 1 = 1
    OBVIOUS
  <2>3. QED BY <1>1, <1>5, <2>1, <2>2, Zenon
<1> DEFINE Ok == {k \in 0 .. L : f[at(L - k)] = post(L - k)}
<1>7. 0 \in Ok
  <2>1. f[at(L)] = post(L)
    <3> HIDE DEF at, post
    <3> QED BY <1>2, <1>5, <1>6, Zenon DEF Decoding
  <2>2. L - 0 = L
    OBVIOUS
  <2> HIDE DEF at, post
  <2>3. QED BY <2>1, <2>2
<1>8. ASSUME NEW n \in 1 .. L, n - 1 \in Ok PROVE n \in Ok
  <2>1. PICK j \in 1 .. L : j = L - (n - 1) /\ L - n = j - 1 /\ j - 1 \in 0 .. L /\ j \in 0 .. L /\ (j - 1) + 1 = j
    OBVIOUS
  <2>2. f[at(j)] = post(j)
    <3> HIDE DEF at, post
    <3> QED BY <1>8, <2>1
  <2> DEFINE p == Spell(code, pre(j - 1))
             c == t[j]
             q == Spell(code, post(j))
  <2>3. c \in Sign
    BY <1>3
  <2>4. SpellCut(code, t, j)
    BY <1>3, CodeType, SpellAt
  <2>5. Spell(code, t) = (p \o code[c]) \o q /\ Spell(code, pre(j)) = p \o code[c]
    BY <2>4, Zenon DEF SpellCut
  <2>6. p \in Seq(Plain) /\ q \in Seq(Plain)
    <3>1. pre(j - 1) \in Seq(Sign) /\ post(j) \in Seq(Sign)
      BY <1>4, <2>1
    <3> HIDE DEF pre, post
    <3>2. QED BY <3>1, CodeType, SpellType
  <2> HIDE DEF pre, post
  <2>7. at(j) = Len(p \o code[c]) + 1 /\ at(j - 1) = Len(p) + 1
    BY <2>5, Zenon
  <2> HIDE DEF p, q, c, at
  <2>8. ReadsAt((p \o code[c]) \o q, p, c)
    BY <2>3, <2>6, ReadsBack
  <2>9. b = (p \o code[c]) \o q
    BY <1>1, <2>5, Zenon
  <2>10. ReadsAt(b, p, c)
    BY <2>8, <2>9, Zenon
  <2>11. /\ Read(b, Len(p) + 1) = c
         /\ Len(p) + 1 + Skip(b, Len(p) + 1) = Len(p \o code[c]) + 1
         /\ Len(p) + 1 \in 1 .. Len(b)
    BY <2>10, Zenon DEF ReadsAt
  <2>12. f[Len(p) + 1] = <<Read(b, Len(p) + 1)>> \o f[Len(p) + 1 + Skip(b, Len(p) + 1)]
    BY <1>2, <2>11, Zenon DEF Decoding
  <2>13. f[at(j - 1)] = <<c>> \o post(j)
    BY <2>2, <2>7, <2>11, <2>12, Zenon
  <2>14. <<c>> \o post(j) = post(j - 1)
    <3>1. post(j - 1) = SubSeq(t, j, L)
      BY <1>3, <2>1 DEF post
    <3>2. SubSeq(t, j, L) = <<t[j]>> \o SubSeq(t, j + 1, L)
      BY <1>3, SubSeqRecursiveFirst
    <3>3. QED BY <1>3, <3>1, <3>2, Zenon DEF post, c
  <2>15. f[at(L - n)] = post(L - n)
    BY <2>1, <2>13, <2>14, Zenon
  <2>16. n \in 0 .. L
    OBVIOUS
  <2>17. QED BY <2>15, <2>16
<1>9. \A k \in 0 .. L : k \in Ok
  <2> HIDE DEF Ok
  <2> QED BY <1>7, <1>8, UpTo
<1>10. f[at(0)] = post(0)
  <2>1. L \in 0 .. L /\ L - L = 0
    OBVIOUS
  <2> HIDE DEF at, post
  <2>2. f[at(L - L)] = post(L - L)
    BY <1>9, <2>1
  <2>3. QED BY <2>1, <2>2, Zenon
<1> HIDE DEF at, post, Ok
<1>11. QED BY <1>2, <1>5, <1>6, <1>10, Zenon DEF b

\* The form a browser sends for a text.
FormOf(t) == Name \o <<Eq>> \o urlencode(t)

LEMMA FormIs ==
    ASSUME NEW t \in Seq(Sign)
    PROVE  /\ FormOf(t) \in Seq(Sign) /\ Len(FormOf(t)) = 2 + Len(urlencode(t)) /\ Len(FormOf(t)) \in Nat
           /\ FormOf(t)[1] = "t" /\ FormOf(t)[2] = Eq
           /\ \A i \in 1 .. Len(FormOf(t)) : FormOf(t)[i] # Amp /\ (FormOf(t)[i] = Eq <=> i = 2)
           /\ SubSeq(FormOf(t), 1, 1) = Name
           /\ SubSeq(FormOf(t), 3, Len(FormOf(t))) = urlencode(t)
<1> DEFINE e == urlencode(t)
           o == <<"t">>
           q == <<Eq>>
           h == o \o q
           b == h \o e
<1>1. e \in Seq(Plain)
  BY EncodeIs
<1>2. "t" \in Sign /\ Eq \in Sign /\ "t" # Amp /\ "t" # Eq /\ Eq # Amp
  BY Distinct DEF Sign, Encoded
<1>3. o \in Seq(Sign) /\ q \in Seq(Sign) /\ Len(o) = 1 /\ Len(q) = 1 /\ o[1] = "t" /\ q[1] = Eq
  <2>1. \A x \in Sign : <<x>> \in Seq(Sign) /\ Len(<<x>>) = 1 /\ <<x>>[1] = x
    OBVIOUS
  <2>2. QED BY <1>2, <2>1, Zenon
<1>4. e \in Seq(Sign) /\ \A i \in 1 .. Len(e) : e[i] # Amp /\ e[i] # Eq
  BY <1>1, PlainIsSign DEF Plain
<1>5. FormOf(t) = b
  BY Zenon DEF FormOf, Name
<1>6. PICK E \in Nat : E = Len(e)
  BY <1>1
<1> HIDE DEF o, q, e
<1>7. h \in Seq(Sign) /\ Len(h) = 2 /\ h[1] = "t" /\ h[2] = Eq
  <2>1. h \in Seq(Sign) /\ Len(h) = Len(o) + Len(q)
        /\ \A k \in 1 .. Len(o) + Len(q) : h[k] = IF k <= Len(o) THEN o[k] ELSE q[k - Len(o)]
    BY <1>3, ConcatProperties
  <2> HIDE DEF h
  <2>2. Len(h) = 2 /\ \A k \in 1 .. 2 : h[k] = IF k <= 1 THEN o[k] ELSE q[k - 1]
    BY <1>3, <2>1
  <2>3. QED BY <1>3, <2>1, <2>2
<1>8. SubSeq(h, 1, 1) = o
  <2>1. SubSeq(h, 1, Len(o)) = o
    BY <1>3, ConcatCut
  <2>2. QED BY <1>3, <2>1
<1> HIDE DEF h
<1>9. b \in Seq(Sign) /\ Len(b) = 2 + E /\ \A k \in 1 .. 2 + E : b[k] = IF k <= 2 THEN h[k] ELSE e[k - 2]
  <2>1. b \in Seq(Sign) /\ Len(b) = Len(h) + Len(e)
        /\ \A k \in 1 .. Len(h) + Len(e) : b[k] = IF k <= Len(h) THEN h[k] ELSE e[k - Len(h)]
    BY <1>4, <1>7, ConcatProperties
  <2> HIDE DEF b
  <2>2. Len(h) = 2 /\ Len(e) = E
    BY <1>6, <1>7
  <2>3. QED BY <2>1, <2>2, Zenon
<1>10. SubSeq(b, 3, Len(b)) = e
  <2>1. SubSeq(b, Len(h) + 1, Len(b)) = e
    BY <1>4, <1>7, ConcatCut
  <2>2. Len(h) + 1 = 3
    BY <1>7
  <2> HIDE DEF b
  <2>3. QED BY <2>1, <2>2, Zenon
<1> HIDE DEF b
<1>11. b[1] = "t" /\ b[2] = Eq
  BY <1>7, <1>9
<1>12. ASSUME NEW i \in 1 .. 2 + E PROVE b[i] # Amp /\ (b[i] = Eq <=> i = 2)
  <2>1. CASE i <= 2
    <3>1. i = 1 \/ i = 2
      BY <2>1
    <3>2. QED BY <1>2, <1>11, <3>1
  <2>2. CASE i > 2
    <3>1. i - 2 \in 1 .. E /\ ~(i <= 2) /\ i # 2
      BY <2>2
    <3>2. b[i] = e[i - 2]
      BY <1>9, <3>1
    <3>3. QED BY <1>4, <1>6, <3>1, <3>2
  <2>3. QED BY <2>1, <2>2
<1>13. SubSeq(b, 1, 1) = Name
  <2>1. SubSeq(b, 1, 1) = <<b[1]>>
    <3>1. 1 \in 1 .. Len(b)
      BY <1>9
    <3>2. SubSeq(b, 1, 1) = SubSeq(b, 1, 1 - 1) \o <<b[1]>> /\ SubSeq(b, 1, 1 - 1) = << >>
      BY <1>9, <3>1, SubSeqRecursiveSecond, SubSeqEmpty
    <3>3. b[1] \in Sign
      BY <1>9, <3>1
    <3>4. << >> \o <<b[1]>> = <<b[1]>>
      <4>1. <<b[1]>> \in Seq(Sign)
        BY <3>3
      <4>2. QED BY <4>1, ConcatEmptySeq
    <3>5. QED BY <3>2, <3>4, Zenon
  <2>2. QED BY <1>11, <2>1, Zenon DEF Name
<1>14. QED
  <2>1. Len(b) = 2 + Len(e) /\ Len(b) \in Nat
    BY <1>6, <1>9
  <2>2. \A i \in 1 .. Len(b) : b[i] # Amp /\ (b[i] = Eq <=> i = 2)
    BY <1>9, <1>12
  <2>3. QED BY <1>5, <1>9, <1>10, <1>11, <1>13, <2>1, <2>2, Zenon DEF e

LEMMA DecodesName == percent_decode(Name) = Name
<1> DEFINE b == Name
<1>1. b \in Seq(Sign) /\ Len(b) = 1 /\ b[1] = "t"
  <2>1. "t" \in Sign
    BY DEF Sign
  <2>2. \A x \in Sign : <<x>> \in Seq(Sign) /\ Len(<<x>>) = 1 /\ <<x>>[1] = x
    OBVIOUS
  <2>3. QED BY <2>1, <2>2, Zenon DEF Name
<1>2. PICK f : percent_decode(b) = f[1] /\ Decoding(b, f)
  BY <1>1, DecodeRuns, Zenon DEF HasDecoding
<1>3. f[2] = << >> /\ f[1] = <<Read(b, 1)>> \o f[1 + Skip(b, 1)]
  <2>1. 1 + 1 = 2 /\ 1 \in 1 .. 1
    OBVIOUS
  <2>2. QED BY <1>1, <1>2, <2>1, Zenon DEF Decoding
<1>4. b[1] # Pct /\ b[1] # Plus
  BY <1>1, Distinct DEF Encoded
<1>5. ~Escape(b, 1)
  BY <1>4 DEF Escape
<1>6. Read(b, 1) = "t" /\ Skip(b, 1) = 1 /\ 1 + 1 = 2
  BY <1>1, <1>4, <1>5 DEF Read, Skip
<1>7. f[1] = <<"t">> \o << >>
  BY <1>3, <1>6, Zenon
<1>8. Name \o << >> = Name
  BY <1>1, ConcatEmptySeq
<1>9. QED BY <1>2, <1>7, <1>8, Zenon DEF Name

LEMMA MinMaxOfOne ==
    ASSUME NEW a \in Int
    PROVE  Min({a}) = a /\ Max({a}) = a
<1>1. Min({a}) = a
  BY DEF Min
<1>2. Max({a}) = a
  BY DEF Max
<1>3. QED BY <1>1, <1>2

\* What the server takes out of the form is what was typed.
LEMMA FormKeeps ==
    ASSUME NEW t \in Seq(Sign)
    PROVE  parse_form(FormOf(t), Name) = t
<1> DEFINE b == FormOf(t)
<1>1. /\ b \in Seq(Sign) /\ Len(b) = 2 + Len(urlencode(t)) /\ Len(b) \in Nat /\ b[1] = "t" /\ b[2] = Eq
      /\ \A i \in 1 .. Len(b) : b[i] # Amp /\ (b[i] = Eq <=> i = 2)
      /\ SubSeq(b, 1, 1) = Name /\ SubSeq(b, 3, Len(b)) = urlencode(t)
  BY FormIs, Zenon
<1> HIDE DEF b
<1> DEFINE end == Len(b) + 1
           cuts == {i \in DOMAIN b : b[i] = Amp}
           field(a) == SubSeq(b, a + 1, Min({i \in cuts \cup {end} : i > a}) - 1)
           cut(f) == IF Eq \in ToSet(f) THEN Min({i \in DOMAIN f : f[i] = Eq}) ELSE Len(f) + 1
           named == {a \in cuts \cup {0} : field(a) # << >>
                       /\ percent_decode(SubSeq(field(a), 1, cut(field(a)) - 1)) = Name}
<1>2. parse_form(b, Name) = IF named = {} THEN << >>
        ELSE percent_decode(SubSeq(field(Max(named)), cut(field(Max(named))) + 1, Len(field(Max(named)))))
  BY Zenon DEF parse_form
<1>3. cuts = {}
  BY <1>1
<1>4. Min({i \in cuts \cup {end} : i > 0}) = end
  <2>1. {i \in cuts \cup {end} : i > 0} = {end} /\ end \in Nat
    BY <1>1, <1>3
  <2>2. Min({end}) \in {end}
    BY <2>1, MinIn
  <2> HIDE DEF end, cuts
  <2>3. QED BY <2>1, <2>2
<1>5. field(0) = b
  <2>1. end - 1 = Len(b) /\ 0 + 1 = 1
    BY <1>1
  <2> HIDE DEF end, cuts
  <2>2. field(0) = SubSeq(b, 1, Len(b))
    BY <1>4, <2>1, Zenon
  <2>3. SubSeq(b, 1, Len(b)) = b
    BY <1>1, SubSeqFull
  <2>4. QED BY <2>2, <2>3
<1>6. cut(b) = 2
  <2>1. PICK E \in Nat : E = Len(b) /\ E >= 2
    <3>1. urlencode(t) \in Seq(Plain)
      BY EncodeIs
    <3>2. Len(urlencode(t)) \in Nat
      BY <3>1
    <3>3. QED BY <1>1, <3>2
  <2>2. DOMAIN b = 1 .. E /\ 2 \in 1 .. E
    BY <1>1, <2>1
  <2>3. {i \in DOMAIN b : b[i] = Eq} = {2}
    BY <1>1, <2>1, <2>2
  <2>4. Eq \in ToSet(b)
    BY <1>1, <2>2 DEF ToSet
  <2>5. Min({2}) = 2
    BY MinMaxOfOne
  <2>6. QED BY <2>3, <2>4, <2>5
<1> HIDE DEF cut, field, cuts, end
<1>7. named = {0}
  <2>1. b # << >>
    BY <1>1
  <2>2. SubSeq(b, 1, cut(b) - 1) = Name
    <3>1. 2 - 1 = 1
      OBVIOUS
    <3>2. QED BY <1>1, <1>6, <3>1, Zenon
  <2>3. percent_decode(SubSeq(b, 1, cut(b) - 1)) = Name
    BY <2>2, DecodesName, Zenon
  <2>4. field(0) # << >> /\ percent_decode(SubSeq(field(0), 1, cut(field(0)) - 1)) = Name
    BY <1>5, <2>1, <2>3, Zenon
  <2>5. QED BY <1>3, <2>4, Zenon
<1> HIDE DEF named
<1>8. Max(named) = 0
  <2>1. Max({0}) = 0
    <3>1. 0 \in Int
      OBVIOUS
    <3>2. QED BY <3>1, MinMaxOfOne, Zenon
  <2>2. QED BY <1>7, <2>1, Zenon
<1>9. SubSeq(b, cut(b) + 1, Len(b)) = urlencode(t)
  <2>1. 2 + 1 = 3
    OBVIOUS
  <2>2. QED BY <1>1, <1>6, <2>1, Zenon
<1>10. named # {}
  BY <1>7
<1>11. parse_form(b, Name) = percent_decode(urlencode(t))
  BY <1>2, <1>5, <1>8, <1>9, <1>10, Zenon
<1>12. QED BY <1>11, DecodesEncoded, Zenon DEF b

-----------------------------------------------------------------------------
(* Notes board: the list and the pages *)

LEMMA TrimType ==
    ASSUME NEW t \in Seq(STRING)
    PROVE  trim(t) \in Seq(STRING)
<1> DEFINE solid == {i \in DOMAIN t : t[i] # Spc}
<1>1. PICK L \in Nat : L = Len(t) /\ DOMAIN t = 1 .. L
  OBVIOUS
<1>2. CASE solid = {}
  <2>1. trim(t) = << >>
    BY <1>2, Zenon DEF trim
  <2>2. QED BY <2>1
<1>3. CASE solid # {}
  <2>1. solid \in SUBSET Nat /\ solid \in SUBSET (0 .. L) /\ solid \subseteq 1 .. L
    BY <1>1
  <2>2. trim(t) = SubSeq(t, Min(solid), Max(solid))
    BY <1>3, Zenon DEF trim
  <2>3. Min(solid) \in 1 .. L /\ Max(solid) \in 1 .. L
    <3>1. Min(solid) \in solid
      BY <1>3, <2>1, MinIn
    <3>2. Max(solid) \in solid
      BY <1>3, <2>1, MaxIn
    <3>3. QED BY <2>1, <3>1, <3>2
  <2> HIDE DEF solid
  <2>4. PICK m \in 1 .. L, n \in 1 .. L : m = Min(solid) /\ n = Max(solid)
    BY <2>3
  <2>5. SubSeq(t, m, n) \in Seq(STRING)
    <3>1. m \in Int /\ n \in Int /\ \A i \in m .. n : t[i] \in STRING
      BY <1>1
    <3>2. QED BY <3>1, SubSeqProperties
  <2>6. QED BY <2>2, <2>4, <2>5
<1>4. QED BY <1>2, <1>3

NoteSet == [text : Seq(STRING), n : Nat]

\* What a browser may have on its way: nothing, the form of a text, or a place.
Forms == {[kind |-> "add", typed |-> t, body |-> FormOf(t)] : t \in Texts}
Mail == [kind : {"idle"}, status : {303, 400, 413}] \cup Forms \cup [kind : {"delete"}, i : Nat]

BoardType ==
    /\ notes \in Seq(NoteSet) /\ added \in Nat
    /\ page \in [Users -> Seq(NoteSet)] /\ sent \in [Users -> Mail]

\* Notes stand in the order they were added in.
InOrder ==
    /\ \A k \in DOMAIN notes : notes[k].n < added
    /\ \A j, k \in DOMAIN notes : j < k => notes[j].n < notes[k].n

\* A page shows notes that were added and buttons name places on it.
OnPage ==
    \A u \in Users :
      /\ \A k \in DOMAIN page[u] : page[u][k].n < added
      /\ sent[u].kind = "delete" => sent[u].i \in DOMAIN page[u]

\* As long as no note of a page is deleted, the list starts as the page does.
Starts(s, p) == Len(p) <= Len(s) /\ \A k \in 1 .. Len(p) : s[k] = p[k]
Lost(s, p) == \E k \in 1 .. Len(p) : \A j \in 1 .. Len(s) : s[j] # p[k]
Kept == \A u \in Users : Starts(notes, page[u]) \/ Lost(notes, page[u])

BoardInd == BoardType /\ InOrder /\ OnPage /\ Kept

-----------------------------------------------------------------------------
LEMMA MailParts ==
    ASSUME NEW m \in Mail
    PROVE  /\ m.kind \in {"idle", "add", "delete"}
           /\ m.kind = "add" => m.typed \in Texts /\ m.body = FormOf(m.typed)
           /\ m.kind = "delete" => m.i \in Nat
<1>1. CASE m \in [kind : {"idle"}, status : {303, 400, 413}]
  BY <1>1
<1>2. CASE m \in Forms
  <2>1. PICK t \in Texts : m = [kind |-> "add", typed |-> t, body |-> FormOf(t)]
    BY <1>2 DEF Forms
  <2>2. m.kind = "add" /\ m.typed = t /\ m.body = FormOf(t)
    BY <2>1, Zenon
  <2>3. QED BY <2>2
<1>3. CASE m \in [kind : {"delete"}, i : Nat]
  BY <1>3
<1>4. QED BY <1>1, <1>2, <1>3 DEF Mail

LEMMA IdleIsMail == \A s \in {303, 400, 413} : [kind |-> "idle", status |-> s] \in Mail /\ [kind |-> "idle", status |-> s].kind = "idle"
BY DEF Mail

\* The note that is made of a form.
LEMMA NoteIs ==
    ASSUME NEW t \in Texts
    PROVE  LET text == trim(t)
           IN /\ Note(FormOf(t)) = [text |-> SubSeq(text, 1, Min({Limit, Len(text)})), n |-> added]
              /\ text \in Seq(STRING)
              /\ SubSeq(text, 1, Min({Limit, Len(text)})) \in Seq(STRING)
              /\ SubSeq(text, 1, Min({Limit, Len(text)})) = << >> <=> text = << >>
<1> DEFINE text == trim(t)
           s == SubSeq(text, 1, Min({Limit, Len(text)}))
<1>1. t \in Seq(STRING) /\ t \in Seq(Sign)
  BY BoardAssumption, PlainIsSign
<1>2. text \in Seq(STRING)
  BY <1>1, TrimType
<1>3. Note(FormOf(t)) = [text |-> s, n |-> added]
  <2>1. parse_form(FormOf(t), Name) = t
    BY <1>1, FormKeeps
  <2>2. QED BY <2>1, Zenon DEF Note
<1> HIDE DEF text
<1>4. PICK L \in Nat : L = Len(text)
  BY <1>2
<1>5. PICK m \in Nat : m = Min({Limit, Len(text)}) /\ m <= L /\ (m = 0 <=> L = 0)
  <2>1. Limit \in Int /\ Limit > 0
    BY BoardAssumption
  <2>2. Min({Limit, L}) = IF Limit <= L THEN Limit ELSE L
    BY <2>1, MinMaxOfTwo
  <2>3. QED BY <1>4, <2>1, <2>2
<1>6. s = SubSeq(text, 1, m)
  BY <1>5, Zenon
<1>7. SubSeq(text, 1, m) \in Seq(STRING) /\ Len(SubSeq(text, 1, m)) = m
  <2>1. m \in 0 .. Len(text)
    BY <1>4, <1>5
  <2>2. QED BY <1>2, <2>1, CutAt
<1>8. SubSeq(text, 1, m) = << >> <=> text = << >>
  BY <1>2, <1>4, <1>5, <1>7, EmptySeq
<1> HIDE DEF s
<1>9. s \in Seq(STRING) /\ (s = << >> <=> text = << >>)
  BY <1>6, <1>7, <1>8, Zenon
<1>10. QED BY <1>2, <1>3, <1>9, Zenon DEF s, text

RemovedIs(S, s, i, r) ==
    /\ r \in Seq(S) /\ Len(r) = Len(s) - 1
    /\ \A k \in 1 .. Len(s) - 1 : r[k] = IF k < i THEN s[k] ELSE s[k + 1]

LEMMA RemoveIs ==
    ASSUME NEW S, NEW s \in Seq(S), NEW i \in 1 .. Len(s)
    PROVE  RemovedIs(S, s, i, RemoveAt(s, i))
<1>1. PICK L \in Nat : L = Len(s)
  OBVIOUS
<1> DEFINE a == SubSeq(s, 1, i - 1)
           b == SubSeq(s, i + 1, L)
           r == a \o b
<1>2. a \in Seq(S) /\ Len(a) = i - 1 /\ \A k \in 1 .. i - 1 : a[k] = s[k]
  <2>1. \A k \in 1 .. i - 1 : s[k] \in S
    BY <1>1
  <2>2. QED BY <1>1, <2>1, SubSeqProperties
<1>3. b \in Seq(S) /\ Len(b) = L - i /\ \A k \in 1 .. L - i : b[k] = s[i + k]
  <2>1. \A k \in i + 1 .. L : s[k] \in S
    BY <1>1
  <2>2. /\ b \in Seq(S) /\ Len(b) = IF i + 1 <= L THEN L - (i + 1) + 1 ELSE 0
        /\ \A k \in 1 .. L - (i + 1) + 1 : b[k] = s[(i + 1) + k - 1]
    BY <1>1, <2>1, SubSeqProperties
  <2> HIDE DEF b
  <2>3. i \in 1 .. L /\ L - (i + 1) + 1 = L - i /\ Len(b) = L - i
    BY <1>1, <2>2
  <2>4. ASSUME NEW k \in 1 .. L - i PROVE b[k] = s[i + k]
    <3>1. (i + 1) + k - 1 = i + k /\ k \in 1 .. L - (i + 1) + 1
      BY <2>3
    <3>2. QED BY <2>2, <3>1
  <2>5. QED BY <2>2, <2>3, <2>4
<1> HIDE DEF a, b
<1>4. r \in Seq(S) /\ Len(r) = Len(a) + Len(b)
      /\ \A k \in 1 .. Len(a) + Len(b) : r[k] = IF k <= Len(a) THEN a[k] ELSE b[k - Len(a)]
  BY <1>2, <1>3, ConcatProperties
<1>5. RemoveAt(s, i) = r
  BY <1>1, Zenon DEF RemoveAt, a, b
<1> HIDE DEF r
<1>6. Len(r) = L - 1 /\ \A k \in 1 .. L - 1 : r[k] = IF k <= i - 1 THEN a[k] ELSE b[k - (i - 1)]
  BY <1>1, <1>2, <1>3, <1>4
<1>7. ASSUME NEW k \in 1 .. L - 1 PROVE r[k] = IF k < i THEN s[k] ELSE s[k + 1]
  <2>1. CASE k < i
    BY <1>1, <1>2, <1>6, <2>1
  <2>2. CASE k >= i
    <3>1. k - (i - 1) \in 1 .. L - i /\ i + (k - (i - 1)) = k + 1 /\ ~(k <= i - 1) /\ ~(k < i)
      BY <1>1, <2>2
    <3>2. QED BY <1>3, <1>6, <3>1
  <2>3. QED BY <1>1, <2>1, <2>2
<1>8. QED BY <1>1, <1>4, <1>5, <1>6, <1>7 DEF RemovedIs

\* Adding a note and deleting one keep the order, and what a page knows.
LEMMA AddKeeps ==
    ASSUME NEW s \in Seq(NoteSet), NEW p \in Seq(NoteSet), NEW e \in NoteSet,
           \A k \in 1 .. Len(p) : p[k].n < e.n, Starts(s, p) \/ Lost(s, p)
    PROVE  Starts(Append(s, e), p) \/ Lost(Append(s, e), p)
<1>1. PICK L \in Nat, P \in Nat : L = Len(s) /\ P = Len(p)
  OBVIOUS
<1> DEFINE r == Append(s, e)
<1>2. Len(r) = L + 1 /\ r[L + 1] = e /\ \A k \in 1 .. L : r[k] = s[k]
  BY <1>1, AppendProperties
<1> HIDE DEF r
<1>3. CASE Starts(s, p)
  <2>1. Starts(r, p)
    BY <1>1, <1>2, <1>3 DEF Starts
  <2>2. QED BY <2>1 DEF r
<1>4. CASE Lost(s, p)
  <2>1. PICK k \in 1 .. P : \A j \in 1 .. L : s[j] # p[k]
    BY <1>1, <1>4 DEF Lost
  <2>2. p[k].n < e.n /\ p[k] \in NoteSet
    BY <1>1
  <2>3. p[k] # e
    <3>1. e.n \in Nat
      BY DEF NoteSet
    <3>2. QED BY <2>2, <3>1
  <2>4. \A j \in 1 .. L + 1 : r[j] # p[k]
    BY <1>2, <2>1, <2>3
  <2>5. Lost(r, p)
    BY <1>1, <1>2, <2>1, <2>4 DEF Lost
  <2>6. QED BY <2>5 DEF r
<1>5. QED BY <1>3, <1>4

LEMMA DeleteKeeps ==
    ASSUME NEW s \in Seq(NoteSet), NEW p \in Seq(NoteSet), NEW i \in 1 .. Len(s),
           \A j, k \in 1 .. Len(s) : j < k => s[j].n < s[k].n, Starts(s, p) \/ Lost(s, p)
    PROVE  Starts(RemoveAt(s, i), p) \/ Lost(RemoveAt(s, i), p)
<1>1. PICK L \in Nat, P \in Nat : L = Len(s) /\ P = Len(p)
  OBVIOUS
<1> DEFINE r == RemoveAt(s, i)
<1>2. Len(r) = L - 1 /\ \A k \in 1 .. L - 1 : r[k] = IF k < i THEN s[k] ELSE s[k + 1]
  BY <1>1, RemoveIs DEF RemovedIs
<1> HIDE DEF r
<1>3. CASE Starts(s, p)
  <2>1. P <= L /\ \A k \in 1 .. P : s[k] = p[k]
    BY <1>1, <1>3 DEF Starts
  <2>2. CASE i <= P
    <3>1. p[i] = s[i] /\ i \in 1 .. P
      BY <2>1, <2>2
    <3>2. ASSUME NEW j \in 1 .. L - 1 PROVE r[j] # s[i]
      <4>1. PICK k \in 1 .. L : k # i /\ r[j] = s[k]
        <5>1. CASE j < i
          BY <1>1, <1>2, <5>1
        <5>2. CASE ~(j < i)
          <6>1. j + 1 \in 1 .. L /\ j + 1 # i /\ r[j] = s[j + 1]
            BY <1>1, <1>2, <5>2
          <6>2. QED BY <6>1
        <5>3. QED BY <5>1, <5>2
      <4>2. s[k].n \in Nat /\ s[i].n \in Nat
        <5>1. s[k] \in NoteSet /\ s[i] \in NoteSet
          BY <1>1
        <5>2. \A x \in NoteSet : x.n \in Nat
          BY DEF NoteSet
        <5>3. QED BY <5>1, <5>2
      <4>3. s[k].n # s[i].n
        BY <1>1, <4>1, <4>2
      <4>4. QED BY <4>1, <4>3
    <3>3. Lost(r, p)
      BY <1>1, <1>2, <3>1, <3>2 DEF Lost
    <3>4. QED BY <3>3 DEF r
  <2>3. CASE ~(i <= P)
    <3>1. \A k \in 1 .. P : k < i /\ k \in 1 .. L - 1
      BY <1>1, <2>1, <2>3
    <3>2. P <= L - 1
      BY <1>1, <2>1, <2>3
    <3>3. Starts(r, p)
      BY <1>1, <1>2, <2>1, <3>1, <3>2 DEF Starts
    <3>4. QED BY <3>3 DEF r
  <2>4. QED BY <2>2, <2>3
<1>4. CASE Lost(s, p)
  <2>1. PICK k \in 1 .. P : \A j \in 1 .. L : s[j] # p[k]
    BY <1>1, <1>4 DEF Lost
  <2>2. ASSUME NEW j \in 1 .. L - 1 PROVE r[j] # p[k]
    <3>1. j \in 1 .. L /\ j + 1 \in 1 .. L
      BY <1>1
    <3>2. r[j] = s[j] \/ r[j] = s[j + 1]
      BY <1>2
    <3>3. QED BY <2>1, <3>1, <3>2
  <2>3. Lost(r, p)
    BY <1>1, <1>2, <2>1, <2>2 DEF Lost
  <2>4. QED BY <2>3 DEF r
<1>5. QED BY <1>3, <1>4

-----------------------------------------------------------------------------
LEMMA BoardStarts == BoardInit => BoardInd
<1> SUFFICES ASSUME BoardInit PROVE BoardInd
  OBVIOUS
<1>1. << >> \in Seq(NoteSet) /\ Len(<< >>) = 0 /\ DOMAIN << >> = {}
  OBVIOUS
<1>2. BoardType
  BY <1>1, IdleIsMail DEF BoardInit, BoardType
<1>3. \A u \in Users : page[u] = << >> /\ sent[u].kind = "idle"
  BY IdleIsMail DEF BoardInit
<1>4. InOrder /\ OnPage
  BY <1>1, <1>3 DEF BoardInit, InOrder, OnPage
<1>5. Starts(<< >>, << >>)
  BY <1>1 DEF Starts
<1>6. Kept
  BY <1>3, <1>5 DEF BoardInit, Kept
<1>7. QED BY <1>2, <1>4, <1>6 DEF BoardInd

\* A step that leaves list and pages alone and brings no delete button.
LEMMA OnlySent ==
    ASSUME BoardInd, UNCHANGED <<notes, added, page>>, NEW u \in Users, NEW m \in Mail,
           sent' = [sent EXCEPT ![u] = m],
           m.kind = "delete" => m.i \in DOMAIN page[u]
    PROVE  BoardInd'
<1>1. BoardType'
  BY DEF BoardInd, BoardType
<1>2. InOrder' /\ Kept'
  BY DEF BoardInd, InOrder, Kept, Starts, Lost
<1>3. OnPage'
  <2> SUFFICES ASSUME NEW v \in Users
               PROVE  /\ \A k \in DOMAIN page'[v] : page'[v][k].n < added'
                      /\ sent'[v].kind = "delete" => sent'[v].i \in DOMAIN page'[v]
    BY DEF OnPage
  <2>1. sent'[v] = IF v = u THEN m ELSE sent[v]
    BY DEF BoardInd, BoardType
  <2>2. QED BY <2>1 DEF BoardInd, OnPage
<1>4. QED BY <1>1, <1>2, <1>3 DEF BoardInd

LEMMA GetIndexKeeps ==
    ASSUME BoardInd, NEW u \in Users, GetIndex(u)
    PROVE  BoardInd'
<1> USE DEF GetIndex
<1>1. page' \in [Users -> Seq(NoteSet)] /\ \A v \in Users : page'[v] = IF v = u THEN notes ELSE page[v]
  BY DEF BoardInd, BoardType
<1>2. BoardType'
  BY <1>1 DEF BoardInd, BoardType
<1>3. InOrder'
  BY DEF BoardInd, InOrder
<1>4. OnPage'
  <2> SUFFICES ASSUME NEW v \in Users
               PROVE  /\ \A k \in DOMAIN page'[v] : page'[v][k].n < added'
                      /\ sent'[v].kind = "delete" => sent'[v].i \in DOMAIN page'[v]
    BY DEF OnPage
  <2>1. CASE v = u
    <3>1. sent'[v].kind = "idle" /\ page'[v] = notes
      BY <1>1, <2>1
    <3>2. QED BY <3>1 DEF BoardInd, InOrder
  <2>2. CASE v # u
    BY <1>1, <2>2 DEF BoardInd, OnPage
  <2>3. QED BY <2>1, <2>2
<1>5. Kept'
  <2> SUFFICES ASSUME NEW v \in Users PROVE Starts(notes', page'[v]) \/ Lost(notes', page'[v])
    BY DEF Kept
  <2>1. CASE v = u
    <3>1. Starts(notes, notes)
      BY DEF BoardInd, BoardType, Starts
    <3>2. page'[v] = notes /\ notes' = notes
      BY <1>1, <2>1
    <3>3. QED BY <3>1, <3>2
  <2>2. CASE v # u
    <3>1. page'[v] = page[v] /\ notes' = notes
      BY <1>1, <2>2
    <3>2. Starts(notes, page[v]) \/ Lost(notes, page[v])
      BY DEF BoardInd, Kept
    <3>3. QED BY <3>1, <3>2
  <2>3. QED BY <2>1, <2>2
<1>6. QED BY <1>2, <1>3, <1>4, <1>5 DEF BoardInd

\* What a step that answers u leaves of the requests.
LEMMA Responded ==
    ASSUME BoardInd, NEW u \in Users, NEW s \in {303, 400, 413}, Respond(u, s)
    PROVE  /\ sent' \in [Users -> Mail]
           /\ \A v \in Users : sent'[v].kind = "delete" => sent'[v] = sent[v]
<1> DEFINE m == [kind |-> "idle", status |-> s]
<1>1. m \in Mail /\ m.kind = "idle"
  BY IdleIsMail
<1>2. sent' = [sent EXCEPT ![u] = m]
  BY DEF Respond
<1> HIDE DEF m
<1>3. QED BY <1>1, <1>2 DEF BoardInd, BoardType

LEMMA PostNoteKeeps ==
    ASSUME BoardInd, NEW u \in Users, PostNote(u)
    PROVE  BoardInd'
<1> DEFINE e == Note(sent[u].body)
<1>1. sent[u] \in Mail /\ sent[u].kind = "add" /\ page' = page
  BY DEF BoardInd, BoardType, PostNote
<1>2. PICK t \in Texts : sent[u].body = FormOf(t)
  BY <1>1, MailParts
<1>3. e \in NoteSet /\ e.n = added
  <2>1. PICK x \in Seq(STRING) : Note(FormOf(t)) = [text |-> x, n |-> added]
    BY NoteIs
  <2>2. added \in Nat
    BY DEF BoardInd, BoardType
  <2>3. QED BY <1>2, <2>1, <2>2 DEF NoteSet
<1>4. CASE e.text # << >>
  <2>1. notes' = Append(notes, e) /\ added' = added + 1 /\ Respond(u, 303)
    BY <1>4 DEF PostNote
  <2> HIDE DEF e
  <2>2. PICK L \in Nat : L = Len(notes) /\ DOMAIN notes = 1 .. L
    BY DEF BoardInd, BoardType
  <2>3. /\ notes' \in Seq(NoteSet) /\ Len(notes') = L + 1 /\ DOMAIN notes' = 1 .. L + 1
        /\ notes'[L + 1] = e /\ \A k \in 1 .. L : notes'[k] = notes[k]
    BY <1>3, <2>1, <2>2, AppendProperties DEF BoardInd, BoardType
  <2>4. sent' \in [Users -> Mail] /\ \A v \in Users : sent'[v].kind = "delete" => sent'[v] = sent[v]
    BY <2>1, Responded
  <2>5. BoardType'
    BY <1>1, <2>1, <2>3, <2>4 DEF BoardInd, BoardType
  <2>6. added \in Nat /\ \A k \in 1 .. L : notes[k].n < added /\ notes[k].n \in Nat
    <3>1. \A k \in 1 .. L : notes[k] \in NoteSet
      BY <2>2 DEF BoardInd, BoardType
    <3>2. QED BY <2>2, <3>1 DEF BoardInd, BoardType, InOrder, NoteSet
  <2>7. InOrder'
    <3>1. \A k \in 1 .. L + 1 : notes'[k].n < added + 1
      BY <1>3, <2>3, <2>6
    <3>2. ASSUME NEW j \in 1 .. L + 1, NEW k \in 1 .. L + 1, j < k PROVE notes'[j].n < notes'[k].n
      <4>1. CASE k = L + 1
        BY <1>3, <2>3, <2>6, <3>2, <4>1
      <4>2. CASE k # L + 1
        <5>1. j \in 1 .. L /\ k \in 1 .. L
          BY <3>2, <4>2
        <5>2. notes[j].n < notes[k].n
          BY <2>2, <3>2, <5>1 DEF BoardInd, InOrder
        <5>3. QED BY <2>3, <5>1, <5>2
      <4>3. QED BY <4>1, <4>2
    <3>3. QED BY <2>1, <2>3, <3>1, <3>2 DEF InOrder
  <2>8. OnPage'
    <3> SUFFICES ASSUME NEW v \in Users
                 PROVE  /\ \A k \in DOMAIN page'[v] : page'[v][k].n < added'
                        /\ sent'[v].kind = "delete" => sent'[v].i \in DOMAIN page'[v]
      BY DEF OnPage
    <3>1. \A k \in DOMAIN page[v] : page[v][k].n < added /\ page[v][k].n \in Nat
      <4>1. \A k \in DOMAIN page[v] : page[v][k] \in NoteSet
        BY DEF BoardInd, BoardType
      <4>2. QED BY <4>1 DEF BoardInd, OnPage, NoteSet
    <3>2. QED BY <1>1, <2>1, <2>4, <2>6, <3>1 DEF BoardInd, OnPage
  <2>9. Kept'
    <3> SUFFICES ASSUME NEW v \in Users PROVE Starts(notes', page'[v]) \/ Lost(notes', page'[v])
      BY DEF Kept
    <3>1. page[v] \in Seq(NoteSet) /\ notes \in Seq(NoteSet)
      BY DEF BoardInd, BoardType
    <3>2. \A k \in 1 .. Len(page[v]) : page[v][k].n < e.n
      BY <1>3, <3>1 DEF BoardInd, OnPage
    <3>3. Starts(notes, page[v]) \/ Lost(notes, page[v])
      BY DEF BoardInd, Kept
    <3>4. Starts(Append(notes, e), page[v]) \/ Lost(Append(notes, e), page[v])
      BY <1>3, <3>1, <3>2, <3>3, AddKeeps
    <3>5. QED BY <1>1, <2>1, <3>4
  <2>10. QED BY <2>5, <2>7, <2>8, <2>9 DEF BoardInd
<1>5. CASE ~(e.text # << >>)
  <2>1. UNCHANGED <<notes, added, page>> /\ Respond(u, 400)
    BY <1>5 DEF PostNote
  <2>2. [kind |-> "idle", status |-> 400] \in Mail /\ [kind |-> "idle", status |-> 400].kind = "idle"
    BY IdleIsMail
  <2>3. QED BY <2>1, <2>2, OnlySent DEF Respond
<1>6. QED BY <1>4, <1>5

LEMMA PostDeleteKeeps ==
    ASSUME BoardInd, NEW u \in Users, PostDelete(u)
    PROVE  BoardInd'
<1>1. sent[u] \in Mail /\ sent[u].kind = "delete" /\ page' = page /\ added' = added
  BY DEF BoardInd, BoardType, PostDelete
<1>2. sent[u].i \in DOMAIN page[u]
  BY <1>1 DEF BoardInd, OnPage
<1>3. CASE sent[u].i <= Len(notes)
  <2>1. PICK i \in 1 .. Len(notes) : i = sent[u].i
    BY <1>2, <1>3 DEF BoardInd, BoardType
  <2>2. notes' = RemoveAt(notes, i) /\ Respond(u, 303)
    BY <1>3, <2>1 DEF PostDelete
  <2>3. PICK L \in Nat : L = Len(notes) /\ DOMAIN notes = 1 .. L
    BY DEF BoardInd, BoardType
  <2>4. notes \in Seq(NoteSet)
    BY DEF BoardInd, BoardType
  <2>5. /\ notes' \in Seq(NoteSet) /\ Len(notes') = L - 1 /\ DOMAIN notes' = 1 .. L - 1
        /\ \A k \in 1 .. L - 1 : notes'[k] = IF k < i THEN notes[k] ELSE notes[k + 1]
    <3>1. RemovedIs(NoteSet, notes, i, notes')
      BY <2>1, <2>2, <2>4, RemoveIs
    <3>2. notes' \in Seq(NoteSet) /\ Len(notes') = L - 1
          /\ \A k \in 1 .. L - 1 : notes'[k] = IF k < i THEN notes[k] ELSE notes[k + 1]
      BY <2>3, <3>1, Zenon DEF RemovedIs
    <3>3. QED BY <3>2
  <2>6. sent' \in [Users -> Mail] /\ \A v \in Users : sent'[v].kind = "delete" => sent'[v] = sent[v]
    BY <2>2, Responded
  <2>7. BoardType'
    BY <1>1, <2>5, <2>6 DEF BoardInd, BoardType
  <2>8. InOrder'
    <3>1. \A k \in 1 .. L : notes[k].n < added
      BY <2>3 DEF BoardInd, InOrder
    <3>2. \A j, k \in 1 .. L : j < k => notes[j].n < notes[k].n
      BY <2>3 DEF BoardInd, InOrder
    <3>3. \A k \in 1 .. L - 1 : k \in 1 .. L /\ k + 1 \in 1 .. L
      BY <2>3
    <3>4. \A k \in 1 .. L - 1 : notes'[k].n < added
      BY <2>5, <3>1, <3>3
    <3>5. ASSUME NEW j \in 1 .. L - 1, NEW k \in 1 .. L - 1, j < k PROVE notes'[j].n < notes'[k].n
      <4>1. PICK x \in 1 .. L, y \in 1 .. L : x < y /\ notes'[j] = notes[x] /\ notes'[k] = notes[y]
        <5>1. CASE k < i
          <6>1. notes'[j] = notes[j] /\ notes'[k] = notes[k]
            BY <2>1, <2>5, <3>5, <5>1
          <6>2. QED BY <3>3, <3>5, <6>1
        <5>2. CASE j < i /\ ~(k < i)
          <6>1. notes'[j] = notes[j] /\ notes'[k] = notes[k + 1] /\ j < k + 1
            BY <2>1, <2>5, <3>5, <5>2
          <6>2. QED BY <3>3, <6>1
        <5>3. CASE ~(j < i)
          <6>1. notes'[j] = notes[j + 1] /\ notes'[k] = notes[k + 1] /\ j + 1 < k + 1
            BY <2>1, <2>5, <3>5, <5>3
          <6>2. QED BY <3>3, <6>1
        <5>4. QED BY <5>1, <5>2, <5>3
      <4>2. QED BY <3>2, <4>1
    <3>6. QED BY <1>1, <2>5, <3>4, <3>5 DEF InOrder
  <2>9. OnPage'
    BY <1>1, <2>6 DEF BoardInd, OnPage
  <2>10. Kept'
    <3> SUFFICES ASSUME NEW v \in Users PROVE Starts(notes', page'[v]) \/ Lost(notes', page'[v])
      BY DEF Kept
    <3>1. page[v] \in Seq(NoteSet)
      BY DEF BoardInd, BoardType
    <3>2. \A j, k \in 1 .. Len(notes) : j < k => notes[j].n < notes[k].n
      BY <2>3 DEF BoardInd, InOrder
    <3>3. Starts(notes, page[v]) \/ Lost(notes, page[v])
      BY DEF BoardInd, Kept
    <3>4. Starts(RemoveAt(notes, i), page[v]) \/ Lost(RemoveAt(notes, i), page[v])
      BY <2>4, <3>1, <3>2, <3>3, DeleteKeeps
    <3>5. QED BY <1>1, <2>2, <3>4
  <2>11. QED BY <2>7, <2>8, <2>9, <2>10 DEF BoardInd
<1>4. CASE ~(sent[u].i <= Len(notes))
  <2>1. UNCHANGED <<notes, added, page>> /\ Respond(u, 400)
    BY <1>4 DEF PostDelete
  <2>2. [kind |-> "idle", status |-> 400] \in Mail /\ [kind |-> "idle", status |-> 400].kind = "idle"
    BY IdleIsMail
  <2>3. QED BY <2>1, <2>2, OnlySent DEF Respond
<1>5. QED BY <1>3, <1>4

LEMMA BoardKeeps == BoardInd /\ [BoardNext]_board => BoardInd'
<1> SUFFICES ASSUME BoardInd, [BoardNext]_board PROVE BoardInd'
  OBVIOUS
<1>1. CASE UNCHANGED board
  BY <1>1 DEF board, BoardInd, BoardType, InOrder, OnPage, Kept, Starts, Lost
<1>2. ASSUME NEW u \in Users, SubmitNote(u) PROVE BoardInd'
  <2>1. PICK t \in Texts : sent' = [sent EXCEPT ![u] = [kind |-> "add", typed |-> t, body |-> FormOf(t)]]
    BY <1>2, Zenon DEF SubmitNote, FormOf
  <2> DEFINE m == [kind |-> "add", typed |-> t, body |-> FormOf(t)]
  <2>2. m \in Mail
    BY Zenon DEF Mail, Forms
  <2>3. m.kind # "delete"
    OBVIOUS
  <2>4. UNCHANGED <<notes, added, page>>
    BY <1>2 DEF SubmitNote
  <2>5. sent' = [sent EXCEPT ![u] = m]
    BY <2>1, Zenon
  <2> HIDE DEF m
  <2>6. QED BY <2>2, <2>3, <2>4, <2>5, OnlySent
<1>3. ASSUME NEW u \in Users, PressDelete(u) PROVE BoardInd'
  <2>1. PICK i \in DOMAIN page[u] : sent' = [sent EXCEPT ![u] = [kind |-> "delete", i |-> i]]
    BY <1>3 DEF PressDelete
  <2> DEFINE m == [kind |-> "delete", i |-> i]
  <2>2. i \in Nat
    BY DEF BoardInd, BoardType
  <2>3. m \in Mail /\ m.i = i
    BY <2>2 DEF Mail
  <2>4. UNCHANGED <<notes, added, page>>
    BY <1>3 DEF PressDelete
  <2>5. sent' = [sent EXCEPT ![u] = m]
    BY <2>1, Zenon
  <2> HIDE DEF m
  <2>6. QED BY <2>3, <2>4, <2>5, OnlySent
<1>4. ASSUME NEW u \in Users, Refused(u) PROVE BoardInd'
  <2>1. PICK s \in {400, 413} : sent' = [sent EXCEPT ![u] = [kind |-> "idle", status |-> s]]
    BY <1>4 DEF Refused, Respond
  <2>2. [kind |-> "idle", status |-> s] \in Mail /\ [kind |-> "idle", status |-> s].kind = "idle"
    BY IdleIsMail
  <2>3. UNCHANGED <<notes, added, page>>
    BY <1>4 DEF Refused
  <2> DEFINE m == [kind |-> "idle", status |-> s]
  <2>4. m \in Mail
    BY <2>2, Zenon
  <2>5. m.kind = "delete" => m.i \in DOMAIN page[u]
    BY <2>2
  <2>6. sent' = [sent EXCEPT ![u] = m]
    BY <2>1, Zenon
  <2> HIDE DEF m
  <2>7. BoardInd
    OBVIOUS
  <2>8. QED BY <2>3, <2>4, <2>5, <2>6, <2>7, OnlySent
<1>5. ASSUME NEW u \in Users, GetIndex(u) \/ PostNote(u) \/ PostDelete(u) PROVE BoardInd'
  <2>1. CASE GetIndex(u)
    BY <2>1, GetIndexKeeps
  <2>2. CASE PostNote(u)
    BY <2>2, PostNoteKeeps
  <2>3. CASE PostDelete(u)
    BY <2>3, PostDeleteKeeps
  <2>4. QED BY <1>5, <2>1, <2>2, <2>3
<1>6. CASE BoardNext
  BY <1>2, <1>3, <1>4, <1>5, <1>6, Zenon DEF BoardNext
<1>7. QED BY <1>1, <1>6

\* The invariant of the notes board: notes in the order they were added in,
\* requests that browsers really send, and, for every page, a list that starts
\* as the page does until a note of the page is deleted.
THEOREM BoardInvariant == BoardSpec => []BoardInd
<1>1. QED BY BoardStarts, BoardKeeps, PTL DEF BoardSpec

\* POST /notes/delete removes the note that its place named on the page,
\* unless a note of that page has been deleted since.
THEOREM DeletesByPlace == BoardSpec => DeletesWhatWasShown
<1>1. ASSUME BoardInd, BoardNext PROVE DeletesShown
  <2> SUFFICES ASSUME NEW u \in Users, PostDelete(u), notes' # notes
               PROVE  \/ notes[sent[u].i] = page[u][sent[u].i]
                      \/ ~(ToSet(page[u]) \subseteq ToSet(notes))
    BY DEF DeletesShown
  <2>1. sent[u].i \in DOMAIN page[u] /\ page[u] \in Seq(NoteSet) /\ notes \in Seq(NoteSet)
    BY <1>1 DEF BoardInd, BoardType, OnPage, PostDelete
  <2>2. CASE Starts(notes, page[u])
    BY <2>1, <2>2 DEF Starts
  <2>3. CASE Lost(notes, page[u])
    <3>1. PICK k \in 1 .. Len(page[u]) : \A j \in 1 .. Len(notes) : notes[j] # page[u][k]
      BY <2>3 DEF Lost
    <3>2. page[u][k] \in ToSet(page[u]) /\ page[u][k] \notin ToSet(notes)
      BY <2>1, <3>1 DEF ToSet
    <3>3. QED BY <3>2
  <2>4. QED BY <1>1, <2>2, <2>3 DEF BoardInd, Kept
<1>2. BoardInd /\ [BoardNext]_board => [DeletesShown]_board
  BY <1>1
<1>3. QED BY <1>2, BoardInvariant, PTL DEF BoardSpec, DeletesWhatWasShown

\* POST /notes stores what the user typed, trimmed and cut, whatever
\* characters it has: parse_form and percent_decode undo the browser's encoding.
THEOREM StoresTexts == BoardSpec => StoresWhatWasTyped
<1>1. ASSUME BoardInd, BoardNext PROVE StoresTyped
  <2> SUFFICES ASSUME NEW u \in Users, PostNote(u)
               PROVE  LET text == trim(sent[u].typed)
                      IN IF text = << >> THEN notes' = notes
                         ELSE \E m \in ToSet(notes') :
                                /\ m.n = added
                                /\ m.text = SubSeq(text, 1, Min({Limit, Len(text)}))
    BY DEF StoresTyped
  <2> DEFINE t == sent[u].typed
             text == trim(t)
             s == SubSeq(text, 1, Min({Limit, Len(text)}))
             e == Note(sent[u].body)
  <2>1. t \in Texts /\ sent[u].body = FormOf(t)
    BY <1>1, MailParts DEF BoardInd, BoardType, PostNote
  <2>2. e = [text |-> s, n |-> added] /\ s \in Seq(STRING) /\ (s = << >> <=> text = << >>)
    <3> HIDE DEF t
    <3>1. Note(FormOf(t)) = [text |-> s, n |-> added] /\ s \in Seq(STRING) /\ (s = << >> <=> text = << >>)
      BY <2>1, NoteIs, Zenon
    <3>2. QED BY <2>1, <3>1, Zenon
  <2>3. IF e.text # << >> THEN notes' = Append(notes, e) ELSE notes' = notes
    BY DEF PostNote
  <2> HIDE DEF s, e, text, t
  <2>4. e.text = s /\ e.n = added
    BY <2>2
  <2>5. CASE text = << >>
    BY <2>2, <2>3, <2>4, <2>5 DEF text, t
  <2>6. CASE text # << >>
    <3>1. notes' = Append(notes, e)
      BY <2>2, <2>3, <2>4, <2>6
    <3>2. notes \in Seq(NoteSet) /\ e \in NoteSet
      BY <1>1, <2>2 DEF BoardInd, BoardType, NoteSet
    <3>3. e \in ToSet(notes')
      <4>1. PICK L \in Nat : L = Len(notes)
        BY <3>2
      <4>2. L + 1 \in DOMAIN notes' /\ notes'[L + 1] = e
        BY <3>1, <3>2, <4>1, AppendProperties
      <4>3. QED BY <4>2 DEF ToSet
    <3>4. QED BY <2>4, <2>6, <3>3, Zenon DEF s, text, t
  <2>7. QED BY <2>5, <2>6
<1>2. BoardInd /\ [BoardNext]_board => [StoresTyped]_board
  BY <1>1
<1>3. QED BY <1>2, BoardInvariant, PTL DEF BoardSpec, StoresWhatWasTyped

-----------------------------------------------------------------------------
(* WebSocket chat: frames *)

Msgs == {p \in Seq(Nat) : Len(p) \in Lens}
enc == [p \in Msgs |-> encode_frame(Text, p)]

\* Extra digits in the header of a frame with n payload bytes.
Extra(n) == IF n <= Literal THEN 0 ELSE IF n < LenBase THEN 1 ELSE 2
Header(n) == IF n <= Literal THEN <<n>>
             ELSE IF n < LenBase THEN <<Literal + 1, n>> ELSE <<Literal + 2, n \div LenBase, n % LenBase>>

\* x[2], x[3], ... hold the length n, as far as there are such bytes.
Headed(x, n) ==
    /\ n <= Literal => x[2] = n
    /\ n > Literal /\ n < LenBase => x[2] = Literal + 1 /\ (Len(x) >= 3 => x[3] = n)
    /\ n >= LenBase => /\ x[2] = Literal + 2 /\ (Len(x) >= 3 => x[3] = n \div LenBase)
                    /\ (Len(x) >= 4 => x[4] = n % LenBase)

LEMMA SizesOk ==
    /\ Literal \in Nat /\ LenBase \in Nat /\ LenBase > 0 /\ Literal < LenBase
    /\ \A n \in Lens : n \in Nat /\ n < LenBase * LenBase
BY WsAssumption

\* Two digits hold every length that is sent.
LEMMA TwoDigits ==
    ASSUME NEW n \in Lens
    PROVE  /\ n \div LenBase \in Nat /\ n \div LenBase < LenBase /\ n % LenBase \in Nat /\ n % LenBase < LenBase
           /\ (n \div LenBase) * LenBase + (n % LenBase) = n
<1>1. PICK B \in Nat : B = LenBase /\ B > 0
  BY SizesOk
<1>2. n \in Nat /\ n < B * B
  BY <1>1, SizesOk
<1>3. n \div B \in Nat /\ n % B \in Nat /\ n % B < B
  BY <1>1, <1>2
<1>4. (n \div B) * B + (n % B) = n
  BY <1>1, <1>2
<1>5. n \div B < B
  <2>1. PICK q \in Nat, r \in Nat : q = n \div B /\ r = n % B
    BY <1>3
  <2>2. q * B + r = n
    BY <1>4, <2>1
  <2>3. q * B < B * B
    BY <1>1, <1>2, <2>2
  <2>4. q < B
    BY <1>1, <2>3
  <2>5. QED BY <2>1, <2>4
<1>6. QED BY <1>1, <1>3, <1>4, <1>5

LEMMA HeaderIs ==
    ASSUME NEW n \in Lens
    PROVE  /\ Header(n) \in Seq(Nat) /\ Len(Header(n)) = 1 + Extra(n) /\ Extra(n) \in 0 .. 2
           /\ n <= Literal => Extra(n) = 0 /\ Header(n)[1] = n
           /\ n > Literal /\ n < LenBase => Extra(n) = 1 /\ Header(n)[1] = Literal + 1 /\ Header(n)[2] = n
           /\ n >= LenBase => /\ Extra(n) = 2 /\ Header(n)[1] = Literal + 2
                           /\ Header(n)[2] = n \div LenBase /\ Header(n)[3] = n % LenBase
<1>1. n \in Nat /\ Literal \in Nat /\ LenBase \in Nat /\ Literal < LenBase
  BY SizesOk
<1>2. PICK q \in Nat, r \in Nat : q = n \div LenBase /\ r = n % LenBase
  BY TwoDigits
<1>3. CASE n <= Literal
  <2>1. Extra(n) = 0 /\ Header(n) = <<n>>
    BY <1>3 DEF Extra, Header
  <2>2. QED BY <1>1, <1>3, <2>1
<1>4. CASE n > Literal /\ n < LenBase
  <2>1. Extra(n) = 1 /\ Header(n) = <<Literal + 1, n>>
    BY <1>1, <1>4 DEF Extra, Header
  <2>2. QED BY <1>1, <1>4, <2>1
<1>5. CASE n >= LenBase
  <2>1. Extra(n) = 2 /\ Header(n) = <<Literal + 2, q, r>>
    BY <1>1, <1>2, <1>5 DEF Extra, Header
  <2>2. QED BY <1>1, <1>2, <1>5, <2>1
<1>6. QED BY <1>1, <1>3, <1>4, <1>5

EncodedIs(op, p, w) ==
    /\ w \in Seq(Nat) /\ Len(w) = 2 + Extra(Len(p)) + Len(p) /\ w[1] = op /\ Headed(w, Len(p))
    /\ \A k \in 1 .. Len(p) : w[2 + Extra(Len(p)) + k] = p[k]

LEMMA EncodeFrameIs ==
    ASSUME NEW op \in Nat, NEW p \in Msgs
    PROVE  EncodedIs(op, p, encode_frame(op, p))
<1>1. p \in Seq(Nat) /\ Len(p) \in Lens
  BY DEF Msgs
<1>2. PICK n \in Lens : n = Len(p)
  BY <1>1
<1>3. PICK d \in 0 .. 2 : d = Extra(n)
  BY HeaderIs
<1> DEFINE h == Header(n)
           o == <<op>>
           u == o \o h
           w == u \o p
<1>4. encode_frame(op, p) = w
  <2>1. n \in Nat /\ Literal \in Nat /\ LenBase \in Nat
    BY SizesOk
  <2>2. (CASE n <= Literal -> <<n>>
           [] n > Literal /\ n < LenBase -> <<Literal + 1, n>>
           [] OTHER -> <<Literal + 2, n \div LenBase, n % LenBase>>) = h
    BY <2>1 DEF Header
  <2>3. encode_frame(op, p) = <<op>> \o (CASE n <= Literal -> <<n>>
           [] n > Literal /\ n < LenBase -> <<Literal + 1, n>>
           [] OTHER -> <<Literal + 2, n \div LenBase, n % LenBase>>) \o p
    BY <1>2, Zenon DEF encode_frame
  <2> HIDE DEF h
  <2>4. QED BY <2>2, <2>3, Zenon
<1>5. n \in Nat /\ o \in Seq(Nat) /\ Len(o) = 1 /\ o[1] = op
  BY SizesOk
<1>6. h \in Seq(Nat) /\ Len(h) = 1 + d
  BY <1>3, HeaderIs
<1> HIDE DEF h, o
<1>7. u \in Seq(Nat) /\ Len(u) = 2 + d /\ u[1] = op /\ \A k \in 1 .. 1 + d : u[1 + k] = h[k]
  <2>1. u \in Seq(Nat) /\ Len(u) = Len(o) + Len(h)
        /\ \A k \in 1 .. Len(o) + Len(h) : u[k] = IF k <= Len(o) THEN o[k] ELSE h[k - Len(o)]
    BY <1>5, <1>6, ConcatProperties
  <2> HIDE DEF u
  <2>2. Len(u) = 2 + d /\ \A k \in 1 .. 2 + d : u[k] = IF k <= 1 THEN o[k] ELSE h[k - 1]
    BY <1>5, <1>6, <2>1
  <2>3. \A k \in 1 .. 1 + d : 1 + k \in 1 .. 2 + d /\ ~(1 + k <= 1) /\ (1 + k) - 1 = k
    OBVIOUS
  <2>4. QED BY <1>5, <2>1, <2>2, <2>3
<1> HIDE DEF u
<1>8. /\ w \in Seq(Nat) /\ Len(w) = 2 + d + n /\ w[1] = op /\ \A k \in 1 .. 1 + d : w[1 + k] = h[k]
      /\ \A k \in 1 .. n : w[2 + d + k] = p[k]
  <2>1. w \in Seq(Nat) /\ Len(w) = Len(u) + Len(p)
        /\ \A k \in 1 .. Len(u) + Len(p) : w[k] = IF k <= Len(u) THEN u[k] ELSE p[k - Len(u)]
    BY <1>1, <1>7, ConcatProperties
  <2> HIDE DEF w
  <2>2. Len(w) = 2 + d + n /\ \A k \in 1 .. 2 + d + n : w[k] = IF k <= 2 + d THEN u[k] ELSE p[k - (2 + d)]
    BY <1>2, <1>7, <2>1
  <2>3. \A k \in 1 .. n : 2 + d + k \in 1 .. 2 + d + n /\ ~(2 + d + k <= 2 + d) /\ (2 + d + k) - (2 + d) = k
    BY <1>5
  <2>4. \A k \in 1 .. 1 + d : 1 + k \in 1 .. 2 + d + n /\ 1 + k <= 2 + d
    BY <1>5
  <2>5. 1 \in 1 .. 2 + d + n /\ 1 <= 2 + d
    BY <1>5
  <2>6. w[1] = op
    BY <1>7, <2>2, <2>5
  <2>7. ASSUME NEW k \in 1 .. 1 + d PROVE w[1 + k] = h[k]
    BY <1>7, <2>2, <2>4
  <2>8. ASSUME NEW k \in 1 .. n PROVE w[2 + d + k] = p[k]
    BY <2>2, <2>3
  <2>9. QED BY <2>1, <2>2, <2>6, <2>7, <2>8
<1> HIDE DEF w
<1>9. Headed(w, n)
  <2>1. w[2] = h[1] /\ (d >= 1 => w[3] = h[2]) /\ (d >= 2 => w[4] = h[3])
    <3>1. 1 \in 1 .. 1 + d /\ (d >= 1 => 2 \in 1 .. 1 + d) /\ (d >= 2 => 3 \in 1 .. 1 + d)
          /\ 1 + 1 = 2 /\ 1 + 2 = 3 /\ 1 + 3 = 4
      OBVIOUS
    <3>2. QED BY <1>8, <3>1
  <2>2. QED BY <1>3, <2>1, HeaderIs DEF Headed, h
<1>10. QED BY <1>2, <1>3, <1>4, <1>8, <1>9 DEF EncodedIs

FrameAt(x, n) == [op |-> x[1], payload |-> SubSeq(x, 3 + Extra(n), 2 + Extra(n) + n),
                  rest |-> SubSeq(x, 3 + Extra(n) + n, Len(x))]

LEMMA ReadFrameIs ==
    ASSUME NEW x \in Seq(Nat), NEW n \in Lens, Len(x) >= 2, Headed(x, n)
    PROVE  read_frame(x) = IF Len(x) >= 2 + Extra(n) + n THEN {FrameAt(x, n)} ELSE {}
<1> DEFINE digits == CASE x[2] = Literal + 1 -> 1 [] x[2] = Literal + 2 -> 2 [] OTHER -> 0
           m == CASE digits = 0 -> x[2] [] digits = 1 -> x[3] [] OTHER -> x[3] * LenBase + x[4]
           first == 3 + digits
           whole == /\ Len(x) >= 2 /\ x[2] \in 0 .. Literal + 2 /\ Len(x) >= 2 + digits
                    /\ \A d \in 3 .. 2 + digits : x[d] \in 0 .. LenBase - 1
                    /\ Len(x) >= first + m - 1
<1>1. read_frame(x) = IF whole THEN {[op |-> x[1], payload |-> SubSeq(x, first, first + m - 1),
                                      rest |-> SubSeq(x, first + m, Len(x))]} ELSE {}
  BY Zenon DEF read_frame
<1>2. PICK L \in Nat, d \in 0 .. 2 : L = Len(x) /\ d = Extra(n) /\ L >= 2
  BY HeaderIs
<1>3. n \in Nat /\ Literal \in Nat /\ LenBase \in Nat /\ Literal < LenBase
  BY SizesOk
<1>4. digits = d /\ x[2] \in 0 .. Literal + 2
  <2>1. CASE n <= Literal
    <3>1. d = 0 /\ x[2] = n
      BY <1>2, <2>1, HeaderIs DEF Headed
    <3>2. QED BY <1>3, <2>1, <3>1
  <2>2. CASE n > Literal /\ n < LenBase
    <3>1. d = 1 /\ x[2] = Literal + 1
      BY <1>2, <2>2, HeaderIs DEF Headed
    <3>2. QED BY <1>3, <3>1
  <2>3. CASE n >= LenBase
    <3>1. d = 2 /\ x[2] = Literal + 2
      BY <1>2, <2>3, HeaderIs DEF Headed
    <3>2. QED BY <1>3, <3>1
  <2>4. QED BY <1>3, <2>1, <2>2, <2>3
<1> HIDE DEF digits
<1>5. ASSUME L >= 2 + d
      PROVE  m = n /\ \A k \in 3 .. 2 + d : x[k] \in 0 .. LenBase - 1
  <2>1. CASE n <= Literal
    <3>1. d = 0 /\ x[2] = n
      BY <1>2, <2>1, HeaderIs DEF Headed
    <3>2. QED BY <1>4, <3>1
  <2>2. CASE n > Literal /\ n < LenBase
    <3>1. d = 1 /\ x[3] = n
      BY <1>2, <1>5, <2>2, HeaderIs DEF Headed
    <3>2. n \in 0 .. LenBase - 1
      BY <1>3, <2>2
    <3>3. QED BY <1>4, <3>1, <3>2
  <2>3. CASE n >= LenBase
    <3>1. d = 2 /\ x[3] = n \div LenBase /\ x[4] = n % LenBase
      BY <1>2, <1>5, <2>3, HeaderIs DEF Headed
    <3>2. x[3] \in 0 .. LenBase - 1 /\ x[4] \in 0 .. LenBase - 1 /\ x[3] * LenBase + x[4] = n
      <4>1. PICK q \in Nat, r \in Nat : q = n \div LenBase /\ r = n % LenBase /\ q < LenBase /\ r < LenBase /\ q * LenBase + r = n
        BY TwoDigits
      <4>2. q \in 0 .. LenBase - 1 /\ r \in 0 .. LenBase - 1
        BY <1>3, <4>1
      <4>3. QED BY <3>1, <4>1, <4>2
    <3>3. m = n
      BY <1>4, <3>1, <3>2
    <3>4. \A k \in 3 .. 2 + d : k = 3 \/ k = 4
      BY <3>1
    <3>5. QED BY <3>2, <3>3, <3>4
  <2>4. QED BY <1>3, <2>1, <2>2, <2>3
<1> HIDE DEF m
<1>6. CASE L >= 2 + d + n
  <2>1. L >= 2 + d
    BY <1>3, <1>6
  <2>2. m = n /\ \A k \in 3 .. 2 + d : x[k] \in 0 .. LenBase - 1
    BY <1>5, <2>1
  <2>3. first = 3 + d /\ first + m - 1 = 2 + d + n /\ first + m = 3 + d + n
    BY <1>3, <1>4, <2>2
  <2>4. whole
    BY <1>2, <1>4, <1>6, <2>1, <2>2, <2>3
  <2> HIDE DEF first, whole
  <2>5. read_frame(x) = {FrameAt(x, n)}
    BY <1>1, <1>2, <2>3, <2>4, Zenon DEF FrameAt
  <2>6. QED BY <1>2, <1>6, <2>5
<1>7. CASE ~(L >= 2 + d + n)
  <2>1. ~whole
    <3> SUFFICES ASSUME whole PROVE FALSE
      OBVIOUS
    <3>1. L >= 2 + d
      BY <1>2, <1>4
    <3>2. m = n
      BY <1>5, <3>1
    <3>3. L >= 3 + d + n - 1
      BY <1>2, <1>4, <3>2
    <3>4. QED BY <1>3, <1>7, <3>3
  <2> HIDE DEF first, whole
  <2>2. read_frame(x) = {}
    BY <1>1, <2>1, Zenon
  <2>3. QED BY <1>2, <1>7, <2>2
<1>8. QED BY <1>6, <1>7

LEMMA ReadsNothing ==
    ASSUME NEW x, ~(Len(x) >= 2)
    PROVE  read_frame(x) = {}
BY DEF read_frame

\* The frame at the front comes off whole.
LEMMA ReadsFrame ==
    ASSUME NEW p \in Msgs, NEW r \in Seq(Nat)
    PROVE  read_frame(enc[p] \o r) = {[op |-> Text, payload |-> p, rest |-> r]}
<1> DEFINE w == enc[p]
           x == w \o r
<1>1. EncodedIs(Text, p, w)
  <2>1. Text \in Nat
    BY DEF Text
  <2>2. w = encode_frame(Text, p)
    BY DEF enc
  <2>3. QED BY <2>1, <2>2, EncodeFrameIs
<1> HIDE DEF w
<1>2. p \in Seq(Nat) /\ Len(p) \in Lens
  BY DEF Msgs
<1>3. PICK n \in Lens, d \in 0 .. 2 : n = Len(p) /\ d = Extra(n)
  BY <1>2, HeaderIs
<1>4. n \in Nat
  BY SizesOk
<1>5. /\ w \in Seq(Nat) /\ Len(w) = 2 + d + n /\ w[1] = Text /\ Headed(w, n)
      /\ \A k \in 1 .. n : w[2 + d + k] = p[k]
  BY <1>1, <1>3 DEF EncodedIs
<1>6. PICK R \in Nat : R = Len(r)
  OBVIOUS
<1>7. /\ x \in Seq(Nat) /\ Len(x) = 2 + d + n + R /\ \A k \in 1 .. 2 + d + n : x[k] = w[k]
  <2>1. x \in Seq(Nat) /\ Len(x) = Len(w) + Len(r)
        /\ \A k \in 1 .. Len(w) + Len(r) : x[k] = IF k <= Len(w) THEN w[k] ELSE r[k - Len(w)]
    BY <1>5, ConcatProperties
  <2> HIDE DEF x
  <2>2. QED BY <1>4, <1>5, <1>6, <2>1
<1>8. SubSeq(x, 3 + d + n, Len(x)) = r
  <2>1. SubSeq(x, Len(w) + 1, Len(x)) = r
    BY <1>5, ConcatCut
  <2>2. Len(w) + 1 = 3 + d + n
    BY <1>4, <1>5
  <2> HIDE DEF x
  <2>3. QED BY <2>1, <2>2, Zenon
<1> HIDE DEF x
<1>9. Headed(x, n) /\ x[1] = Text
  <2>1. x[1] = w[1] /\ x[2] = w[2] /\ (d >= 1 => x[3] = w[3]) /\ (d = 2 => x[4] = w[4])
    <3>1. 1 \in 1 .. 2 + d + n /\ 2 \in 1 .. 2 + d + n /\ (d >= 1 => 3 \in 1 .. 2 + d + n) /\ (d = 2 => 4 \in 1 .. 2 + d + n)
      BY <1>4
    <3>2. QED BY <1>7, <3>1
  <2>2. (d >= 1 => Len(w) >= 3) /\ (d = 2 => Len(w) >= 4)
    BY <1>4, <1>5
  <2>3. /\ n <= Literal => d = 0
        /\ n > Literal /\ n < LenBase => d = 1
        /\ n >= LenBase => d = 2
    BY <1>3, HeaderIs
  <2>4. QED BY <1>5, <2>1, <2>2, <2>3 DEF Headed
<1>10. SubSeq(x, 3 + d, 2 + d + n) = p
  <2> DEFINE s == SubSeq(x, 3 + d, 2 + d + n)
  <2>1. \A k \in 3 + d .. 2 + d + n : x[k] \in Nat
    BY <1>4, <1>7
  <2>2. /\ s \in Seq(Nat) /\ Len(s) = IF 3 + d <= 2 + d + n THEN (2 + d + n) - (3 + d) + 1 ELSE 0
        /\ \A k \in 1 .. (2 + d + n) - (3 + d) + 1 : s[k] = x[(3 + d) + k - 1]
    BY <1>4, <2>1, SubSeqProperties
  <2> HIDE DEF s
  <2>3. Len(s) = n /\ \A k \in 1 .. n : s[k] = x[2 + d + k]
    BY <1>4, <2>2
  <2>4. \A k \in 1 .. n : s[k] = p[k]
    <3>1. \A k \in 1 .. n : 2 + d + k \in 1 .. 2 + d + n
      BY <1>4
    <3>2. QED BY <1>5, <1>7, <2>3, <3>1
  <2>5. s = p
    BY <1>2, <1>3, <2>2, <2>3, <2>4, SeqEqual
  <2>6. QED BY <2>5 DEF s
<1>11. Len(x) >= 2 /\ Len(x) >= 2 + Extra(n) + n
  BY <1>3, <1>4, <1>6, <1>7
<1>12. read_frame(x) = {FrameAt(x, n)}
  BY <1>7, <1>9, <1>11, ReadFrameIs
<1>13. FrameAt(x, n) = [op |-> Text, payload |-> p, rest |-> r]
  BY <1>3, <1>8, <1>9, <1>10, Zenon DEF FrameAt
<1>14. QED BY <1>12, <1>13, Zenon DEF x, w

\* A frame that lacks its end does not.
Cut(x) == \E p \in Msgs, y \in Seq(Nat) : y # << >> /\ x \o y = enc[p]

LEMMA ReadsNone ==
    ASSUME NEW x \in Seq(Nat), x = << >> \/ Cut(x)
    PROVE  read_frame(x) = {}
<1>1. CASE ~(Len(x) >= 2)
  BY <1>1, ReadsNothing
<1>2. CASE Len(x) >= 2
  <2>1. PICK p \in Msgs, y \in Seq(Nat) : y # << >> /\ x \o y = enc[p]
    BY <1>2 DEF Cut
  <2> DEFINE w == enc[p]
  <2>2. EncodedIs(Text, p, w)
    <3>1. Text \in Nat
      BY DEF Text
    <3>2. w = encode_frame(Text, p)
      BY DEF enc
    <3>3. QED BY <3>1, <3>2, EncodeFrameIs
  <2>3. x \o y = w
    BY <2>1, Zenon
  <2> HIDE DEF w
  <2>4. Len(p) \in Lens
    BY DEF Msgs
  <2>5. PICK n \in Lens, d \in 0 .. 2 : n = Len(p) /\ d = Extra(n)
    BY <2>4, HeaderIs
  <2>6. n \in Nat
    BY SizesOk
  <2>7. Len(w) = 2 + d + n /\ Headed(w, n)
    BY <2>2, <2>5 DEF EncodedIs
  <2>8. PICK X \in Nat, Y \in Nat : X = Len(x) /\ Y = Len(y) /\ Y > 0 /\ X >= 2
    BY <1>2, <2>1, EmptySeq
  <2>9. Len(w) = X + Y /\ \A k \in 1 .. X : w[k] = x[k]
    <3> DEFINE z == x \o y
    <3>1. Len(z) = Len(x) + Len(y)
          /\ \A k \in 1 .. Len(x) + Len(y) : z[k] = IF k <= Len(x) THEN x[k] ELSE y[k - Len(x)]
      BY ConcatProperties
    <3>2. z = w
      BY <2>3
    <3> HIDE DEF z
    <3>3. QED BY <2>8, <3>1, <3>2
  <2>10. Headed(x, n)
    <3>1. x[2] = w[2] /\ (X >= 3 => x[3] = w[3]) /\ (X >= 4 => x[4] = w[4])
      BY <2>8, <2>9
    <3>2. (X >= 3 => Len(w) >= 3) /\ (X >= 4 => Len(w) >= 4)
      BY <2>8, <2>9
    <3>3. QED BY <2>7, <2>8, <3>1, <3>2 DEF Headed
  <2>11. ~(Len(x) >= 2 + Extra(n) + n)
    BY <2>5, <2>6, <2>7, <2>8, <2>9
  <2>12. QED BY <1>2, <2>10, <2>11, ReadFrameIs
<1>3. QED BY <1>1, <1>2

-----------------------------------------------------------------------------
(* WebSocket chat: streams *)

LEMMA EncType == enc \in [Msgs -> Seq(Nat)] /\ \A p \in Msgs : enc[p] # << >>
<1>1. ASSUME NEW p \in Msgs PROVE enc[p] \in Seq(Nat) /\ enc[p] # << >>
  <2>1. Text \in Nat
    BY DEF Text
  <2>2. enc[p] = encode_frame(Text, p)
    BY DEF enc
  <2>3. EncodedIs(Text, p, enc[p])
    BY <2>1, <2>2, EncodeFrameIs
  <2>4. Len(p) \in Lens
    BY DEF Msgs
  <2>5. Extra(Len(p)) \in 0 .. 2 /\ Len(p) \in Nat
    BY <2>4, HeaderIs, SizesOk
  <2>6. enc[p] \in Seq(Nat) /\ Len(enc[p]) = 2 + Extra(Len(p)) + Len(p)
    BY <2>3 DEF EncodedIs
  <2>7. Len(enc[p]) # 0
    BY <2>5, <2>6
  <2>8. QED BY <2>6, <2>7
<1>2. enc = [p \in Msgs |-> enc[p]]
  BY DEF enc
<1>3. QED BY <1>1, <1>2, Zenon

\* One turn of a reader.
After(v) ==
    IF v.rest = << >> \/ read_frame(v.rest) = {} THEN v
    ELSE LET f == CHOOSE g \in read_frame(v.rest) : TRUE
         IN [frames |-> Append(v.frames, f.payload), rest |-> f.rest]

LEMMA AfterFrame ==
    ASSUME NEW p \in Msgs, NEW r \in Seq(Nat), NEW fs
    PROVE  After([frames |-> fs, rest |-> enc[p] \o r]) = [frames |-> Append(fs, p), rest |-> r]
<1> DEFINE x == enc[p] \o r
           g == [op |-> Text, payload |-> p, rest |-> r]
           v == [frames |-> fs, rest |-> x]
<1>1. read_frame(x) = {g}
  BY ReadsFrame
<1>2. x # << >>
  <2>1. SUFFICES ASSUME x = << >> PROVE FALSE
    OBVIOUS
  <2>2. read_frame(<< >>) = {}
    <3>1. ~(Len(<< >>) >= 2)
      OBVIOUS
    <3>2. QED BY <3>1, ReadsNothing
  <2> HIDE DEF x, g
  <2>3. QED BY <1>1, <2>1, <2>2
<1>3. v.rest = x /\ v.frames = fs /\ g.payload = p /\ g.rest = r
  BY Zenon
<1> HIDE DEF x, g, v
<1>4. (CHOOSE h \in {g} : TRUE) = g
  OBVIOUS
<1>5. (CHOOSE h \in read_frame(v.rest) : TRUE) = g
  BY <1>1, <1>3, <1>4, Zenon
<1>6. ~(v.rest = << >> \/ read_frame(v.rest) = {})
  BY <1>1, <1>2, <1>3
<1>7. After(v) = [frames |-> Append(v.frames, g.payload), rest |-> g.rest]
  BY <1>5, <1>6, Zenon DEF After
<1>8. QED BY <1>3, <1>7, Zenon DEF v, x

LEMMA AfterCut ==
    ASSUME NEW r \in Seq(Nat), r = << >> \/ Cut(r), NEW fs
    PROVE  After([frames |-> fs, rest |-> r]) = [frames |-> fs, rest |-> r]
<1>1. read_frame(r) = {}
  BY ReadsNone
<1>2. [frames |-> fs, rest |-> r].rest = r
  BY Zenon
<1>3. QED BY <1>1, <1>2, Zenon DEF After

\* A reader takes the frames of a stream off one by one and leaves a frame
\* that lacks its end.
LEMMA DecodesTo ==
    ASSUME NEW got \in Seq(Msgs), NEW part \in Seq(Nat), part = << >> \/ Cut(part),
           MaxFrames \in Nat, Len(got) <= MaxFrames
    PROVE  Decode(Spell(enc, got) \o part) = [frames |-> got, rest |-> part]
<1>1. PICK K \in Nat, M \in Nat : K = Len(got) /\ M = MaxFrames /\ K <= M
  OBVIOUS
<1> DEFINE s == Spell(enc, got) \o part
           from == [frames |-> << >>, rest |-> s]
           From(g) == [m \in 0 .. M |-> IF m = 0 THEN from ELSE After(g[m - 1])]
           step == CHOOSE g : g = From(g)
           post(m) == SubSeq(got, m + 1, K)
           val(m) == [frames |-> SubSeq(got, 1, m), rest |-> Spell(enc, post(m)) \o part]
           a == [m \in 0 .. M |-> IF m <= K THEN val(m) ELSE val(K)]
<1>2. Decode(s) = step[M]
  BY <1>1 DEF Decode, After
<1>3. \A m \in 0 .. K : post(m) \in Seq(Msgs) /\ SubSeq(got, 1, m) \in Seq(Msgs)
  BY <1>1, CutAt
<1>4. post(0) = got /\ SubSeq(got, 1, 0) = << >> /\ post(K) = << >> /\ SubSeq(got, 1, K) = got
  <2>1. post(0) = got /\ SubSeq(got, 1, K) = got
    BY <1>1, SubSeqFull
  <2>2. SubSeq(got, 1, 0) = << >> /\ post(K) = << >>
    BY <1>1, SubSeqEmpty
  <2>3. QED BY <2>1, <2>2
<1>5. val(0) = from
  <2> HIDE DEF post
  <2> QED BY <1>4, Zenon
<1>6. val(K) = [frames |-> got, rest |-> part]
  <2>1. Spell(enc, << >>) = << >> /\ << >> \o part = part
    BY SpellEmpty, ConcatEmptySeq
  <2> HIDE DEF post
  <2>2. QED BY <1>4, <2>1, Zenon
<1>7. After(val(K)) = val(K)
  BY <1>6, AfterCut, Zenon
<1>8. ASSUME NEW m \in 1 .. K PROVE After(val(m - 1)) = val(m)
  <2>1. m - 1 \in 0 .. K /\ m \in 0 .. K /\ (m - 1) + 1 = m /\ m \in 1 .. Len(got) /\ K \in m .. Len(got)
    BY <1>1
  <2> DEFINE p == got[m]
             o == <<p>>
             q == Spell(enc, post(m))
             r == q \o part
  <2>2. p \in Msgs
    BY <2>1
  <2>3. post(m - 1) = o \o post(m)
    <3>1. SubSeq(got, m, K) = <<got[m]>> \o SubSeq(got, m + 1, K)
      BY <2>1, SubSeqRecursiveFirst
    <3>2. QED BY <2>1, <3>1, Zenon
  <2>4. Append(SubSeq(got, 1, m - 1), p) = SubSeq(got, 1, m)
    <3>1. SubSeq(got, 1, m) = SubSeq(got, 1, m - 1) \o <<got[m]>>
      BY <2>1, SubSeqRecursiveSecond
    <3>2. SubSeq(got, 1, m - 1) \in Seq(Msgs)
      BY <1>3, <2>1
    <3>3. Append(SubSeq(got, 1, m - 1), p) = SubSeq(got, 1, m - 1) \o <<p>>
      BY <2>2, <3>2, AppendIsConcat
    <3>4. QED BY <3>1, <3>3, Zenon
  <2>5. post(m) \in Seq(Msgs)
    BY <1>3, <2>1
  <2> HIDE DEF p, post
  <2>6. o \in Seq(Msgs) /\ Spell(enc, o) = enc[p]
    <3>1. \A c \in Msgs : <<c>> \in Seq(Msgs)
      OBVIOUS
    <3>2. Spell(enc, <<p>>) = enc[p]
      BY <2>2, EncType, SpellOne
    <3>3. QED BY <2>2, <3>1, <3>2, Zenon
  <2> HIDE DEF o
  <2>7. SpellJoins(enc, o, post(m))
    BY <2>5, <2>6, EncType, SpellConcat
  <2>8. Spell(enc, post(m - 1)) = enc[p] \o q
    BY <2>3, <2>6, <2>7, Zenon DEF SpellJoins
  <2>9. q \in Seq(Nat) /\ enc[p] \in Seq(Nat)
    BY <2>2, <2>5, EncType, SpellType
  <2> HIDE DEF q
  <2>10. Assoc(enc[p], q, part)
    BY <2>9, AssocHolds
  <2>11. Spell(enc, post(m - 1)) \o part = enc[p] \o r
    BY <2>8, <2>10, Zenon DEF Assoc
  <2>12. r \in Seq(Nat)
    BY <2>9, ConcatProperties
  <2>13. val(m - 1) = [frames |-> SubSeq(got, 1, m - 1), rest |-> enc[p] \o r]
    BY <2>11, Zenon
  <2>14. val(m) = [frames |-> SubSeq(got, 1, m), rest |-> r]
    BY Zenon DEF q
  <2> HIDE DEF r, val
  <2>15. After(val(m - 1)) = [frames |-> Append(SubSeq(got, 1, m - 1), p), rest |-> r]
    BY <2>2, <2>12, <2>13, AfterFrame, Zenon
  <2>16. QED BY <2>4, <2>14, <2>15, Zenon
<1> HIDE DEF val, from, s
<1>9. \A g : From(g)[0] = from /\ \A m \in 1 .. M : From(g)[m] = After(g[m - 1])
  OBVIOUS
<1>10. ASSUME NEW m \in 0 .. M PROVE a[m] = From(a)[m]
  <2>1. CASE m = 0
    BY <1>1, <1>5, <2>1
  <2>2. CASE m \in 1 .. K
    <3>1. a[m] = val(m) /\ a[m - 1] = val(m - 1) /\ m \in 1 .. M
      BY <1>1, <2>2
    <3> HIDE DEF a
    <3>2. From(a)[m] = After(a[m - 1])
      BY <1>9, <3>1
    <3> HIDE DEF From
    <3>3. After(val(m - 1)) = val(m)
      BY <1>8, <2>2
    <3>4. QED BY <3>1, <3>2, <3>3, Zenon
  <2>3. CASE m > K
    <3>1. a[m] = val(K) /\ a[m - 1] = val(K) /\ m \in 1 .. M
      <4>1. m - 1 \in 0 .. M /\ m - 1 >= K /\ ~(m <= K)
        BY <1>1, <2>3
      <4>2. a[m - 1] = IF m - 1 <= K THEN val(m - 1) ELSE val(K)
        BY <4>1
      <4>3. a[m - 1] = val(K)
        <5>1. CASE m - 1 = K
          BY <4>2, <5>1
        <5>2. CASE m - 1 # K
          <6>1. ~(m - 1 <= K)
            BY <4>1, <5>2
          <6>2. QED BY <4>2, <6>1
        <5>3. QED BY <5>1, <5>2
      <4>4. QED BY <1>1, <2>3, <4>1, <4>3
    <3> HIDE DEF a
    <3>2. From(a)[m] = After(a[m - 1])
      BY <1>9, <3>1
    <3> HIDE DEF From
    <3>3. QED BY <1>7, <3>1, <3>2, Zenon
  <2>4. QED BY <1>1, <2>1, <2>2, <2>3
<1>11. a = From(a)
  <2>1. a = [m \in 0 .. M |-> a[m]]
    BY Zenon
  <2>2. From(a) = [m \in 0 .. M |-> From(a)[m]]
    <3> HIDE DEF a
    <3> QED OBVIOUS
  <2> HIDE DEF From, a
  <2>3. [m \in 0 .. M |-> a[m]] = [m \in 0 .. M |-> From(a)[m]]
    BY <1>10, Zenon
  <2>4. QED BY <2>1, <2>2, <2>3, Zenon
<1>12. step = From(step)
  <2> HIDE DEF From, a
  <2> QED BY <1>11, Zenon
<1> HIDE DEF step
<1>13. /\ step[0] = from /\ \A m \in 1 .. M : step[m] = After(step[m - 1])
       /\ a[0] = from /\ \A m \in 1 .. M : a[m] = After(a[m - 1])
  <2> HIDE DEF From, a
  <2> QED BY <1>9, <1>11, <1>12, Zenon
<1>14. a[M] = val(K)
  BY <1>1
<1> HIDE DEF a, From
<1> DEFINE Ok == {m \in 0 .. M : step[m] = a[m]}
<1>15. 0 \in Ok
  BY <1>13
<1>16. ASSUME NEW n \in 1 .. M, n - 1 \in Ok PROVE n \in Ok
  BY <1>13, <1>16
<1>17. \A m \in 0 .. M : m \in Ok
  <2> HIDE DEF Ok
  <2> QED BY <1>15, <1>16, UpTo
<1>18. step[M] = a[M]
  BY <1>17
<1>19. QED BY <1>2, <1>6, <1>14, <1>18, Zenon DEF s

\* x is the answer, the texts got of sd, at the places at, and a part of one more.
Carries(x, sd, got, at, part) ==
    /\ got \in Seq(Msgs) /\ part \in Seq(Nat) /\ (part = << >> \/ Cut(part))
    /\ x = Upgrade \o (Spell(enc, got) \o part)
    /\ at \in [1 .. Len(got) -> 1 .. Len(sd)]
    /\ \A j, k \in 1 .. Len(got) : j < k => at[j] < at[k]
    /\ \A k \in 1 .. Len(got) : got[k] = sd[at[k]]

\* A stream that may end in the middle of a frame, and one that is complete
\* once the bytes in owed, the end of the last text, are written.
Torn(x, sd) == \E got, at, part : Carries(x, sd, got, at, part)
Pays(sd, got, at, part, owed) ==
    /\ \A b \in owed : part \o b = enc[sd[Len(sd)]] /\ \A k \in 1 .. Len(got) : at[k] < Len(sd)
    /\ owed = {} => part = << >>
Sound(x, sd, owed) == \E got, at, part : Carries(x, sd, got, at, part) /\ Pays(sd, got, at, part, owed)

LEMMA SoundIsTorn == \A x, sd, owed : Sound(x, sd, owed) => Torn(x, sd)
BY Zenon DEF Sound, Torn

LEMMA UpgradeIs == Upgrade \in Seq(Nat) /\ Len(Upgrade) = 1 /\ Upgrade # << >>
<1>1. Upgrade \in Seq(Nat) /\ Len(Upgrade) = 1
  BY DEF Upgrade
<1>2. Len(<< >>) = 0
  OBVIOUS
<1>3. Upgrade # << >>
  <2>1. Len(Upgrade) # Len(<< >>)
    BY <1>1, <1>2
  <2>2. QED BY <2>1, Zenon
<1>4. QED BY <1>1, <1>3

LEMMA JustUpgraded ==
    ASSUME NEW sd \in Seq(Msgs)
    PROVE  Sound(Upgrade, sd, {})
<1> DEFINE e == << >>
<1>1. e \in Seq(Msgs) /\ e \in Seq(Nat) /\ Len(e) = 0
  OBVIOUS
<1>2. Upgrade \o (Spell(enc, e) \o e) = Upgrade
  <2>1. Spell(enc, e) = e
    BY SpellEmpty
  <2>2. e \o e = e /\ Upgrade \o e = Upgrade
    BY <1>1, UpgradeIs, ConcatEmptySeq
  <2> HIDE DEF e
  <2>3. QED BY <2>1, <2>2, Zenon
<1>3. e \in [1 .. Len(e) -> 1 .. Len(sd)]
  OBVIOUS
<1>4. 1 .. Len(e) = {}
  OBVIOUS
<1>5. e = << >>
  OBVIOUS
<1> HIDE DEF e
<1>6. Carries(Upgrade, sd, e, e, e)
  BY <1>1, <1>2, <1>3, <1>4, <1>5 DEF Carries
<1>7. Pays(sd, e, e, e, {})
  BY <1>5 DEF Pays
<1>8. QED BY <1>6, <1>7, Zenon DEF Sound

\* A new text leaves streams as they are and may be owed to complete ones.
LEMMA CarriesMore ==
    ASSUME NEW sd \in Seq(Msgs), NEW p \in Msgs, NEW x, NEW got, NEW at, NEW part,
           Carries(x, sd, got, at, part)
    PROVE  Carries(x, Append(sd, p), got, at, part) /\ \A k \in 1 .. Len(got) : at[k] < Len(Append(sd, p))
<1>1. PICK N \in Nat, K \in Nat : N = Len(sd) /\ K = Len(got)
  BY DEF Carries
<1> DEFINE t == Append(sd, p)
<1>2. Len(t) = N + 1 /\ \A i \in 1 .. N : t[i] = sd[i]
  BY <1>1, AppendProperties
<1> HIDE DEF t
<1>3. at \in [1 .. K -> 1 .. N] /\ \A k \in 1 .. K : got[k] = sd[at[k]]
  BY <1>1 DEF Carries
<1>4. at \in [1 .. K -> 1 .. N + 1] /\ \A k \in 1 .. K : at[k] < N + 1 /\ got[k] = t[at[k]]
  BY <1>2, <1>3
<1>5. Carries(x, t, got, at, part)
  BY <1>1, <1>2, <1>4 DEF Carries
<1>6. QED BY <1>1, <1>2, <1>4, <1>5 DEF t

LEMMA TornMore ==
    ASSUME NEW sd \in Seq(Msgs), NEW p \in Msgs, NEW x, Torn(x, sd)
    PROVE  Torn(x, Append(sd, p))
<1>1. PICK got, at, part : Carries(x, sd, got, at, part)
  BY Zenon DEF Torn
<1>2. QED BY <1>1, CarriesMore, Zenon DEF Torn

LEMMA SoundMore ==
    ASSUME NEW sd \in Seq(Msgs), NEW p \in Msgs, NEW x, Sound(x, sd, {}), NEW owed \in SUBSET {enc[p]}
    PROVE  Sound(x, Append(sd, p), owed)
<1>1. PICK got, at, part : Carries(x, sd, got, at, part) /\ Pays(sd, got, at, part, {})
  BY Zenon DEF Sound
<1>2. part = << >>
  BY <1>1, Zenon DEF Pays
<1>3. Carries(x, Append(sd, p), got, at, part) /\ \A k \in 1 .. Len(got) : at[k] < Len(Append(sd, p))
  BY <1>1, CarriesMore, Zenon
<1> DEFINE t == Append(sd, p)
<1>4. t[Len(t)] = p
  BY AppendProperties
<1>5. enc[p] \in Seq(Nat)
  BY EncType
<1>6. part \o enc[p] = enc[p]
  <2>1. << >> \o enc[p] = enc[p]
    BY <1>5, ConcatEmptySeq
  <2>2. QED BY <1>2, <2>1, Zenon
<1> HIDE DEF t
<1>7. ASSUME NEW b \in owed PROVE part \o b = enc[t[Len(t)]]
  <2>1. b = enc[p]
    BY Zenon
  <2>2. QED BY <1>4, <1>6, <2>1, Zenon
<1>8. Pays(t, got, at, part, owed)
  BY <1>2, <1>3, <1>7, Zenon DEF Pays, t
<1>9. QED BY <1>3, <1>8, Zenon DEF Sound, t

\* Writing the first bytes of what is owed.
LEMMA SoundPart ==
    ASSUME NEW sd \in Seq(Msgs), sd # << >>, NEW x, NEW a \in Seq(Nat), NEW b \in Seq(Nat), b # << >>,
           Sound(x, sd, {a \o b})
    PROVE  Sound(x \o a, sd, {b})
<1>1. PICK got, at, part : Carries(x, sd, got, at, part) /\ Pays(sd, got, at, part, {a \o b})
  BY Zenon DEF Sound
<1> DEFINE last == sd[Len(sd)]
           q == Spell(enc, got)
<1>2. last \in Msgs
  <2>1. Len(sd) \in 1 .. Len(sd)
    BY EmptySeq
  <2>2. QED BY <2>1
<1>3. got \in Seq(Msgs) /\ part \in Seq(Nat) /\ x = Upgrade \o (q \o part)
  BY <1>1, Zenon DEF Carries
<1>4. q \in Seq(Nat)
  BY <1>3, EncType, SpellType
<1>5. part \o (a \o b) = enc[last] /\ \A k \in 1 .. Len(got) : at[k] < Len(sd)
  BY <1>1, Zenon DEF Pays
<1> HIDE DEF last, q
<1>6. part \o a \in Seq(Nat) /\ q \o part \in Seq(Nat)
  BY <1>3, <1>4, ConcatProperties
<1>7. Assoc(part, a, b) /\ Assoc(q, part, a) /\ Assoc(Upgrade, q \o part, a)
  BY <1>3, <1>4, <1>6, UpgradeIs, AssocHolds
<1>8. (part \o a) \o b = enc[last]
  BY <1>5, <1>7, Zenon DEF Assoc
<1>9. Cut(part \o a)
  BY <1>2, <1>8, Zenon DEF Cut
<1>10. x \o a = Upgrade \o (q \o (part \o a))
  BY <1>3, <1>7, Zenon DEF Assoc
<1>11. Carries(x \o a, sd, got, at, part \o a)
  BY <1>1, <1>6, <1>9, <1>10, Zenon DEF Carries, q
<1>12. {b} # {}
  OBVIOUS
<1>13. Pays(sd, got, at, part \o a, {b})
  BY <1>5, <1>8, <1>12, Zenon DEF Pays, last
<1>14. QED BY <1>11, <1>13, Zenon DEF Sound

\* Writing all of it.
LEMMA SoundAll ==
    ASSUME NEW sd \in Seq(Msgs), sd # << >>, NEW x, NEW b \in Seq(Nat), Sound(x, sd, {b})
    PROVE  Sound(x \o b, sd, {})
<1>1. PICK got, at, part : Carries(x, sd, got, at, part) /\ Pays(sd, got, at, part, {b})
  BY Zenon DEF Sound
<1>2. PICK N \in Nat : N = Len(sd) /\ N \in 1 .. N
  BY EmptySeq
<1> DEFINE last == sd[N]
           q == Spell(enc, got)
           o == <<last>>
           more == got \o o
<1>3. last \in Msgs
  BY <1>2
<1>4. got \in Seq(Msgs) /\ part \in Seq(Nat) /\ x = Upgrade \o (q \o part)
  BY <1>1, Zenon DEF Carries
<1>5. q \in Seq(Nat)
  BY <1>4, EncType, SpellType
<1>6. part \o b = enc[last] /\ \A k \in 1 .. Len(got) : at[k] < N
  BY <1>1, <1>2, Zenon DEF Pays
<1>7. PICK K \in Nat : K = Len(got)
  BY <1>4
<1>8. o \in Seq(Msgs) /\ Len(o) = 1 /\ o[1] = last
  <2> HIDE DEF last
  <2> QED BY <1>3
<1>9. Spell(enc, o) = enc[last]
  <2> HIDE DEF last
  <2> QED BY <1>3, EncType, SpellOne
<1> HIDE DEF last, o
<1>10. more \in Seq(Msgs) /\ Len(more) = K + 1 /\ \A k \in 1 .. K + 1 : more[k] = IF k <= K THEN got[k] ELSE last
  <2>1. more \in Seq(Msgs) /\ Len(more) = Len(got) + Len(o)
        /\ \A k \in 1 .. Len(got) + Len(o) : more[k] = IF k <= Len(got) THEN got[k] ELSE o[k - Len(got)]
    BY <1>4, <1>8, ConcatProperties
  <2> HIDE DEF more
  <2>2. Len(more) = K + 1 /\ \A k \in 1 .. K + 1 : more[k] = IF k <= K THEN got[k] ELSE o[k - K]
    BY <1>7, <1>8, <2>1
  <2>3. ASSUME NEW k \in 1 .. K + 1 PROVE more[k] = IF k <= K THEN got[k] ELSE last
    <3>1. CASE k <= K
      BY <2>2, <3>1
    <3>2. CASE ~(k <= K)
      <4>1. k - K = 1
        BY <3>2
      <4>2. QED BY <1>8, <2>2, <3>2, <4>1
    <3>3. QED BY <3>1, <3>2
  <2>4. QED BY <2>1, <2>2, <2>3
<1>11. SpellJoins(enc, got, o)
  BY <1>4, <1>8, EncType, SpellConcat
<1>12. Spell(enc, more) = q \o enc[last]
  BY <1>9, <1>11, Zenon DEF SpellJoins
<1> HIDE DEF more, q
<1>13. q \o part \in Seq(Nat) /\ enc[last] \in Seq(Nat)
  BY <1>3, <1>4, <1>5, EncType, ConcatProperties
<1>14. Assoc(Upgrade, q \o part, b) /\ Assoc(q, part, b)
  BY <1>4, <1>5, <1>13, UpgradeIs, AssocHolds
<1>15. Spell(enc, more) \o << >> = q \o enc[last]
  <2>1. q \o enc[last] \in Seq(Nat)
    BY <1>5, <1>13, ConcatProperties
  <2>2. (q \o enc[last]) \o << >> = q \o enc[last]
    BY <2>1, ConcatEmptySeq
  <2>3. QED BY <1>12, <2>2, Zenon
<1>16. x \o b = Upgrade \o (Spell(enc, more) \o << >>)
  BY <1>4, <1>6, <1>14, <1>15, Zenon DEF Assoc
<1> DEFINE to == [k \in 1 .. K + 1 |-> IF k <= K THEN at[k] ELSE N]
<1>17. at \in [1 .. K -> 1 .. N] /\ \A j, k \in 1 .. K : j < k => at[j] < at[k]
  BY <1>1, <1>2, <1>7 DEF Carries
<1>18. to \in [1 .. K + 1 -> 1 .. N]
  BY <1>2, <1>17
<1>19. \A k \in 1 .. K + 1 : to[k] = IF k <= K THEN at[k] ELSE N
  OBVIOUS
<1> HIDE DEF to
<1>20. \A j, k \in 1 .. K + 1 : j < k => to[j] < to[k]
  BY <1>6, <1>7, <1>17, <1>19
<1>21. \A k \in 1 .. K + 1 : more[k] = sd[to[k]]
  <2>1. \A k \in 1 .. K : got[k] = sd[at[k]]
    BY <1>1, <1>7 DEF Carries
  <2>2. ASSUME NEW k \in 1 .. K + 1 PROVE more[k] = sd[to[k]]
    <3>1. CASE k <= K
      <4>1. k \in 1 .. K
        BY <3>1
      <4>2. to[k] = at[k] /\ more[k] = got[k]
        BY <1>10, <1>19, <3>1
      <4>3. QED BY <2>1, <4>1, <4>2, Zenon
    <3>2. CASE ~(k <= K)
      <4>1. to[k] = N /\ more[k] = last
        BY <1>10, <1>19, <3>2
      <4>2. QED BY <4>1, Zenon DEF last
    <3>3. QED BY <3>1, <3>2
  <2>3. QED BY <2>2
<1>22. << >> \in Seq(Nat)
  OBVIOUS
<1>23. Carries(x \o b, sd, more, to, << >>)
  BY <1>2, <1>10, <1>16, <1>18, <1>20, <1>21, <1>22, Zenon DEF Carries
<1>24. Pays(sd, more, to, << >>, {})
  BY Zenon DEF Pays
<1>25. QED BY <1>23, <1>24, Zenon DEF Sound

\* What a client makes of its stream.
Decodes(x, sd, part) ==
    /\ x # << >> /\ Head(x) = Head(Upgrade) /\ Decode(Tail(x)).rest = part
    /\ \E at \in [DOMAIN Decode(Tail(x)).frames -> DOMAIN sd] :
         /\ \A j, k \in DOMAIN at : j < k => at[j] < at[k]
         /\ \A k \in DOMAIN at : Decode(Tail(x)).frames[k] = sd[at[k]]

\* An increasing function into 1 .. N has no more than N arguments.
LEMMA NoMoreThan ==
    ASSUME NEW K \in Nat, NEW N \in Nat, NEW at \in [1 .. K -> 1 .. N],
           \A j, k \in 1 .. K : j < k => at[j] < at[k]
    PROVE  K <= N
<1> DEFINE Ok == {k \in 0 .. K : k = 0 \/ at[k] >= k}
<1>1. 0 \in Ok
  OBVIOUS
<1>2. ASSUME NEW n \in 1 .. K, n - 1 \in Ok PROVE n \in Ok
  <2>1. at[n] \in 1 .. N /\ n \in 0 .. K
    OBVIOUS
  <2>2. CASE n = 1
    BY <2>1, <2>2
  <2>3. CASE n # 1
    <3>1. n - 1 \in 1 .. K /\ at[n - 1] \in 1 .. N /\ at[n - 1] < at[n] /\ at[n - 1] >= n - 1
      BY <1>2, <2>3
    <3>2. QED BY <2>1, <3>1
  <2>4. QED BY <2>2, <2>3
<1>3. \A k \in 0 .. K : k \in Ok
  <2> HIDE DEF Ok
  <2> QED BY <1>1, <1>2, UpTo
<1>4. CASE K = 0
  BY <1>4
<1>5. CASE K # 0
  <2>1. K \in 1 .. K /\ K \in 0 .. K /\ at[K] \in 1 .. N
    BY <1>5
  <2>2. at[K] >= K
    BY <1>3, <1>5, <2>1
  <2>3. QED BY <2>1, <2>2
<1>6. QED BY <1>4, <1>5

LEMMA CarriesDecodes ==
    ASSUME NEW sd \in Seq(Msgs), Len(sd) <= MaxFrames, NEW x, NEW got, NEW at, NEW part,
           Carries(x, sd, got, at, part)
    PROVE  Decodes(x, sd, part)
<1>1. PICK N \in Nat, K \in Nat : N = Len(sd) /\ K = Len(got)
  BY DEF Carries
<1> DEFINE y == Spell(enc, got) \o part
<1>2. /\ got \in Seq(Msgs) /\ part \in Seq(Nat) /\ (part = << >> \/ Cut(part)) /\ x = Upgrade \o y
      /\ at \in [1 .. K -> 1 .. N] /\ \A j, k \in 1 .. K : j < k => at[j] < at[k]
      /\ \A k \in 1 .. K : got[k] = sd[at[k]]
  BY <1>1, Zenon DEF Carries
<1>3. y \in Seq(Nat)
  BY <1>2, EncType, SpellType, ConcatProperties
<1>4. MaxFrames \in Nat /\ K <= MaxFrames
  <2>1. K <= N
    BY <1>2, NoMoreThan
  <2>2. MaxFrames \in Nat
    BY WsAssumption
  <2>3. QED BY <1>1, <2>1, <2>2
<1>5. Decode(y) = [frames |-> got, rest |-> part]
  BY <1>1, <1>2, <1>4, DecodesTo
<1> HIDE DEF y
<1>6. x # << >> /\ Head(x) = Head(Upgrade) /\ Tail(x) = y
  <2> DEFINE u == <<50>>
             z == u \o y
  <2>1. u \in Seq(Nat) /\ Len(u) = 1 /\ u[1] = 50 /\ Head(u) = 50
    OBVIOUS
  <2>2. x = z /\ Head(Upgrade) = 50
    BY <1>2, <2>1, Zenon DEF Upgrade
  <2>3. z \in Seq(Nat) /\ Len(z) = 1 + Len(y) /\ z[1] = 50
    <3> HIDE DEF u
    <3>1. z \in Seq(Nat) /\ Len(z) = Len(u) + Len(y)
          /\ \A k \in 1 .. Len(u) + Len(y) : z[k] = IF k <= Len(u) THEN u[k] ELSE y[k - Len(u)]
      <4>1. u \in Seq(Nat)
        BY <2>1
      <4>2. QED BY <1>3, <4>1, ConcatProperties
    <3> HIDE DEF z
    <3>2. Len(y) \in Nat
      BY <1>3
    <3>3. 1 \in 1 .. Len(u) + Len(y) /\ 1 <= Len(u)
      BY <2>1, <3>2
    <3>4. QED BY <2>1, <3>1, <3>3
  <2>4. SubSeq(z, 2, Len(z)) = y
    <3> HIDE DEF u
    <3>1. SubSeq(z, Len(u) + 1, Len(z)) = y
      BY <1>3, <2>1, ConcatCut
    <3>2. Len(u) + 1 = 2
      BY <2>1
    <3> HIDE DEF z
    <3>3. QED BY <3>1, <3>2, Zenon
  <2> HIDE DEF u, z
  <2>5. z # << >>
    BY <1>3, <2>3
  <2>6. Head(z) = z[1] /\ Tail(z) = SubSeq(z, 2, Len(z))
    BY <2>3, <2>5, HeadTailProperties, TailIsSubSeq
  <2>7. QED BY <2>2, <2>3, <2>4, <2>5, <2>6, Zenon
<1>7. Decode(Tail(x)).frames = got /\ Decode(Tail(x)).rest = part
  <2>1. [frames |-> got, rest |-> part].frames = got /\ [frames |-> got, rest |-> part].rest = part
    BY Zenon
  <2>2. QED BY <1>5, <1>6, <2>1, Zenon
<1>8. DOMAIN got = 1 .. K /\ DOMAIN sd = 1 .. N /\ DOMAIN at = 1 .. K
  BY <1>1, <1>2
<1>9. \E f \in [DOMAIN got -> DOMAIN sd] :
         /\ \A j, k \in DOMAIN f : j < k => f[j] < f[k]
         /\ \A k \in DOMAIN f : got[k] = sd[f[k]]
  BY <1>2, <1>8, Zenon
<1>10. QED BY <1>6, <1>7, <1>9, Zenon DEF Decodes

-----------------------------------------------------------------------------
(* WebSocket chat: threads *)

Writes == [to : Clients, bytes : Seq(Nat)]

\* The bytes that the writes in ts hold for e.
OwedIn(ts, e) == {ts[k].bytes : k \in {j \in 1 .. Len(ts) : ts[j].to = e}}

\* Writes of a broadcast: one for each client at most, and none is done.
Debt(ts, S) ==
    /\ \A k \in 1 .. Len(ts) : ts[k].to \in S /\ ts[k].bytes # << >>
    /\ \A j, k \in 1 .. Len(ts) : j # k => ts[j].to # ts[k].to

LEMMA WriteParts == \A w \in Writes : w.to \in Clients /\ w.bytes \in Seq(Nat)
BY DEF Writes

LEMMA NothingOwed == \A e : OwedIn(<< >>, e) = {} /\ \A S : Debt(<< >>, S)
<1>1. 1 .. Len(<< >>) = {}
  OBVIOUS
<1>2. QED BY <1>1 DEF OwedIn, Debt

LEMMA OwesOthers ==
    ASSUME NEW ts, NEW S, Debt(ts, S), NEW e, e \notin S
    PROVE  OwedIn(ts, e) = {}
BY DEF OwedIn, Debt

LEMMA OwesFirst ==
    ASSUME NEW ts \in Seq(Writes), ts # << >>, NEW S, Debt(ts, S)
    PROVE  OwedIn(ts, ts[1].to) = {ts[1].bytes}
<1>1. 1 \in 1 .. Len(ts)
  BY EmptySeq
<1>2. {j \in 1 .. Len(ts) : ts[j].to = ts[1].to} = {1}
  BY <1>1 DEF Debt
<1>3. QED BY <1>2, Zenon DEF OwedIn

\* The first write is done, or given up.
LEMMA OwedTail ==
    ASSUME NEW ts \in Seq(Writes), ts # << >>, NEW S, Debt(ts, S)
    PROVE  /\ OwedIn(Tail(ts), ts[1].to) = {}
           /\ \A e : e # ts[1].to => OwedIn(Tail(ts), e) = OwedIn(ts, e)
           /\ Debt(Tail(ts), S \ {ts[1].to}) /\ Debt(Tail(ts), S)
<1>1. PICK L \in Nat : L = Len(ts) /\ L >= 1
  BY EmptySeq
<1> DEFINE us == Tail(ts)
<1>2. Len(us) = L - 1 /\ \A k \in 1 .. L - 1 : us[k] = ts[k + 1]
  BY <1>1, HeadTailProperties
<1> HIDE DEF us
<1>3. /\ \A k \in 1 .. L : ts[k].to \in S /\ ts[k].bytes # << >>
      /\ \A j, k \in 1 .. L : j # k => ts[j].to # ts[k].to
  BY <1>1 DEF Debt
<1>4. \A k \in 1 .. L - 1 : k + 1 \in 1 .. L /\ k + 1 # 1 /\ 1 \in 1 .. L
  BY <1>1
<1>5. \A k \in 1 .. L - 1 : us[k].to # ts[1].to
  BY <1>2, <1>3, <1>4
<1>6. OwedIn(us, ts[1].to) = {}
  BY <1>2, <1>5 DEF OwedIn
<1>7. ASSUME NEW e, e # ts[1].to PROVE OwedIn(us, e) = OwedIn(ts, e)
  <2>1. ASSUME NEW b \in OwedIn(us, e) PROVE b \in OwedIn(ts, e)
    <3>1. PICK k \in 1 .. L - 1 : us[k].to = e /\ b = us[k].bytes
      BY <1>2 DEF OwedIn
    <3>2. k + 1 \in 1 .. L /\ ts[k + 1].to = e /\ b = ts[k + 1].bytes
      BY <1>2, <1>4, <3>1
    <3>3. QED BY <1>1, <3>2 DEF OwedIn
  <2>2. ASSUME NEW b \in OwedIn(ts, e) PROVE b \in OwedIn(us, e)
    <3>1. PICK k \in 1 .. L : ts[k].to = e /\ b = ts[k].bytes
      BY <1>1 DEF OwedIn
    <3>2. k - 1 \in 1 .. L - 1 /\ (k - 1) + 1 = k
      BY <1>7, <3>1
    <3>3. us[k - 1] = ts[k]
      BY <1>2, <3>2
    <3>4. QED BY <1>2, <3>1, <3>2, <3>3 DEF OwedIn
  <2>3. QED BY <2>1, <2>2
<1>8. \A j, k \in 1 .. L - 1 : j # k => us[j].to # us[k].to
  <2> SUFFICES ASSUME NEW j \in 1 .. L - 1, NEW k \in 1 .. L - 1, j # k PROVE us[j].to # us[k].to
    OBVIOUS
  <2>1. j + 1 \in 1 .. L /\ k + 1 \in 1 .. L /\ j + 1 # k + 1
    BY <1>1
  <2>2. QED BY <1>2, <1>3, <2>1
<1>9. Debt(us, S \ {ts[1].to}) /\ Debt(us, S)
  BY <1>2, <1>3, <1>4, <1>5, <1>8 DEF Debt
<1>10. QED BY <1>6, <1>7, <1>9 DEF us

\* Of the first write some bytes are left.
LEMMA OwedRest ==
    ASSUME NEW ts \in Seq(Writes), ts # << >>, NEW S, Debt(ts, S),
           NEW w \in Writes, w.to = ts[1].to, w.bytes # << >>
    PROVE  LET us == <<w>> \o Tail(ts)
           IN /\ us \in Seq(Writes) /\ Debt(us, S) /\ OwedIn(us, w.to) = {w.bytes}
              /\ \A e : e # w.to => OwedIn(us, e) = OwedIn(ts, e)
<1>1. PICK L \in Nat : L = Len(ts) /\ L >= 1
  BY EmptySeq
<1> DEFINE us == <<w>> \o Tail(ts)
<1>2. us \in Seq(Writes) /\ Len(us) = L /\ us[1] = w /\ \A k \in 2 .. L : us[k] = ts[k]
  <2> DEFINE o == <<w>>
             r == Tail(ts)
             z == o \o r
  <2>1. o \in Seq(Writes) /\ Len(o) = 1 /\ o[1] = w
    OBVIOUS
  <2>2. r \in Seq(Writes) /\ Len(r) = L - 1 /\ \A k \in 1 .. L - 1 : r[k] = ts[k + 1]
    BY <1>1, HeadTailProperties
  <2> HIDE DEF o, r
  <2>3. z \in Seq(Writes) /\ Len(z) = Len(o) + Len(r)
        /\ \A k \in 1 .. Len(o) + Len(r) : z[k] = IF k <= Len(o) THEN o[k] ELSE r[k - Len(o)]
    BY <2>1, <2>2, ConcatProperties
  <2> HIDE DEF z
  <2>4. Len(z) = L /\ \A k \in 1 .. L : z[k] = IF k <= 1 THEN o[k] ELSE r[k - 1]
    BY <1>1, <2>1, <2>2, <2>3
  <2>5. z[1] = w
    BY <1>1, <2>1, <2>4
  <2>6. ASSUME NEW k \in 2 .. L PROVE z[k] = ts[k]
    <3>1. k - 1 \in 1 .. L - 1 /\ (k - 1) + 1 = k /\ ~(k <= 1) /\ k \in 1 .. L
      OBVIOUS
    <3>2. QED BY <2>2, <2>4, <3>1
  <2>7. QED BY <2>3, <2>4, <2>5, <2>6 DEF z, o, r
<1> HIDE DEF us
<1>3. /\ \A k \in 1 .. L : ts[k].to \in S /\ ts[k].bytes # << >>
      /\ \A j, k \in 1 .. L : j # k => ts[j].to # ts[k].to
  BY <1>1 DEF Debt
<1>4. ASSUME NEW k \in 1 .. L PROVE us[k].to = ts[k].to /\ us[k].bytes # << >> /\ (k # 1 => us[k] = ts[k])
  <2>1. CASE k = 1
    BY <1>2, <2>1
  <2>2. CASE k # 1
    <3>1. k \in 2 .. L
      BY <2>2
    <3>2. QED BY <1>2, <1>3, <3>1
  <2>3. QED BY <2>1, <2>2
<1>5. Debt(us, S)
  BY <1>2, <1>3, <1>4 DEF Debt
<1>6. OwedIn(us, w.to) = {w.bytes}
  <2>1. us # << >>
    BY <1>1, <1>2
  <2>2. QED BY <1>2, <1>5, <2>1, OwesFirst
<1>7. ASSUME NEW e, e # w.to PROVE OwedIn(us, e) = OwedIn(ts, e)
  <2>1. \A k \in 1 .. L : us[k].to = e => k # 1
    BY <1>2, <1>7
  <2>2. \A k \in 1 .. L : ts[k].to = e => k # 1
    BY <1>7
  <2>3. {j \in 1 .. L : us[j].to = e} = {j \in 1 .. L : ts[j].to = e}
    BY <1>4
  <2>4. \A k \in {j \in 1 .. L : ts[j].to = e} : us[k] = ts[k]
    BY <1>4, <2>2
  <2>5. {us[k].bytes : k \in {j \in 1 .. L : us[j].to = e}} = {ts[k].bytes : k \in {j \in 1 .. L : ts[j].to = e}}
    BY <2>3, <2>4
  <2>6. QED BY <1>1, <1>2, <2>5, Zenon DEF OwedIn
<1>8. QED BY <1>2, <1>5, <1>6, <1>7, Zenon DEF us

-----------------------------------------------------------------------------
Stages == {"handshake", "upgrade", "serving", "leaving", "gone", "dead"}

ChatType ==
    /\ clients \subseteq Clients /\ IsFiniteSet(clients) /\ lock \in Clients \cup {"free"}
    /\ stage \in [Clients -> Stages] /\ todo \in [Clients -> Seq(Writes)] /\ out \in [Clients -> Seq(Nat)]
    /\ said \in Seq(Msgs) /\ count \in Nat /\ Len(said) <= count /\ count <= MaxFrames
    /\ pinged \subseteq Clients

\* Who holds the mutex writes to registered clients; anyone else has nothing to
\* write but the answer or a Pong, to its own socket.
ThreadOf(c) ==
    /\ lock = c => stage[c] = "serving" /\ said # << >> /\ Debt(todo[c], clients \ {c})
    /\ lock # c /\ todo[c] # << >> =>
         /\ Len(todo[c]) = 1 /\ todo[c][1].to = c
         /\ \/ stage[c] = "upgrade" /\ todo[c][1].bytes = Upgrade /\ out[c] = << >>
            \/ stage[c] = "serving" /\ c \in pinged
    /\ stage[c] \in {"handshake", "upgrade"} => c \notin clients
    /\ stage[c] = "handshake" => out[c] = << >>
    /\ stage[c] \in {"handshake", "leaving", "gone", "dead"} => todo[c] = << >>
    /\ stage[c] = "upgrade" /\ todo[c] = << >> => out[c] = Upgrade
Threads == \A c \in Clients : ThreadOf(c)

\* What the broadcast that is under way still has to write to e.
Owed(e) == IF lock = "free" THEN {} ELSE OwedIn(todo[lock], e)

\* The stream of a registered client is complete once that is written; of one
\* that has been dropped it may end anywhere.
StreamOf(e) ==
    /\ e \in clients => Sound(out[e], said, Owed(e))
    /\ out[e] # << >> => Torn(out[e], said)
Streams == \A e \in Clients \ pinged : StreamOf(e)

ChatInd == ChatType /\ Threads /\ Streams

-----------------------------------------------------------------------------
LEMMA FreeIsNobody == \A c \in Clients : c # "free"
BY WsAssumption

LEMMA ChatStarts == ChatInit => ChatInd
<1> SUFFICES ASSUME ChatInit PROVE ChatInd
  OBVIOUS
<1>1. << >> \in Seq(Writes) /\ << >> \in Seq(Nat) /\ << >> \in Seq(Msgs) /\ Len(<< >>) = 0
  OBVIOUS
<1>2. ChatType
  <2>1. IsFiniteSet({})
    BY FS_EmptySet
  <2>2. MaxFrames \in Nat
    BY WsAssumption
  <2>3. QED BY <1>1, <2>1, <2>2 DEF ChatInit, ChatType, Stages
<1>3. Threads
  BY FreeIsNobody DEF ChatInit, Threads, ThreadOf
<1>4. Streams
  BY DEF ChatInit, Streams, StreamOf
<1>5. QED BY <1>2, <1>3, <1>4 DEF ChatInd

\* A thread that a step does not touch.
LEMMA ThreadSame ==
    ASSUME ChatInd, NEW d \in Clients, lock' = d <=> lock = d,
           todo'[d] = todo[d], stage'[d] = stage[d], pinged \subseteq pinged',
           d \notin clients => out'[d] = out[d] /\ (d \notin clients' \/ stage[d] \notin {"handshake", "upgrade"}),
           stage[d] \in {"handshake", "upgrade"} => d \notin clients',
           lock = d => said' # << >> /\ Debt(todo[d], clients' \ {d})
    PROVE  ThreadOf(d)'
<1>1. ThreadOf(d)
  BY DEF ChatInd, Threads
<1>2. stage[d] \in {"handshake", "upgrade"} => d \notin clients /\ out'[d] = out[d]
  BY <1>1 DEF ThreadOf
<1>3. QED BY <1>1, <1>2 DEF ThreadOf

LEMMA StreamSame ==
    ASSUME ChatInd, NEW e \in Clients, e \notin pinged, out'[e] = out[e], said' = said,
           e \in clients' => e \in clients /\ Owed(e)' = Owed(e)
    PROVE  StreamOf(e)'
<1>1. StreamOf(e)
  BY DEF ChatInd, Streams
<1>2. Owed(e)' = Owed(e) => Sound(out'[e], said', Owed(e)') = Sound(out[e], said, Owed(e))
  BY Zenon
<1>3. Torn(out'[e], said') = Torn(out[e], said)
  BY Zenon
<1>4. QED BY <1>1, <1>2, <1>3, Zenon DEF StreamOf

\* Steps that leave the holder's list alone change nothing of what is owed.
LEMMA OwedSame ==
    ASSUME NEW e, lock' = lock, lock # "free" => todo'[lock] = todo[lock]
    PROVE  Owed(e)' = Owed(e)
<1>1. CASE lock = "free"
  BY <1>1 DEF Owed
<1>2. CASE lock # "free"
  BY <1>2, Zenon DEF Owed
<1>3. QED BY <1>1, <1>2

LEMMA ReadKeyKeeps ==
    ASSUME ChatInd, NEW c \in Clients, ReadKey(c)
    PROVE  ChatInd'
<1> DEFINE w == [to |-> c, bytes |-> Upgrade]
           ts == <<w>>
<1>1. stage[c] = "handshake" /\ stage' = [stage EXCEPT ![c] = "upgrade"] /\ todo' = [todo EXCEPT ![c] = ts]
      /\ UNCHANGED <<clients, lock, out, said, count, pinged>>
  BY DEF ReadKey
<1>2. lock # c /\ out[c] = << >> /\ c \notin clients
  BY <1>1 DEF ChatInd, Threads, ThreadOf
<1>3. w \in Writes /\ w.to = c /\ w.bytes = Upgrade
  BY UpgradeIs DEF Writes
<1>4. ts \in Seq(Writes) /\ Len(ts) = 1 /\ ts[1] = w
  <2> HIDE DEF w
  <2> QED BY <1>3
<1> HIDE DEF w, ts
<1>5. ts # << >>
  BY <1>4
<1>6. ChatType'
  BY <1>1, <1>4 DEF ChatInd, ChatType, Stages
<1>7. ASSUME NEW d \in Clients PROVE ThreadOf(d)'
  <2>1. CASE d = c
    <3>1. stage'[d] = "upgrade" /\ todo'[d] = ts /\ lock' # d /\ out'[d] = << >> /\ d \notin clients'
      BY <1>1, <1>2, <2>1 DEF ChatInd, ChatType
    <3>2. QED BY <1>3, <1>4, <1>5, <2>1, <3>1 DEF ThreadOf
  <2>2. CASE d # c
    <3>1. stage'[d] = stage[d] /\ todo'[d] = todo[d]
      BY <1>1, <2>2 DEF ChatInd, ChatType
    <3>2. lock = d => said # << >> /\ Debt(todo[d], clients \ {d})
      BY DEF ChatInd, Threads, ThreadOf
    <3>3. stage[d] \in {"handshake", "upgrade"} => d \notin clients
      BY DEF ChatInd, Threads, ThreadOf
    <3>4. QED BY <1>1, <3>1, <3>2, <3>3, ThreadSame
  <2>3. QED BY <2>1, <2>2
<1>8. ASSUME NEW e \in Clients \ pinged' PROVE StreamOf(e)'
  <2>1. lock # "free" => todo'[lock] = todo[lock]
    BY <1>1, <1>2 DEF ChatInd, ChatType
  <2>2. Owed(e)' = Owed(e)
    BY <1>1, <2>1, OwedSame
  <2>3. QED BY <1>1, <2>2, StreamSame
<1>9. Threads' /\ Streams'
  BY <1>7, <1>8 DEF Threads, Streams
<1>10. QED BY <1>6, <1>9 DEF ChatInd

LEMMA RegisterKeeps ==
    ASSUME ChatInd, NEW c \in Clients, Register(c)
    PROVE  ChatInd'
<1>1. /\ stage[c] = "upgrade" /\ todo[c] = << >> /\ lock = "free" /\ stage' = [stage EXCEPT ![c] = "serving"]
      /\ clients' = clients \cup {c} /\ UNCHANGED <<lock, todo, out, said, count, pinged>>
  BY DEF Register
<1>2. out[c] = Upgrade
  BY <1>1 DEF ChatInd, Threads, ThreadOf
<1>3. ChatType'
  <2>1. IsFiniteSet(clients \cup {c})
    BY FS_AddElement DEF ChatInd, ChatType
  <2>2. QED BY <1>1, <2>1 DEF ChatInd, ChatType, Stages
<1>4. ASSUME NEW d \in Clients PROVE ThreadOf(d)'
  <2>1. lock # d /\ ThreadOf(d)
    BY <1>1, FreeIsNobody DEF ChatInd, Threads
  <2>2. CASE d = c
    <3>1. stage'[d] = "serving" /\ todo'[d] = << >> /\ lock' # d
      BY <1>1, <2>1, <2>2 DEF ChatInd, ChatType
    <3>2. QED BY <3>1 DEF ThreadOf
  <2>3. CASE d # c
    <3>1. stage'[d] = stage[d] /\ todo'[d] = todo[d] /\ out'[d] = out[d] /\ lock' # d /\ (d \in clients' <=> d \in clients)
      BY <1>1, <2>1, <2>3 DEF ChatInd, ChatType
    <3>2. pinged' = pinged
      BY <1>1
    <3>3. QED BY <2>1, <3>1, <3>2 DEF ThreadOf
  <2>4. QED BY <2>2, <2>3
<1>5. ASSUME NEW e \in Clients \ pinged' PROVE StreamOf(e)'
  <2>1. Owed(e)' = Owed(e) /\ Owed(e)' = {}
    BY <1>1 DEF Owed
  <2>2. CASE e = c
    <3>1. Sound(Upgrade, said, {})
      BY JustUpgraded DEF ChatInd, ChatType
    <3>2. out'[e] = Upgrade /\ said' = said
      BY <1>1, <1>2, <2>2
    <3>3. Sound(out'[e], said', Owed(e)')
      BY <2>1, <3>1, <3>2, Zenon
    <3>4. QED BY <3>3, SoundIsTorn, Zenon DEF StreamOf
  <2>3. CASE e # c
    BY <1>1, <2>1, <2>3, StreamSame
  <2>4. QED BY <2>2, <2>3
<1>6. Threads' /\ Streams'
  BY <1>4, <1>5 DEF Threads, Streams
<1>7. QED BY <1>3, <1>6 DEF ChatInd

LEMMA PayloadIs ==
    ASSUME NEW m \in Nat, NEW n \in Lens
    PROVE  Payload(m, n) \in Msgs
<1>1. n \in Nat
  BY SizesOk
<1> DEFINE p == [k \in 1 .. n |-> 100 * m + k]
<1>2. p \in [1 .. n -> Nat]
  BY <1>1
<1> HIDE DEF p
<1>3. p \in Seq(Nat) /\ Len(p) = n
  BY <1>1, <1>2, IsASeq, LenProperties
<1>4. QED BY <1>3 DEF Msgs, Payload, p

\* The writes of a broadcast.
LEMMA FanOutIs ==
    ASSUME NEW S \in SUBSET Clients, IsFiniteSet(S), NEW order \in SetToSeqs(S), NEW p \in Msgs
    PROVE  LET ts == [k \in DOMAIN order |-> [to |-> order[k], bytes |-> encode_frame(Text, p)]]
           IN /\ ts \in Seq(Writes) /\ Debt(ts, S)
              /\ \A e : OwedIn(ts, e) \in SUBSET {enc[p]}
<1>1. PICK N \in Nat : N = Cardinality(S)
  BY FS_CardinalityType
<1>2. order \in [1 .. N -> S] /\ \A i, j \in 1 .. N : i # j => order[i] # order[j]
  BY <1>1 DEF SetToSeqs
<1> DEFINE f == encode_frame(Text, p)
           w(x) == [to |-> x, bytes |-> f]
           ts == [k \in 1 .. N |-> w(order[k])]
<1>3. f = enc[p] /\ f \in Seq(Nat) /\ f # << >>
  <2>1. f = enc[p]
    BY DEF enc
  <2> HIDE DEF f
  <2>2. QED BY <2>1, EncType
<1> HIDE DEF f
<1>4. \A x \in Clients : w(x) \in Writes /\ w(x).to = x /\ w(x).bytes = f
  BY <1>3 DEF Writes
<1> HIDE DEF w
<1>5. \A k \in 1 .. N : order[k] \in S /\ order[k] \in Clients
  BY <1>2
<1>6. ts \in [1 .. N -> Writes] /\ \A k \in 1 .. N : ts[k] = w(order[k])
  BY <1>4, <1>5
<1> HIDE DEF ts
<1>7. ts \in Seq(Writes) /\ Len(ts) = N
  BY <1>6, IsASeq, LenProperties
<1>8. \A k \in 1 .. N : ts[k].to = order[k] /\ ts[k].bytes = f
  BY <1>4, <1>5, <1>6
<1>9. Debt(ts, S)
  BY <1>2, <1>3, <1>5, <1>7, <1>8 DEF Debt
<1>10. \A e : OwedIn(ts, e) \in SUBSET {enc[p]}
  BY <1>3, <1>7, <1>8 DEF OwedIn
<1>11. DOMAIN order = 1 .. N
  BY <1>2
<1>12. QED BY <1>7, <1>9, <1>10, <1>11, Zenon DEF ts, w, f

LEMMA ReadTextKeeps ==
    ASSUME ChatInd, NEW c \in Clients, ReadText(c)
    PROVE  ChatInd'
<1>1. /\ stage[c] = "serving" /\ todo[c] = << >> /\ lock = "free" /\ lock' = c /\ count < MaxFrames /\ count' = count + 1
      /\ UNCHANGED <<clients, stage, out, pinged>>
  BY DEF ReadText, Frame
<1> DEFINE S == clients \ {c}
<1>2. PICK n \in Lens, order \in SetToSeqs(S) :
        /\ todo' = [todo EXCEPT ![c] = [k \in DOMAIN order |-> [to |-> order[k], bytes |-> encode_frame(Text, Payload(count', n))]]]
        /\ said' = Append(said, Payload(count', n))
  BY DEF ReadText, FanOut
<1>3. PICK p \in Msgs : p = Payload(count', n)
  <2>1. count' \in Nat
    BY <1>1 DEF ChatInd, ChatType
  <2>2. QED BY <2>1, PayloadIs
<1> DEFINE ts == [k \in DOMAIN order |-> [to |-> order[k], bytes |-> encode_frame(Text, p)]]
<1>4. todo' = [todo EXCEPT ![c] = ts] /\ said' = Append(said, p)
  BY <1>2, <1>3, Zenon
<1>5. ts \in Seq(Writes) /\ Debt(ts, S) /\ \A e : OwedIn(ts, e) \in SUBSET {enc[p]}
  <2>1. S \in SUBSET Clients /\ IsFiniteSet(S)
    BY FS_Subset DEF ChatInd, ChatType
  <2> HIDE DEF S
  <2>2. QED BY <2>1, FanOutIs, Zenon
<1> HIDE DEF ts
<1>6. said \in Seq(Msgs) /\ said' \in Seq(Msgs) /\ Len(said') = Len(said) + 1 /\ said' # << >>
  <2>1. said \in Seq(Msgs)
    BY DEF ChatInd, ChatType
  <2>2. QED BY <1>4, <2>1, AppendProperties
<1>7. ChatType'
  <2>1. /\ todo' \in [Clients -> Seq(Writes)] /\ count' \in Nat /\ Len(said') <= count' /\ count' <= MaxFrames
    BY <1>1, <1>4, <1>5, <1>6, WsAssumption DEF ChatInd, ChatType
  <2>2. QED BY <1>1, <1>6, <2>1 DEF ChatInd, ChatType
<1>8. todo'[c] = ts /\ \A d \in Clients : d # c => todo'[d] = todo[d]
  BY <1>4 DEF ChatInd, ChatType
<1>9. ASSUME NEW d \in Clients PROVE ThreadOf(d)'
  <2>1. lock # d /\ ThreadOf(d)
    BY <1>1, FreeIsNobody DEF ChatInd, Threads
  <2>2. CASE d = c
    <3>1. stage'[d] = "serving" /\ lock' = d /\ todo'[d] = ts /\ clients' = clients
      BY <1>1, <1>8, <2>2
    <3>2. QED BY <1>5, <1>6, <2>2, <3>1 DEF ThreadOf
  <2>3. CASE d # c
    <3>1. lock' # d /\ todo'[d] = todo[d] /\ UNCHANGED <<stage, out, clients, pinged>>
      BY <1>1, <1>8, <2>3
    <3>2. QED BY <2>1, <3>1 DEF ThreadOf
  <2>4. QED BY <2>2, <2>3
<1>10. ASSUME NEW e \in Clients \ pinged' PROVE StreamOf(e)'
  <2>1. e \notin pinged /\ StreamOf(e)
    BY <1>1 DEF ChatInd, Streams
  <2>2. Owed(e) = {}
    BY <1>1 DEF Owed
  <2>3. Owed(e)' = OwedIn(ts, e)
    <3>1. lock' # "free" /\ todo'[lock'] = ts
      BY <1>1, <1>8, FreeIsNobody
    <3>2. QED BY <3>1 DEF Owed
  <2>4. Owed(e)' \in SUBSET {enc[p]}
    BY <1>5, <2>3
  <2>5. e \in clients => Sound(out[e], said', Owed(e)')
    <3>1. e \in clients => Sound(out[e], said, {})
      BY <2>1, <2>2, Zenon DEF StreamOf
    <3>2. Sound(out[e], said, {}) => Sound(out[e], Append(said, p), Owed(e)')
      BY <1>6, <2>4, SoundMore
    <3>3. QED BY <1>4, <3>1, <3>2, Zenon
  <2>6. out[e] # << >> => Torn(out[e], said')
    <3>1. Torn(out[e], said) => Torn(out[e], Append(said, p))
      BY <1>6, TornMore
    <3>2. QED BY <1>4, <2>1, <3>1, Zenon DEF StreamOf
  <2>7. QED BY <1>1, <2>5, <2>6, Zenon DEF StreamOf
<1>11. Threads' /\ Streams'
  BY <1>9, <1>10 DEF Threads, Streams
<1>12. QED BY <1>7, <1>11 DEF ChatInd

LEMMA ReadPingKeeps ==
    ASSUME ChatInd, NEW c \in Clients, ReadPing(c)
    PROVE  ChatInd'
<1>1. /\ stage[c] = "serving" /\ todo[c] = << >> /\ lock # c /\ count < MaxFrames /\ count' = count + 1
      /\ pinged' = pinged \cup {c} /\ UNCHANGED <<clients, lock, stage, out, said>>
  BY DEF ReadPing, Frame
<1>2. PICK n \in Lens : todo' = [todo EXCEPT ![c] = <<[to |-> c, bytes |-> encode_frame(Pong, Payload(count', n))]>>]
  BY DEF ReadPing
<1> DEFINE b == encode_frame(Pong, Payload(count', n))
           w == [to |-> c, bytes |-> b]
           ts == <<w>>
<1>3. b \in Seq(Nat)
  <2>1. count' \in Nat /\ Pong \in Nat
    BY <1>1 DEF ChatInd, ChatType, Pong
  <2>2. Payload(count', n) \in Msgs
    BY <2>1, PayloadIs
  <2>3. EncodedIs(Pong, Payload(count', n), b)
    BY <2>1, <2>2, EncodeFrameIs
  <2>4. QED BY <2>3, Zenon DEF EncodedIs
<1> HIDE DEF b
<1>4. w \in Writes /\ w.to = c
  BY <1>3 DEF Writes
<1> HIDE DEF w
<1>5. ts \in Seq(Writes) /\ Len(ts) = 1 /\ ts[1] = w
  BY <1>4
<1>6. todo' = [todo EXCEPT ![c] = ts]
  BY <1>2, Zenon DEF w, b
<1> HIDE DEF ts
<1>7. todo'[c] = ts /\ todo' \in [Clients -> Seq(Writes)] /\ \A d \in Clients : d # c => todo'[d] = todo[d]
  BY <1>5, <1>6 DEF ChatInd, ChatType
<1>8. ChatType'
  <2>1. count' \in Nat /\ Len(said') <= count' /\ count' <= MaxFrames
    BY <1>1, WsAssumption DEF ChatInd, ChatType
  <2>2. QED BY <1>1, <1>7, <2>1 DEF ChatInd, ChatType
<1>9. ASSUME NEW d \in Clients PROVE ThreadOf(d)'
  <2>1. ThreadOf(d)
    BY DEF ChatInd, Threads
  <2>2. CASE d = c
    <3>1. stage'[d] = "serving" /\ lock' # d /\ todo'[d] = ts /\ d \in pinged'
      BY <1>1, <1>7, <2>2
    <3>2. QED BY <1>4, <1>5, <2>2, <3>1 DEF ThreadOf
  <2>3. CASE d # c
    <3>1. todo'[d] = todo[d] /\ pinged \subseteq pinged' /\ UNCHANGED <<lock, stage, out, clients, said>>
      BY <1>1, <1>7, <2>3
    <3>2. QED BY <2>1, <3>1 DEF ThreadOf
  <2>4. QED BY <2>2, <2>3
<1>10. ASSUME NEW e \in Clients \ pinged' PROVE StreamOf(e)'
  <2>1. lock # "free" => todo'[lock] = todo[lock]
    BY <1>1, <1>7 DEF ChatInd, ChatType
  <2>2. Owed(e)' = Owed(e)
    BY <1>1, <2>1, OwedSame
  <2>3. e \notin pinged
    BY <1>1
  <2>4. QED BY <1>1, <2>2, <2>3, StreamSame
<1>11. Threads' /\ Streams'
  BY <1>9, <1>10 DEF Threads, Streams
<1>12. QED BY <1>8, <1>11 DEF ChatInd

-----------------------------------------------------------------------------
(* One call of write: a is what it takes, b what is left. *)
Wrote(c, w, a, b) ==
    /\ w = todo[c][1] /\ w \in Writes /\ a \in Seq(Nat) /\ b \in Seq(Nat) /\ w.bytes = a \o b
    /\ out' = [out EXCEPT ![w.to] = @ \o a]
    /\ (Len(w.bytes) <= 1 => b = << >>) /\ (b = << >> => a = w.bytes)
    /\ \/ b = << >> /\ todo' = [todo EXCEPT ![c] = Tail(@)]
       \/ b # << >> /\ \E v \in Writes : /\ v.to = w.to /\ v.bytes = b
                                         /\ todo' = [todo EXCEPT ![c] = <<v>> \o Tail(@)]

LEMMA SomeBytesIs ==
    ASSUME ChatInd, NEW c \in Clients, SomeBytes(c)
    PROVE  todo[c] # << >> /\ \E w, a, b : Wrote(c, w, a, b)
<1>1. todo[c] # << >> /\ todo[c] \in Seq(Writes)
  BY DEF SomeBytes, ChatInd, ChatType
<1> DEFINE w == Head(todo[c])
           n == Min({Chunk, Len(w.bytes)})
           a == SubSeq(w.bytes, 1, n)
           b == SubSeq(w.bytes, n + 1, Len(w.bytes))
           v == [w EXCEPT !.bytes = b]
<1>2. w = todo[c][1] /\ w \in Writes
  BY <1>1, HeadTailProperties
<1>3. /\ out' = [out EXCEPT ![w.to] = @ \o a]
      /\ todo' = [todo EXCEPT ![c] = IF n = Len(w.bytes) THEN Tail(@) ELSE <<v>> \o Tail(@)]
  BY Zenon DEF SomeBytes
<1> HIDE DEF w
<1>4. w.to \in Clients /\ w.bytes \in Seq(Nat)
  BY <1>2, WriteParts
<1>5. PICK L \in Nat : L = Len(w.bytes)
  BY <1>4
<1>6. n \in 0 .. L /\ (L <= 1 => n = L)
  <2>1. Chunk \in Nat /\ Chunk >= 1
    BY WsAssumption
  <2>2. Min({Chunk, L}) = IF Chunk <= L THEN Chunk ELSE L
    BY <2>1, MinMaxOfTwo
  <2>3. QED BY <1>5, <2>1, <2>2
<1> HIDE DEF n
<1>7. a \in Seq(Nat) /\ b \in Seq(Nat) /\ w.bytes = a \o b /\ Len(a) = n /\ Len(b) = L - n
  BY <1>4, <1>5, <1>6, CutAt
<1> HIDE DEF a, b
<1>8. b = << >> <=> n = L
  BY <1>5, <1>6, <1>7, EmptySeq
<1>9. b = << >> => a = w.bytes
  <2>1. a \o << >> = a
    BY <1>7, ConcatEmptySeq
  <2>2. QED BY <1>7, <2>1, Zenon
<1>10. v \in Writes /\ v.to = w.to /\ v.bytes = b
  BY <1>2, <1>7 DEF Writes
<1> HIDE DEF v
<1>11. Wrote(c, w, a, b)
  <2>1. CASE n = L
    <3>1. todo' = [todo EXCEPT ![c] = Tail(@)]
      BY <1>3, <1>5, <2>1, Zenon
    <3>2. b = << >>
      BY <1>8, <2>1
    <3>3. QED BY <1>2, <1>3, <1>7, <1>9, <3>1, <3>2, Zenon DEF Wrote
  <2>2. CASE n # L
    <3>1. todo' = [todo EXCEPT ![c] = <<v>> \o Tail(@)]
      BY <1>3, <1>5, <2>2, Zenon
    <3>2. b # << >> /\ ~(Len(w.bytes) <= 1)
      BY <1>5, <1>6, <1>8, <2>2
    <3>3. QED BY <1>2, <1>3, <1>7, <1>9, <1>10, <3>1, <3>2, Zenon DEF Wrote
  <2>3. QED BY <2>1, <2>2
<1>12. QED BY <1>1, <1>11, Zenon

\* A call of write by the broadcast that is under way.
LEMMA BroadcastWrites ==
    ASSUME ChatInd, NEW c \in Clients, lock = c, todo[c] # << >>, NEW w, NEW a, NEW b, Wrote(c, w, a, b),
           UNCHANGED <<clients, lock, stage, said, count, pinged>>
    PROVE  ChatInd'
<1> DEFINE ts == todo[c]
           us == todo'[c]
           S == clients \ {c}
<1>1. ts \in Seq(Writes) /\ ts # << >> /\ Debt(ts, S) /\ stage[c] = "serving" /\ said # << >> /\ said \in Seq(Msgs)
  BY DEF ChatInd, ChatType, Threads, ThreadOf
<1>2. /\ w = ts[1] /\ w \in Writes /\ a \in Seq(Nat) /\ b \in Seq(Nat) /\ w.bytes = a \o b
      /\ out' = [out EXCEPT ![w.to] = @ \o a] /\ (b = << >> => a = w.bytes)
  BY Zenon DEF Wrote
<1>3. w.to \in S /\ w.to \in Clients /\ w.bytes \in Seq(Nat)
  <2>1. 1 \in 1 .. Len(ts)
    BY <1>1, EmptySeq
  <2>2. QED BY <1>1, <1>2, <2>1, WriteParts DEF Debt
<1>4. OwedIn(ts, w.to) = {w.bytes}
  BY <1>1, <1>2, OwesFirst
<1>5. /\ us \in Seq(Writes) /\ Debt(us, S) /\ (b = << >> => OwedIn(us, w.to) = {})
      /\ (b # << >> => OwedIn(us, w.to) = {b}) /\ \A e : e # w.to => OwedIn(us, e) = OwedIn(ts, e)
  <2>1. CASE b = << >>
    <3>1. us = Tail(ts)
      BY <2>1 DEF Wrote, ChatInd, ChatType
    <3>2. Tail(ts) \in Seq(Writes)
      BY <1>1, HeadTailProperties
    <3>3. /\ OwedIn(Tail(ts), ts[1].to) = {} /\ Debt(Tail(ts), S)
          /\ \A e : e # ts[1].to => OwedIn(Tail(ts), e) = OwedIn(ts, e)
      <4> HIDE DEF ts, S
      <4> QED BY <1>1, OwedTail
    <3>4. QED BY <1>2, <2>1, <3>1, <3>2, <3>3, Zenon
  <2>2. CASE b # << >>
    <3>1. PICK v \in Writes : v.to = w.to /\ v.bytes = b /\ todo' = [todo EXCEPT ![c] = <<v>> \o Tail(@)]
      BY <2>2, Zenon DEF Wrote
    <3>2. us = <<v>> \o Tail(ts)
      BY <3>1, Zenon DEF ChatInd, ChatType
    <3> DEFINE z == <<v>> \o Tail(ts)
    <3>3. /\ z \in Seq(Writes) /\ Debt(z, S) /\ OwedIn(z, v.to) = {v.bytes}
          /\ \A e : e # v.to => OwedIn(z, e) = OwedIn(ts, e)
      <4> HIDE DEF ts, S
      <4> QED BY <1>1, <1>2, <2>2, <3>1, OwedRest, Zenon
    <3> HIDE DEF z
    <3>4. us = z
      BY <3>2, Zenon DEF z
    <3>5. QED BY <2>2, <3>1, <3>3, <3>4, Zenon
  <2>3. QED BY <2>1, <2>2
<1>6. todo' \in [Clients -> Seq(Writes)] /\ \A d \in Clients : d # c => todo'[d] = todo[d]
  <2>1. \E z : todo' = [todo EXCEPT ![c] = z]
    BY Zenon DEF Wrote
  <2>2. QED BY <1>5, <2>1 DEF ChatInd, ChatType
<1>7. out'[w.to] = out[w.to] \o a /\ \A e \in Clients : e # w.to => out'[e] = out[e]
  BY <1>2, <1>3, Zenon DEF ChatInd, ChatType
<1>8. out' \in [Clients -> Seq(Nat)]
  <2>1. out[w.to] \o a \in Seq(Nat)
    BY <1>2, <1>3, ConcatProperties DEF ChatInd, ChatType
  <2> DEFINE z == out[w.to] \o a
  <2>2. out' = [out EXCEPT ![w.to] = z] /\ z \in Seq(Nat)
    BY <1>2, <2>1, Zenon
  <2> HIDE DEF z
  <2>3. QED BY <1>3, <2>2 DEF ChatInd, ChatType
<1>9. ChatType'
  BY <1>6, <1>8 DEF ChatInd, ChatType
<1>10. ASSUME NEW d \in Clients PROVE ThreadOf(d)'
  <2>1. ThreadOf(d)
    BY DEF ChatInd, Threads
  <2>2. CASE d = c
    <3>1. stage'[d] = "serving" /\ lock' = d /\ said' # << >> /\ Debt(todo'[d], clients' \ {d})
      BY <1>1, <1>5, <2>2
    <3>2. QED BY <3>1 DEF ThreadOf
  <2>3. CASE d # c
    <3>1. todo'[d] = todo[d] /\ lock # d /\ (d \notin clients => out'[d] = out[d])
      BY <1>3, <1>6, <1>7, <2>3
    <3>2. stage[d] \in {"handshake", "upgrade"} => d \notin clients
      BY <2>1 DEF ThreadOf
    <3>3. QED BY <3>1, <3>2, ThreadSame
  <2>4. QED BY <2>2, <2>3
<1>11. ASSUME NEW e \in Clients \ pinged' PROVE StreamOf(e)'
  <2>1. e \in Clients /\ e \notin pinged /\ StreamOf(e) /\ c # "free"
    BY FreeIsNobody DEF ChatInd, Streams
  <2>2. Owed(e) = OwedIn(ts, e) /\ Owed(e)' = OwedIn(us, e)
    BY <2>1, Zenon DEF Owed
  <2>3. CASE e = w.to
    <3>1. e \in clients /\ Sound(out[e], said, {a \o b})
      <4>1. e \in clients
        BY <1>3, <2>3
      <4>2. Sound(out[e], said, Owed(e))
        BY <2>1, <4>1, Zenon DEF StreamOf
      <4>3. Owed(e) = {a \o b}
        BY <1>2, <1>4, <2>2, <2>3, Zenon
      <4>4. QED BY <4>1, <4>2, <4>3, Zenon
    <3>2. Sound(out[e] \o a, said, Owed(e)')
      <4>1. CASE b = << >>
        <5>1. Sound(out[e], said, {w.bytes})
          BY <1>2, <3>1, Zenon
        <5>2. Sound(out[e] \o w.bytes, said, {})
          BY <1>1, <1>3, <5>1, SoundAll
        <5>3. QED BY <1>2, <1>5, <2>2, <2>3, <4>1, <5>2, Zenon
      <4>2. CASE b # << >>
        <5>1. Sound(out[e] \o a, said, {b})
          BY <1>1, <1>2, <3>1, <4>2, SoundPart
        <5>2. QED BY <1>5, <2>2, <2>3, <4>2, <5>1, Zenon
      <4>3. QED BY <4>1, <4>2
    <3>3. Sound(out'[e], said', Owed(e)')
      BY <1>7, <2>3, <3>2, Zenon
    <3>4. QED BY <3>3, SoundIsTorn, Zenon DEF StreamOf
  <2>4. CASE e # w.to
    <3>1. Owed(e)' = Owed(e) /\ out'[e] = out[e]
      BY <1>5, <1>7, <2>1, <2>2, <2>4, Zenon
    <3>2. QED BY <2>1, <3>1, StreamSame
  <2>5. QED BY <2>3, <2>4
<1>12. Threads' /\ Streams'
  BY <1>10, <1>11 DEF Threads, Streams
<1>13. QED BY <1>9, <1>12 DEF ChatInd

\* A call of write by a thread on its own socket.
LEMMA ThreadWrites ==
    ASSUME ChatInd, NEW c \in Clients, lock # c, todo[c] # << >>, NEW w, NEW a, NEW b, Wrote(c, w, a, b),
           UNCHANGED <<clients, lock, stage, said, count, pinged>>
    PROVE  ChatInd'
<1> DEFINE ts == todo[c]
           us == todo'[c]
<1>1. /\ ts \in Seq(Writes) /\ Len(ts) = 1 /\ ts[1].to = c
      /\ \/ stage[c] = "upgrade" /\ ts[1].bytes = Upgrade /\ out[c] = << >> /\ c \notin clients
         \/ stage[c] = "serving" /\ c \in pinged
  BY DEF ChatInd, ChatType, Threads, ThreadOf
<1>2. /\ w = ts[1] /\ w \in Writes /\ a \in Seq(Nat) /\ b \in Seq(Nat)
      /\ out' = [out EXCEPT ![w.to] = @ \o a] /\ (Len(w.bytes) <= 1 => b = << >>) /\ (b = << >> => a = w.bytes)
  BY Zenon DEF Wrote
<1>3. w.to = c
  BY <1>1, <1>2
<1>4. Tail(ts) = << >>
  <2> DEFINE r == Tail(ts)
  <2>1. r \in Seq(Writes) /\ Len(r) = 0
    BY <1>1, HeadTailProperties
  <2> HIDE DEF r
  <2>2. QED BY <2>1, EmptySeq DEF r
<1>5. /\ us \in Seq(Writes) /\ (b = << >> => us = << >>)
      /\ (b # << >> => Len(us) = 1 /\ us[1].to = c)
  <2>1. CASE b = << >>
    <3>1. us = Tail(ts)
      BY <2>1 DEF Wrote, ChatInd, ChatType
    <3>2. << >> \in Seq(Writes)
      OBVIOUS
    <3>3. QED BY <1>4, <2>1, <3>1, <3>2, Zenon
  <2>2. CASE b # << >>
    <3>1. PICK v \in Writes : v.to = w.to /\ v.bytes = b /\ todo' = [todo EXCEPT ![c] = <<v>> \o Tail(@)]
      BY <2>2, Zenon DEF Wrote
    <3>2. us = <<v>> \o Tail(ts)
      BY <3>1, Zenon DEF ChatInd, ChatType
    <3> DEFINE o == <<v>>
    <3>3. o \in Seq(Writes) /\ Len(o) = 1 /\ o[1] = v
      OBVIOUS
    <3> HIDE DEF o
    <3>4. us = o
      <4>1. o \o << >> = o
        BY <3>3, ConcatEmptySeq
      <4>2. QED BY <1>4, <3>2, <4>1, Zenon DEF o
    <3>5. QED BY <1>3, <2>2, <3>1, <3>3, <3>4, Zenon
  <2>3. QED BY <2>1, <2>2
<1>6. todo' \in [Clients -> Seq(Writes)] /\ \A d \in Clients : d # c => todo'[d] = todo[d]
  <2>1. \E z : todo' = [todo EXCEPT ![c] = z]
    BY Zenon DEF Wrote
  <2>2. QED BY <1>5, <2>1 DEF ChatInd, ChatType
<1>7. out'[c] = out[c] \o a /\ \A e \in Clients : e # c => out'[e] = out[e]
  BY <1>2, <1>3, Zenon DEF ChatInd, ChatType
<1>8. out' \in [Clients -> Seq(Nat)]
  <2>1. out[c] \o a \in Seq(Nat)
    BY <1>2, <1>3, ConcatProperties DEF ChatInd, ChatType
  <2> DEFINE z == out[c] \o a
  <2>2. out' = [out EXCEPT ![c] = z] /\ z \in Seq(Nat)
    BY <1>2, <1>3, <2>1, Zenon
  <2> HIDE DEF z
  <2>3. QED BY <1>3, <2>2 DEF ChatInd, ChatType
<1>9. ChatType'
  BY <1>6, <1>8 DEF ChatInd, ChatType
<1>10. stage[c] = "upgrade" => b = << >> /\ out'[c] = Upgrade /\ c \notin clients
  <2> SUFFICES ASSUME stage[c] = "upgrade" PROVE b = << >> /\ out'[c] = Upgrade /\ c \notin clients
    OBVIOUS
  <2>1. w.bytes = Upgrade /\ out[c] = << >> /\ c \notin clients
    BY <1>1, <1>2
  <2>2. b = << >> /\ a = Upgrade
    BY <1>2, <2>1, UpgradeIs
  <2>3. << >> \o Upgrade = Upgrade
    BY UpgradeIs, ConcatEmptySeq
  <2>4. QED BY <1>7, <2>1, <2>2, <2>3, Zenon
<1> HIDE DEF us
<1>11. ASSUME NEW d \in Clients PROVE ThreadOf(d)'
  <2>1. ThreadOf(d)
    BY DEF ChatInd, Threads
  <2>2. CASE d = c
    <3>1. lock' # d /\ stage' = stage /\ clients' = clients /\ pinged' = pinged /\ todo'[d] = us
      BY <2>2 DEF us
    <3>2. CASE stage[c] = "upgrade"
      <4>1. us = << >> /\ out'[d] = Upgrade /\ d \notin clients' /\ stage'[d] = "upgrade"
        BY <1>5, <1>10, <2>2, <3>1, <3>2
      <4>2. QED BY <3>1, <4>1 DEF ThreadOf
    <3>3. CASE stage[c] = "serving" /\ c \in pinged
      BY <1>5, <2>2, <3>1, <3>3 DEF ThreadOf
    <3>4. QED BY <1>1, <3>2, <3>3
  <2>3. CASE d # c
    <3>1. todo'[d] = todo[d] /\ out'[d] = out[d]
      BY <1>6, <1>7, <2>3
    <3>2. /\ stage[d] \in {"handshake", "upgrade"} => d \notin clients
          /\ lock = d => said # << >> /\ Debt(todo[d], clients \ {d})
      BY <2>1 DEF ThreadOf
    <3>3. QED BY <3>1, <3>2, ThreadSame
  <2>4. QED BY <2>2, <2>3
<1>12. ASSUME NEW e \in Clients \ pinged' PROVE StreamOf(e)'
  <2>1. e \in Clients /\ e \notin pinged
    OBVIOUS
  <2>2. CASE e = c
    <3>1. out'[e] = Upgrade /\ e \notin clients'
      BY <1>1, <1>10, <2>1, <2>2
    <3>2. Torn(Upgrade, said)
      <4>1. Sound(Upgrade, said, {})
        BY JustUpgraded DEF ChatInd, ChatType
      <4>2. QED BY <4>1, SoundIsTorn, Zenon
    <3>3. Torn(out'[e], said')
      BY <3>1, <3>2, Zenon
    <3>4. QED BY <3>1, <3>3, Zenon DEF StreamOf
  <2>3. CASE e # c
    <3>1. lock # "free" => todo'[lock] = todo[lock]
      BY <1>6 DEF ChatInd, ChatType
    <3>2. Owed(e)' = Owed(e)
      BY <3>1, OwedSame
    <3>3. out'[e] = out[e]
      BY <1>7, <2>1, <2>3
    <3>4. QED BY <2>1, <3>2, <3>3, StreamSame
  <2>4. QED BY <2>2, <2>3
<1>13. Threads' /\ Streams'
  BY <1>11, <1>12 DEF Threads, Streams
<1>14. QED BY <1>9, <1>13 DEF ChatInd

LEMMA WriteKeeps ==
    ASSUME ChatInd, NEW c \in Clients, write_all(c)
    PROVE  ChatInd'
<1>1. SomeBytes(c) /\ UNCHANGED <<clients, lock, stage, said, count, pinged>>
  BY DEF write_all
<1>2. todo[c] # << >>
  BY <1>1, SomeBytesIs
<1>3. PICK w, a, b : Wrote(c, w, a, b)
  BY <1>1, SomeBytesIs
<1>4. CASE lock = c
  BY <1>1, <1>2, <1>3, <1>4, BroadcastWrites
<1>5. CASE lock # c
  BY <1>1, <1>2, <1>3, <1>5, ThreadWrites
<1>6. QED BY <1>4, <1>5

LEMMA WriteFailsKeeps ==
    ASSUME ChatInd, NEW c \in Clients, WriteFails(c)
    PROVE  ChatInd'
<1> DEFINE ts == todo[c]
           to == Head(ts).to
<1>1. ts # << >> /\ ts \in Seq(Writes) /\ UNCHANGED <<lock, out, said, count, pinged>>
  BY DEF WriteFails, ChatInd, ChatType
<1>2. to = ts[1].to
  BY <1>1, HeadTailProperties
<1>3. CASE lock = c /\ clients' = clients \ {to} /\ todo' = [todo EXCEPT ![c] = Tail(@)] /\ UNCHANGED stage
  <2> DEFINE us == Tail(ts)
             S == clients \ {c}
  <2>1. Debt(ts, S) /\ stage[c] = "serving" /\ said # << >>
    BY <1>3 DEF ChatInd, Threads, ThreadOf
  <2>2. /\ us \in Seq(Writes) /\ todo'[c] = us /\ todo' \in [Clients -> Seq(Writes)]
        /\ \A d \in Clients : d # c => todo'[d] = todo[d]
    <3>1. us \in Seq(Writes)
      BY <1>1, HeadTailProperties
    <3>2. todo' = [todo EXCEPT ![c] = us]
      BY <1>3, Zenon
    <3> HIDE DEF us
    <3>3. QED BY <3>1, <3>2 DEF ChatInd, ChatType
  <2>3. Debt(us, S \ {to}) /\ \A e : e # to => OwedIn(us, e) = OwedIn(ts, e)
    <3> HIDE DEF ts, S
    <3> QED BY <1>1, <1>2, <2>1, OwedTail, Zenon
  <2>4. S \ {to} = clients' \ {c}
    BY <1>3
  <2> HIDE DEF to, us
  <2>5. ChatType'
    <3>1. IsFiniteSet(clients')
      BY <1>3, FS_Subset DEF ChatInd, ChatType
    <3>2. QED BY <1>1, <1>3, <2>2, <3>1 DEF ChatInd, ChatType
  <2>6. ASSUME NEW d \in Clients PROVE ThreadOf(d)'
    <3>1. ThreadOf(d)
      BY DEF ChatInd, Threads
    <3>2. CASE d = c
      <4>1. stage'[d] = "serving" /\ lock' = d /\ said' # << >> /\ Debt(todo'[d], clients' \ {d})
        BY <1>1, <1>3, <2>1, <2>2, <2>3, <2>4, <3>2
      <4>2. QED BY <4>1 DEF ThreadOf
    <3>3. CASE d # c
      <4>1. stage'[d] = stage[d] /\ todo'[d] = todo[d] /\ out'[d] = out[d] /\ lock' # d /\ pinged' = pinged
            /\ (d \in clients' => d \in clients)
        BY <1>1, <1>3, <2>2, <3>3
      <4>2. QED BY <1>1, <1>3, <3>1, <3>3, <4>1 DEF ThreadOf
    <3>4. QED BY <3>2, <3>3
  <2>7. ASSUME NEW e \in Clients \ pinged' PROVE StreamOf(e)'
    <3>1. e \notin pinged /\ c # "free"
      BY <1>1, FreeIsNobody
    <3>2. Owed(e) = OwedIn(ts, e) /\ Owed(e)' = OwedIn(us, e)
      BY <1>1, <1>3, <2>2, <3>1, Zenon DEF Owed
    <3>3. e \in clients' => e \in clients /\ Owed(e)' = Owed(e)
      BY <1>3, <2>3, <3>2
    <3>4. QED BY <1>1, <3>1, <3>3, StreamSame
  <2>8. Threads' /\ Streams'
    BY <2>6, <2>7 DEF Threads, Streams
  <2>9. QED BY <2>5, <2>8 DEF ChatInd
<1>4. CASE /\ lock # c /\ todo' = [todo EXCEPT ![c] = << >>] /\ stage' = [stage EXCEPT ![c] = "leaving"]
           /\ UNCHANGED clients
  <2> HIDE DEF to
  <2>1. << >> \in Seq(Writes)
    OBVIOUS
  <2>2. todo'[c] = << >> /\ stage'[c] = "leaving" /\ \A d \in Clients : d # c => todo'[d] = todo[d] /\ stage'[d] = stage[d]
    BY <1>4 DEF ChatInd, ChatType
  <2>3. ChatType'
    BY <1>1, <1>4, <2>1 DEF ChatInd, ChatType, Stages
  <2>4. ASSUME NEW d \in Clients PROVE ThreadOf(d)'
    <3>1. ThreadOf(d)
      BY DEF ChatInd, Threads
    <3>2. CASE d = c
      BY <1>1, <1>4, <2>2, <3>2 DEF ThreadOf
    <3>3. CASE d # c
      <4>1. stage'[d] = stage[d] /\ todo'[d] = todo[d]
        BY <2>2, <3>3
      <4>2. UNCHANGED <<lock, out, said, pinged, clients>>
        BY <1>1, <1>4
      <4>3. QED BY <3>1, <4>1, <4>2 DEF ThreadOf
    <3>4. QED BY <3>2, <3>3
  <2>5. ASSUME NEW e \in Clients \ pinged' PROVE StreamOf(e)'
    <3>1. lock # "free" => todo'[lock] = todo[lock]
      BY <1>4, <2>2 DEF ChatInd, ChatType
    <3>2. Owed(e)' = Owed(e)
      BY <1>1, <3>1, OwedSame
    <3>3. QED BY <1>1, <1>4, <3>2, StreamSame
  <2>6. Threads' /\ Streams'
    BY <2>4, <2>5 DEF Threads, Streams
  <2>7. QED BY <2>3, <2>6 DEF ChatInd
<1>5. QED BY <1>3, <1>4, Zenon DEF WriteFails

LEMMA UnlockKeeps ==
    ASSUME ChatInd, NEW c \in Clients, Unlock(c)
    PROVE  ChatInd'
<1>1. /\ lock = c /\ todo[c] = << >> /\ lock' = "free" /\ UNCHANGED <<clients, stage, todo, out, said, count, pinged>>
  BY DEF Unlock
<1>2. ChatType'
  BY <1>1 DEF ChatInd, ChatType
<1>3. ASSUME NEW d \in Clients PROVE ThreadOf(d)'
  <2>1. ThreadOf(d) /\ lock' # d
    BY <1>1, FreeIsNobody DEF ChatInd, Threads
  <2>2. QED BY <1>1, <2>1 DEF ThreadOf
<1>4. ASSUME NEW e \in Clients \ pinged' PROVE StreamOf(e)'
  <2>1. Owed(e)' = {}
    BY <1>1 DEF Owed
  <2>2. Owed(e) = {}
    <3>1. Owed(e) = OwedIn(<< >>, e)
      BY <1>1, FreeIsNobody, Zenon DEF Owed
    <3>2. QED BY <3>1, NothingOwed, Zenon
  <2>3. QED BY <1>1, <2>1, <2>2, StreamSame
<1>5. Threads' /\ Streams'
  BY <1>3, <1>4 DEF Threads, Streams
<1>6. QED BY <1>2, <1>5 DEF ChatInd

\* A session that ends one way or another, and its thread that takes the
\* client out.
LEMMA EndKeeps ==
    ASSUME ChatInd, NEW c \in Clients, RegisterFails(c) \/ Hangup(c) \/ Panics(c) \/ Depart(c)
    PROVE  ChatInd'
<1>1. /\ lock # c /\ todo[c] = << >> /\ \E g \in {"leaving", "gone", "dead"} : stage' = [stage EXCEPT ![c] = g]
      /\ (clients' = clients \/ clients' = clients \ {c}) /\ (lock = "free" \/ clients' = clients)
      /\ UNCHANGED <<lock, todo, out, said, count, pinged>>
  BY FreeIsNobody DEF RegisterFails, Hangup, Panics, Depart, ChatInd, Threads, ThreadOf
<1>2. stage'[c] \in {"leaving", "gone", "dead"} /\ stage' \in [Clients -> Stages] /\ \A d \in Clients : d # c => stage'[d] = stage[d]
  BY <1>1 DEF ChatInd, ChatType, Stages
<1>3. ChatType'
  <2>1. IsFiniteSet(clients')
    BY <1>1, FS_Subset DEF ChatInd, ChatType
  <2>2. QED BY <1>1, <1>2, <2>1 DEF ChatInd, ChatType
<1>4. ASSUME NEW d \in Clients PROVE ThreadOf(d)'
  <2>1. ThreadOf(d)
    BY DEF ChatInd, Threads
  <2>2. CASE d = c
    BY <1>1, <1>2, <2>2 DEF ThreadOf
  <2>3. CASE d # c
    <3>1. stage'[d] = stage[d] /\ (d \in clients' => d \in clients) /\ (lock = d => clients' = clients)
      BY <1>1, <1>2, <2>3, FreeIsNobody
    <3>2. UNCHANGED <<lock, todo, out, said, pinged>>
      BY <1>1
    <3>3. QED BY <2>1, <3>1, <3>2 DEF ThreadOf
  <2>4. QED BY <2>2, <2>3
<1>5. ASSUME NEW e \in Clients \ pinged' PROVE StreamOf(e)'
  <2>1. Owed(e)' = Owed(e)
    BY <1>1, OwedSame
  <2>2. QED BY <1>1, <2>1, StreamSame
<1>6. Threads' /\ Streams'
  BY <1>4, <1>5 DEF Threads, Streams
<1>7. QED BY <1>3, <1>6 DEF ChatInd

LEMMA ChatKeeps == ChatInd /\ [ChatNext]_chat => ChatInd'
<1> SUFFICES ASSUME ChatInd, [ChatNext]_chat PROVE ChatInd'
  OBVIOUS
<1>1. CASE ChatNext
  <2>1. PICK c \in Clients : \/ ReadKey(c) \/ Register(c) \/ RegisterFails(c) \/ ReadText(c) \/ ReadPing(c)
                             \/ write_all(c) \/ WriteFails(c) \/ Unlock(c) \/ Hangup(c) \/ Panics(c) \/ Depart(c)
    BY <1>1, Zenon DEF ChatNext
  <2>2. QED BY <2>1, ReadKeyKeeps, RegisterKeeps, ReadTextKeeps, ReadPingKeeps, WriteKeeps,
                WriteFailsKeeps, UnlockKeeps, EndKeeps, Zenon
<1>2. CASE UNCHANGED chat
  <2>1. UNCHANGED <<clients, lock, stage, todo, out, said, count, pinged>>
    BY <1>2 DEF chat
  <2>2. ChatType'
    BY <2>1 DEF ChatInd, ChatType
  <2>3. ASSUME NEW d \in Clients PROVE ThreadOf(d)'
    <3>1. ThreadOf(d)
      BY DEF ChatInd, Threads
    <3>2. QED BY <2>1, <3>1 DEF ThreadOf
  <2>4. ASSUME NEW e \in Clients \ pinged' PROVE StreamOf(e)'
    <3>1. Owed(e)' = Owed(e)
      BY <2>1, OwedSame
    <3>2. QED BY <2>1, <3>1, StreamSame
  <2>5. QED BY <2>2, <2>3, <2>4 DEF ChatInd, Threads, Streams
<1>3. QED BY <1>1, <1>2

\* The chat keeps its inductive invariant: who holds the mutex writes to
\* registered clients and to nobody twice, anyone else writes only its own
\* answer or Pong, and the stream of a registered client that sent no Ping is
\* the answer and whole texts in order once what the broadcast still owes it
\* is written.
THEOREM ChatInvariant == ChatSpec => []ChatInd
BY ChatStarts, ChatKeeps, PTL DEF ChatSpec

LEMMA StreamsDecode == ChatInd => WholeInOrder
<1> SUFFICES ASSUME ChatInd, NEW c \in Clients \ pinged, out[c] # << >>
             PROVE  /\ Head(out[c]) = Head(Upgrade)
                    /\ Quiet(c) /\ c \in clients => Decode(Tail(out[c])).rest = << >>
                    /\ \E at \in [DOMAIN Decode(Tail(out[c])).frames -> DOMAIN said] :
                         /\ \A j, k \in DOMAIN at : j < k => at[j] < at[k]
                         /\ \A k \in DOMAIN at : Decode(Tail(out[c])).frames[k] = said[at[k]]
  BY Zenon DEF WholeInOrder
<1>1. said \in Seq(Msgs) /\ Len(said) <= MaxFrames
  BY WsAssumption DEF ChatInd, ChatType
<1>2. StreamOf(c)
  BY DEF ChatInd, Streams
<1>3. \E part : Decodes(out[c], said, part)
  <2>1. PICK got, at, part : Carries(out[c], said, got, at, part)
    BY <1>2, Zenon DEF StreamOf, Torn
  <2>2. Decodes(out[c], said, part)
    BY <1>1, <2>1, CarriesDecodes
  <2>3. QED BY <2>2, Zenon
<1>4. ASSUME Quiet(c), c \in clients PROVE Decodes(out[c], said, << >>)
  <2>1. Owed(c) = {}
    <3>1. CASE lock = "free"
      BY <3>1 DEF Owed
    <3>2. CASE lock # "free"
      <4>1. lock \in Clients /\ todo[lock] \in Seq(Writes)
        BY <3>2 DEF ChatInd, ChatType
      <4>2. \A k \in 1 .. Len(todo[lock]) : todo[lock][k].to # c
        BY <1>4, <4>1 DEF Quiet
      <4>3. OwedIn(todo[lock], c) = {}
        BY <4>2 DEF OwedIn
      <4>4. QED BY <3>2, <4>3, Zenon DEF Owed
    <3>3. QED BY <3>1, <3>2
  <2>2. Sound(out[c], said, {})
    BY <1>2, <1>4, <2>1, Zenon DEF StreamOf
  <2>3. PICK got, at, part : Carries(out[c], said, got, at, part) /\ Pays(said, got, at, part, {})
    BY <2>2, Zenon DEF Sound
  <2>4. part = << >>
    BY <2>3, Zenon DEF Pays
  <2>5. Decodes(out[c], said, part)
    BY <1>1, <2>3, CarriesDecodes
  <2>6. QED BY <2>4, <2>5, Zenon
<1>5. QED BY <1>3, <1>4, Zenon DEF Decodes

\* Whatever the threads interleave, the stream of a client that sent no Ping
\* is the 101 answer and texts in the order their broadcasts took the mutex,
\* each whole and decoding to what was sent: broadcast in server.rs writes
\* under the registry's mutex.
THEOREM StreamsInOrder == ChatSpec => []WholeInOrder
BY ChatInvariant, StreamsDecode, PTL

-----------------------------------------------------------------------------
(* The todo page: what serialize writes, deserialize reads *)

Symbol == STRING \cup {Tab, Newline, CR, BS, "t", "n"} \cup {ToString(x) : x \in 1 .. MaxAdds}
            \cup {ToString(x) : x \in BOOLEAN}
InLine == Symbol \ {Newline}

LEMMA SpecialApart ==
    /\ BS # Tab /\ BS # Newline /\ BS # CR /\ Tab # Newline /\ Tab # CR /\ Newline # CR
    /\ "t" # BS /\ "n" # BS /\ "t" # "n" /\ "t" # Newline /\ "n" # Newline /\ "t" # CR /\ "n" # CR
BY DEF BS, Tab, Newline, CR

\* What escape makes of a character.
escaped(c) == CASE c = BS -> <<BS, BS>> [] c = Tab -> <<BS, "t">> [] c = Newline -> <<BS, "n">> [] OTHER -> <<c>>
esc == [c \in Symbol |-> escaped(c)]

LEMMA EscIs ==
    ASSUME NEW c \in Symbol
    PROVE  /\ c = BS => esc[c] = <<BS, BS>>
           /\ c = Tab => esc[c] = <<BS, "t">>
           /\ c = Newline => esc[c] = <<BS, "n">>
           /\ c \notin {BS, Tab, Newline} => esc[c] = <<c>>
<1>1. esc[c] = CASE c = BS -> <<BS, BS>>
                 [] c = Tab -> <<BS, "t">>
                 [] c = Newline -> <<BS, "n">>
                 [] OTHER -> <<c>>
  BY Zenon DEF esc, escaped
<1>2. CASE c = BS
  <2>1. c # Tab /\ c # Newline
    BY <1>2, SpecialApart
  <2>2. QED BY <1>1, <1>2, <2>1, Zenon
<1>3. CASE c = Tab
  <2>1. c # BS /\ c # Newline
    BY <1>3, SpecialApart
  <2>2. QED BY <1>1, <1>3, <2>1, Zenon
<1>4. CASE c = Newline
  <2>1. c # BS /\ c # Tab
    BY <1>4, SpecialApart
  <2>2. QED BY <1>1, <1>4, <2>1, Zenon
<1>5. CASE c \notin {BS, Tab, Newline}
  <2>1. c # BS /\ c # Tab /\ c # Newline
    BY <1>5
  <2>2. QED BY <1>1, <1>5, <2>1, Zenon
<1>6. QED BY <1>2, <1>3, <1>4, <1>5

LEMMA EscType == esc \in [Symbol -> Seq(InLine)]
<1>1. ASSUME NEW c \in Symbol PROVE esc[c] \in Seq(InLine)
  <2>1. BS \in InLine /\ "t" \in InLine /\ "n" \in InLine /\ (c # Newline => c \in InLine)
    BY SpecialApart DEF InLine, Symbol
  <2>2. <<BS, BS>> \in Seq(InLine) /\ <<BS, "t">> \in Seq(InLine) /\ <<BS, "n">> \in Seq(InLine)
        /\ (c # Newline => <<c>> \in Seq(InLine))
    BY <2>1
  <2>3. QED BY <2>2, EscIs, Zenon
<1>2. \A c \in Symbol : escaped(c) \in Seq(InLine)
  BY <1>1, Zenon DEF esc
<1>3. QED BY <1>2, Zenon DEF esc

LEMMA InLineIsSymbol == InLine \subseteq Symbol /\ Seq(InLine) \subseteq Seq(Symbol) /\ Seq(STRING) \subseteq Seq(Symbol)
<1>1. InLine \subseteq Symbol /\ STRING \subseteq Symbol
  BY DEF InLine, Symbol
<1>2. ASSUME NEW A, NEW B, A \subseteq B PROVE Seq(A) \subseteq Seq(B)
  BY <1>2
<1>3. QED BY <1>1, <1>2, Zenon

LEMMA EscapeIs ==
    ASSUME NEW s \in Seq(Symbol)
    PROVE  escape(s) = Spell(esc, s) /\ escape(s) \in Seq(InLine)
<1>1. PICK L \in Nat : L = Len(s) /\ DOMAIN s = 1 .. L
  OBVIOUS
<1>2. ASSUME NEW k \in 1 .. L
      PROVE  esc[s[k]] = CASE s[k] = BS -> <<BS, BS>>
                           [] s[k] = Tab -> <<BS, "t">>
                           [] s[k] = Newline -> <<BS, "n">>
                           [] OTHER -> <<s[k]>>
  <2>1. s[k] \in Symbol
    BY <1>1
  <2>2. QED BY <2>1, Zenon DEF esc, escaped
<1>3. Spellings(esc, s) = [k \in DOMAIN s |-> CASE s[k] = BS -> <<BS, BS>>
                                             [] s[k] = Tab -> <<BS, "t">>
                                             [] s[k] = Newline -> <<BS, "n">>
                                             [] OTHER -> <<s[k]>>]
  BY <1>1, <1>2, Zenon DEF Spellings
<1>4. escape(s) = Spell(esc, s)
  BY <1>3, Zenon DEF escape, Spell
<1>5. Spell(esc, s) \in Seq(InLine)
  BY EscType, SpellType
<1>6. QED BY <1>4, <1>5, Zenon

-----------------------------------------------------------------------------
\* What unescape takes at a place, and where it goes on.
Pair(s, i) == s[i] = BS /\ i # Len(s)
Meant(c) == CASE c = "t" -> <<Tab>> [] c = "n" -> <<Newline>> [] c = BS -> <<BS>> [] OTHER -> <<BS, c>>
Take(s, i) == IF Pair(s, i) THEN Meant(s[i + 1]) ELSE <<s[i]>>
GoOn(s, i) == IF Pair(s, i) THEN i + 2 ELSE i + 1

Unescaping(s, f) ==
    /\ f[Len(s) + 1] = << >>
    /\ \A i \in 1 .. Len(s) : f[i] = Take(s, i) \o f[GoOn(s, i)]
HasUnescaping(s) == \E f : unescape(s) = f[1] /\ Unescaping(s, f)

LEMMA MeantIs ==
    /\ Meant("t") = <<Tab>> /\ Meant("n") = <<Newline>> /\ Meant(BS) = <<BS>>
    /\ \A c \in Symbol : Meant(c) \in Seq(Symbol)
<1>1. Meant("t") = <<Tab>> /\ Meant("n") = <<Newline>> /\ Meant(BS) = <<BS>>
  BY SpecialApart DEF Meant
<1>2. ASSUME NEW c \in Symbol PROVE Meant(c) \in Seq(Symbol)
  <2>1. Tab \in Symbol /\ Newline \in Symbol /\ BS \in Symbol
    BY DEF Symbol
  <2>2. <<Tab>> \in Seq(Symbol) /\ <<Newline>> \in Seq(Symbol) /\ <<BS>> \in Seq(Symbol) /\ <<BS, c>> \in Seq(Symbol)
    BY <2>1
  <2>3. CASE c \in {"t", "n", BS}
    BY <1>1, <2>2, <2>3
  <2>4. CASE c \notin {"t", "n", BS}
    <3>1. Meant(c) = <<BS, c>>
      BY <2>4, Zenon DEF Meant
    <3>2. QED BY <2>2, <3>1, Zenon
  <2>5. QED BY <2>3, <2>4
<1>3. QED BY <1>1, <1>2

LEMMA TakeType ==
    ASSUME NEW s \in Seq(Symbol), NEW i \in 1 .. Len(s)
    PROVE  Take(s, i) \in Seq(Symbol) /\ GoOn(s, i) \in 1 .. (Len(s) + 1) /\ i < GoOn(s, i)
<1>1. PICK L \in Nat : L = Len(s)
  OBVIOUS
<1>2. CASE Pair(s, i)
  <2>1. i \in 1 .. L /\ i # L
    BY <1>1, <1>2 DEF Pair
  <2>2. i + 1 \in 1 .. L /\ i + 2 \in 1 .. L + 1 /\ i < i + 2
    BY <2>1
  <2>3. Meant(s[i + 1]) \in Seq(Symbol)
    BY <1>1, <2>2, MeantIs
  <2>4. QED BY <1>1, <1>2, <2>2, <2>3 DEF Take, GoOn
<1>3. CASE ~Pair(s, i)
  <2>1. s[i] \in Symbol /\ i + 1 \in 1 .. L + 1 /\ i < i + 1
    BY <1>1
  <2>2. QED BY <1>1, <1>3, <2>1 DEF Take, GoOn
<1>4. QED BY <1>2, <1>3

LEMMA UnescapeRuns ==
    ASSUME NEW s \in Seq(Symbol)
    PROVE  HasUnescaping(s)
<1>1. PICK L \in Nat : L = Len(s)
  OBVIOUS
<1> DEFINE Loop(g) == [i \in 1 .. L + 1 |->
                        IF i > L THEN << >>
                        ELSE IF s[i] # BS \/ i = L THEN <<s[i]>> \o g[i + 1]
                        ELSE (CASE s[i + 1] = "t" -> <<Tab>> [] s[i + 1] = "n" -> <<Newline>>
                                [] s[i + 1] = BS -> <<BS>> [] OTHER -> <<BS, s[i + 1]>>) \o g[i + 2]]
           f == CHOOSE g : g = Loop(g)
           part == [i \in 1 .. L |-> Take(s, i)]
           next == [i \in 1 .. L |-> GoOn(s, i)]
<1>2. unescape(s) = f[1]
  BY <1>1, SMT DEF unescape
<1>3. ASSUME NEW g, NEW i \in 1 .. L + 1
      PROVE  Loop(g)[i] = IF i > L THEN << >> ELSE Take(s, i) \o g[GoOn(s, i)]
  <2> DEFINE e == Loop(g)[i]
  <2>1. e = IF i > L THEN << >>
            ELSE IF s[i] # BS \/ i = L THEN <<s[i]>> \o g[i + 1]
            ELSE Meant(s[i + 1]) \o g[i + 2]
    BY Zenon DEF Meant
  <2> HIDE DEF e, Loop
  <2>2. CASE Pair(s, i)
    <3>1. ~(s[i] # BS \/ i = L)
      BY <1>1, <2>2, Zenon DEF Pair
    <3>2. Take(s, i) = Meant(s[i + 1]) /\ GoOn(s, i) = i + 2
      BY <2>2, Zenon DEF Take, GoOn
    <3>3. QED BY <2>1, <3>1, <3>2, Zenon DEF e
  <2>3. CASE ~Pair(s, i)
    <3>1. s[i] # BS \/ i = L
      BY <1>1, <2>3, Zenon DEF Pair
    <3>2. Take(s, i) = <<s[i]>> /\ GoOn(s, i) = i + 1
      BY <2>3, Zenon DEF Take, GoOn
    <3>3. QED BY <2>1, <3>1, <3>2, Zenon DEF e
  <2>4. QED BY <2>2, <2>3
<1>4. \A g : Loop(g) = [i \in 1 .. L + 1 |-> Loop(g)[i]]
  OBVIOUS
<1>5. /\ part \in [1 .. L -> Seq(Symbol)] /\ next \in [1 .. L -> 1 .. L + 1]
      /\ \A i \in 1 .. L : i < next[i] /\ part[i] = Take(s, i) /\ next[i] = GoOn(s, i)
  <2>1. \A i \in 1 .. L : Take(s, i) \in Seq(Symbol) /\ GoOn(s, i) \in 1 .. L + 1 /\ i < GoOn(s, i)
    BY <1>1, TakeType
  <2>2. QED BY <2>1
<1> HIDE DEF part, next, Loop
<1>6. L + 1 \in Nat /\ L < L + 1
  OBVIOUS
<1>7. HasScan(Symbol, L, L + 1, part, next)
  BY <1>5, <1>6, ScanRuns
<1>8. PICK h \in [1 .. L + 1 -> Seq(Symbol)] : Scans(L, L + 1, part, next, h)
  BY <1>7, Zenon DEF HasScan
<1>9. h = Loop(h)
  <2>1. ASSUME NEW i \in 1 .. L + 1 PROVE h[i] = Loop(h)[i]
    <3>1. h[i] = IF i > L THEN << >> ELSE part[i] \o h[next[i]]
      BY <1>8, Zenon DEF Scans
    <3>2. ~(i > L) => part[i] = Take(s, i) /\ next[i] = GoOn(s, i)
      BY <1>5
    <3>3. QED BY <1>3, <3>1, <3>2, Zenon
  <2>2. h = [i \in 1 .. L + 1 |-> h[i]]
    OBVIOUS
  <2>3. [i \in 1 .. L + 1 |-> h[i]] = [i \in 1 .. L + 1 |-> Loop(h)[i]]
    BY <2>1, Zenon
  <2>4. QED BY <1>4, <2>2, <2>3, Zenon
<1>10. f = Loop(f)
  BY <1>9, Zenon
<1> HIDE DEF f
<1>11. f[L + 1] = << >>
  <2>1. L + 1 \in 1 .. L + 1 /\ L + 1 > L
    OBVIOUS
  <2>2. QED BY <1>3, <1>10, <2>1, Zenon
<1>12. ASSUME NEW i \in 1 .. L PROVE f[i] = Take(s, i) \o f[GoOn(s, i)]
  <2>1. i \in 1 .. L + 1 /\ ~(i > L)
    OBVIOUS
  <2>2. QED BY <1>3, <1>10, <2>1, Zenon
<1>13. Unescaping(s, f)
  BY <1>1, <1>11, <1>12, Zenon DEF Unescaping
<1>14. QED BY <1>2, <1>13, Zenon DEF HasUnescaping

\* Behind p, the code of a character is taken for that character.
TakesAt(b, p, c) ==
    /\ Take(b, Len(p) + 1) = <<c>>
    /\ GoOn(b, Len(p) + 1) = Len(p \o esc[c]) + 1
    /\ Len(p) + 1 \in 1 .. Len(b)

LEMMA TakesBack ==
    ASSUME NEW p \in Seq(InLine), NEW c \in Symbol, NEW q \in Seq(InLine)
    PROVE  TakesAt((p \o esc[c]) \o q, p, c)
<1> DEFINE w == esc[c]
           v == p \o w
           b == v \o q
<1>1. w \in Seq(InLine)
  BY EscType
<1>2. PICK P \in Nat, W \in Nat, Z \in Nat : P = Len(p) /\ W = Len(w) /\ Z = Len(q)
  BY <1>1
<1> HIDE DEF w
<1>3. v \in Seq(InLine) /\ Len(v) = P + W /\ \A k \in 1 .. P + W : v[k] = IF k <= P THEN p[k] ELSE w[k - P]
  BY <1>1, <1>2, ConcatProperties
<1> HIDE DEF v
<1>4. b \in Seq(InLine) /\ Len(b) = P + W + Z /\ \A k \in 1 .. P + W : b[k] = v[k]
  <2>1. b \in Seq(InLine) /\ Len(b) = (P + W) + Z
        /\ \A k \in 1 .. (P + W) + Z : b[k] = IF k <= P + W THEN v[k] ELSE q[k - (P + W)]
    <3>1. b \in Seq(InLine) /\ Len(b) = Len(v) + Len(q)
          /\ \A k \in 1 .. Len(v) + Len(q) : b[k] = IF k <= Len(v) THEN v[k] ELSE q[k - Len(v)]
      BY <1>3, ConcatProperties
    <3>2. Len(v) = P + W /\ Len(q) = Z
      BY <1>2, <1>3
    <3> HIDE DEF b
    <3>3. QED BY <3>1, <3>2, Zenon
  <2> HIDE DEF b
  <2>2. QED BY <2>1
<1> HIDE DEF b
<1>5. ASSUME NEW k \in 1 .. W PROVE b[P + k] = w[k]
  <2>1. P + k \in 1 .. P + W /\ ~(P + k <= P) /\ (P + k) - P = k
    OBVIOUS
  <2>2. b[P + k] = v[P + k] /\ v[P + k] = w[(P + k) - P]
    BY <1>3, <1>4, <2>1
  <2>3. QED BY <2>1, <2>2
<1> SUFFICES Take(b, P + 1) = <<c>> /\ GoOn(b, P + 1) = Len(v) + 1 /\ P + 1 \in 1 .. Len(b)
  BY <1>2, Zenon DEF b, v, w, TakesAt
<1>6. CASE c \in {BS, Tab, Newline}
  <2>1. PICK x : w = <<BS, x>> /\ Meant(x) = <<c>>
    <3>1. CASE c = BS
      BY <3>1, EscIs, MeantIs, Zenon DEF w
    <3>2. CASE c = Tab
      BY <3>2, EscIs, MeantIs, Zenon DEF w
    <3>3. CASE c = Newline
      BY <3>3, EscIs, MeantIs, Zenon DEF w
    <3>4. QED BY <1>6, <3>1, <3>2, <3>3
  <2>2. W = 2 /\ w[1] = BS /\ w[2] = x
    BY <1>2, <2>1
  <2>3. b[P + 1] = BS /\ b[P + 2] = x
    BY <1>5, <2>2
  <2>4. (P + 1) + 1 = P + 2 /\ P + 1 # Len(b)
    BY <1>4, <2>2
  <2>5. Pair(b, P + 1)
    BY <2>3, <2>4 DEF Pair
  <2>6. Take(b, P + 1) = <<c>>
    BY <2>1, <2>3, <2>4, <2>5, Zenon DEF Take
  <2>7. GoOn(b, P + 1) = (P + 1) + 2
    BY <2>5 DEF GoOn
  <2>8. QED BY <1>3, <1>4, <2>2, <2>6, <2>7
<1>7. CASE c \notin {BS, Tab, Newline}
  <2>1. w = <<c>>
    BY <1>7, EscIs, Zenon DEF w
  <2>2. W = 1 /\ w[1] = c
    BY <1>2, <2>1
  <2>3. b[P + 1] = c /\ c # BS
    BY <1>5, <1>7, <2>2
  <2>4. ~Pair(b, P + 1)
    BY <2>3 DEF Pair
  <2>5. Take(b, P + 1) = <<c>> /\ GoOn(b, P + 1) = (P + 1) + 1
    BY <2>3, <2>4, Zenon DEF Take, GoOn
  <2>6. QED BY <1>3, <1>4, <2>2, <2>5
<1>8. QED BY <1>6, <1>7

\* unescape undoes escape.
LEMMA UnescapesEscaped ==
    ASSUME NEW t \in Seq(Symbol)
    PROVE  unescape(escape(t)) = t
<1>1. PICK L \in Nat : L = Len(t)
  OBVIOUS
<1> DEFINE b == escape(t)
           pre(k) == SubSeq(t, 1, k)
           at == [k \in 0 .. L |-> Len(Spell(esc, pre(k))) + 1]
<1>2. b = Spell(esc, t) /\ b \in Seq(InLine) /\ b \in Seq(Symbol)
  BY EscapeIs, InLineIsSymbol
<1> HIDE DEF b
<1>3. PICK f : unescape(b) = f[1] /\ Unescaping(b, f)
  BY <1>2, UnescapeRuns, Zenon DEF HasUnescaping
<1>4. pre(L) = t /\ pre(0) = << >>
  <2>1. pre(L) = t
    BY <1>1, SubSeqFull
  <2>2. pre(0) = << >>
    BY <1>1, SubSeqEmpty
  <2>3. QED BY <2>1, <2>2
<1>5. \A k \in 0 .. L : at[k] = Len(Spell(esc, pre(k))) + 1
  BY Zenon
<1>6. at[L] = Len(b) + 1 /\ at[0] = 1
  <2>1. Len(Spell(esc, << >>)) + 1 = 1
    BY SpellEmpty
  <2>2. L \in 0 .. L /\ 0 \in 0 .. L
    OBVIOUS
  <2> HIDE DEF pre, at
  <2>3. QED BY <1>2, <1>4, <1>5, <2>1, <2>2, Zenon
<1>7. ASSUME NEW k \in 1 .. L PROVE f[at[k - 1]] = <<t[k]>> \o f[at[k]]
  <2> DEFINE p == Spell(esc, pre(k - 1))
             c == t[k]
             q == Spell(esc, SubSeq(t, k + 1, Len(t)))
  <2>1. c \in Symbol /\ k - 1 \in 0 .. L /\ k \in 0 .. L
    BY <1>1
  <2>2. SpellCut(esc, t, k)
    BY <1>1, EscType, SpellAt
  <2>3. Spell(esc, t) = (p \o esc[c]) \o q /\ Spell(esc, pre(k)) = p \o esc[c]
    BY <2>2, Zenon DEF SpellCut
  <2>4. p \in Seq(InLine) /\ q \in Seq(InLine)
    <3>1. pre(k - 1) \in Seq(Symbol) /\ SubSeq(t, k + 1, Len(t)) \in Seq(Symbol)
      BY <1>1, <2>1, CutAt
    <3> HIDE DEF pre
    <3>2. QED BY <3>1, EscType, SpellType
  <2> HIDE DEF pre
  <2>5. at[k] = Len(p \o esc[c]) + 1 /\ at[k - 1] = Len(p) + 1
    BY <1>5, <2>1, <2>3, Zenon
  <2> HIDE DEF p, q, c, at
  <2>6. TakesAt((p \o esc[c]) \o q, p, c)
    BY <2>1, <2>4, TakesBack
  <2>7. TakesAt(b, p, c)
    BY <1>2, <2>3, <2>6, Zenon
  <2>8. /\ Take(b, Len(p) + 1) = <<c>>
        /\ GoOn(b, Len(p) + 1) = Len(p \o esc[c]) + 1
        /\ Len(p) + 1 \in 1 .. Len(b)
    BY <2>7, Zenon DEF TakesAt
  <2>9. f[Len(p) + 1] = Take(b, Len(p) + 1) \o f[GoOn(b, Len(p) + 1)]
    BY <1>3, <2>8, Zenon DEF Unescaping
  <2>10. QED BY <2>5, <2>8, <2>9, Zenon DEF c
<1>8. f[at[Len(t)]] = << >> /\ \A k \in 1 .. Len(t) : f[at[k - 1]] = <<t[k]>> \o f[at[k]]
  <2> HIDE DEF at
  <2> QED BY <1>1, <1>3, <1>6, <1>7, Zenon DEF Unescaping
<1> HIDE DEF at
<1>9. f[at[0]] = t
  BY <1>8, ScanReads
<1>10. QED BY <1>3, <1>6, <1>9, Zenon DEF b

-----------------------------------------------------------------------------
\* A text as the list holds it: not empty, and it does not end in a carriage
\* return, which lines would take for the end of the line.
Kind(s) == s \in Seq(Symbol) /\ s # << >> /\ s[Len(s)] # CR
TodoSet == [id : 1 .. MaxAdds, done : BOOLEAN, text : {s \in Seq(Symbol) : Kind(s)}]

LEMMA TodoParts ==
    ASSUME NEW t \in TodoSet
    PROVE  /\ t.id \in 1 .. MaxAdds /\ t.done \in BOOLEAN /\ t.text \in Seq(Symbol)
           /\ t.text # << >> /\ t.text[Len(t.text)] # CR
BY DEF TodoSet, Kind

\* The last character of an escaped text.
LEMMA EscapeEnds ==
    ASSUME NEW s \in Seq(Symbol), s # << >>, s[Len(s)] # CR
    PROVE  escape(s) # << >> /\ escape(s)[Len(escape(s))] # CR
<1>1. PICK L \in Nat : L = Len(s) /\ L >= 1
  OBVIOUS
<1> DEFINE a == Spell(esc, SubSeq(s, 1, L - 1))
           c == s[L]
           w == esc[c]
<1>2. c \in Symbol /\ c # CR /\ L \in 1 .. Len(s)
  BY <1>1
<1>3. SpellCut(esc, s, L)
  BY <1>1, <1>2, EscType, SpellAt
<1>4. Spell(esc, SubSeq(s, 1, L)) = a \o w
  BY <1>3, Zenon DEF SpellCut
<1>5. SubSeq(s, 1, L) = s
  BY <1>1, SubSeqFull
<1>6. escape(s) = a \o w
  BY <1>4, <1>5, EscapeIs, Zenon
<1>7. a \in Seq(InLine)
  <2>1. SubSeq(s, 1, L - 1) \in Seq(Symbol)
    BY <1>1, CutAt
  <2>2. QED BY <2>1, EscType, SpellType
<1>8. w \in Seq(InLine) /\ Len(w) \in {1, 2} /\ w[Len(w)] # CR
  <2>1. w \in Seq(InLine)
    BY <1>2, EscType
  <2>2. w \in {<<BS, BS>>, <<BS, "t">>, <<BS, "n">>, <<c>>}
    <3> HIDE DEF c
    <3> QED BY <1>2, EscIs, Zenon
  <2> HIDE DEF w, c
  <2>3. CASE w = <<c>>
    <3>1. Len(w) = 1 /\ w[1] = c
      BY <2>3
    <3>2. QED BY <1>2, <2>1, <3>1
  <2>4. CASE w # <<c>>
    <3>1. PICK x : w = <<BS, x>> /\ x # CR
      BY <2>2, <2>4, SpecialApart
    <3>2. Len(w) = 2 /\ w[2] = x
      BY <3>1
    <3>3. QED BY <2>1, <3>1, <3>2
  <2>5. QED BY <2>3, <2>4
<1> DEFINE e == a \o w
<1> HIDE DEF a, w, c
<1>9. PICK A \in Nat, W \in {1, 2} : A = Len(a) /\ W = Len(w)
  BY <1>7, <1>8
<1>10. Len(e) = A + W /\ \A k \in 1 .. A + W : e[k] = IF k <= A THEN a[k] ELSE w[k - A]
  BY <1>7, <1>8, <1>9, ConcatProperties
<1> HIDE DEF e
<1>11. A + W \in 1 .. A + W /\ ~(A + W <= A) /\ (A + W) - A = W
  BY <1>9
<1>12. e[A + W] = w[W]
  BY <1>10, <1>11
<1>13. e[Len(e)] # CR /\ Len(e) # 0
  BY <1>8, <1>9, <1>10, <1>12
<1>14. e # << >>
  BY <1>13
<1>15. QED BY <1>6, <1>13, <1>14, Zenon DEF e

-----------------------------------------------------------------------------
\* A row: it stays in its line and its fields can be read.
RowGood(t, r) ==
    /\ r \in Seq(InLine) /\ Len(r) >= 5 /\ r[Len(r)] # CR
    /\ Good(r) /\ Parsed(r) = t

LEMMA RowIs ==
    ASSUME NEW t \in TodoSet
    PROVE  RowGood(t, row(t))
<1> DEFINE a == <<ToString(t.id), Tab, ToString(t.done), Tab>>
           e == escape(t.text)
           r == a \o e
<1>1. /\ t.id \in 1 .. MaxAdds /\ t.done \in BOOLEAN /\ t.text \in Seq(Symbol)
      /\ t.text # << >> /\ t.text[Len(t.text)] # CR
  BY TodoParts
<1>2. ToString(t.id) \in InLine /\ ToString(t.done) \in InLine /\ Tab \in InLine
  <2>1. ToString(t.id) \in Symbol /\ ToString(t.done) \in Symbol /\ Tab \in Symbol
    BY <1>1 DEF Symbol
  <2>2. ToString(t.id) # Newline /\ ToString(t.done) # Newline /\ Tab # Newline
    BY <1>1, TodoAssumption, SpecialApart
  <2>3. QED BY <2>1, <2>2 DEF InLine
<1>3. a \in Seq(InLine) /\ Len(a) = 4 /\ a[1] = ToString(t.id) /\ a[2] = Tab /\ a[3] = ToString(t.done) /\ a[4] = Tab
  BY <1>2
<1>4. e \in Seq(InLine) /\ e # << >> /\ e[Len(e)] # CR
  BY <1>1, EscapeIs, EscapeEnds
<1>5. row(t) = r
  BY DEF row
<1> HIDE DEF a, e
<1>6. PICK E \in Nat : E = Len(e) /\ E >= 1
  BY <1>4
<1>7. r \in Seq(InLine) /\ Len(r) = 4 + E /\ \A k \in 1 .. 4 + E : r[k] = IF k <= 4 THEN a[k] ELSE e[k - 4]
  <2>1. r \in Seq(InLine) /\ Len(r) = Len(a) + Len(e)
        /\ \A k \in 1 .. Len(a) + Len(e) : r[k] = IF k <= Len(a) THEN a[k] ELSE e[k - Len(a)]
    BY <1>3, <1>4, ConcatProperties
  <2> HIDE DEF r
  <2>2. QED BY <1>3, <1>6, <2>1
<1>8. SubSeq(r, Len(a) + 1, Len(r)) = e
  BY <1>3, <1>4, ConcatCut
<1> HIDE DEF r
<1>9. r[1] = ToString(t.id) /\ r[2] = Tab /\ r[3] = ToString(t.done) /\ r[4] = Tab /\ r[4 + E] = e[E]
  <2>1. r[1] = a[1] /\ r[2] = a[2] /\ r[3] = a[3] /\ r[4] = a[4]
    BY <1>6, <1>7
  <2>2. 4 + E \in 1 .. 4 + E /\ ~(4 + E <= 4) /\ (4 + E) - 4 = E
    BY <1>6
  <2>3. r[4 + E] = e[E]
    BY <1>7, <2>2
  <2>4. QED BY <1>3, <2>1, <2>3
<1>10. Len(r) >= 5 /\ r[Len(r)] # CR /\ SubSeq(r, 5, Len(r)) = e
  <2>1. Len(r) >= 5 /\ 4 + 1 = 5
    BY <1>6, <1>7
  <2>2. r[Len(r)] # CR
    BY <1>4, <1>6, <1>7, <1>9
  <2>3. QED BY <1>3, <1>8, <2>1, <2>2
<1>11. Good(r)
  <2>1. r[3] \in {ToString(TRUE), ToString(FALSE)}
    BY <1>1, <1>9
  <2>2. \E n \in 1 .. MaxAdds : ToString(n) = r[1]
    BY <1>1, <1>9
  <2>3. Len(r) >= 4
    BY <1>7
  <2>4. QED BY <1>9, <2>1, <2>2, <2>3 DEF Good
<1>12. Parsed(r) = t
  <2>1. (CHOOSE n \in 1 .. MaxAdds : ToString(n) = r[1]) = t.id
    <3>1. \A n \in 1 .. MaxAdds : ToString(n) = r[1] <=> n = t.id
      BY <1>1, <1>9, TodoAssumption
    <3>2. QED BY <1>1, <3>1
  <2>2. (r[3] = ToString(TRUE)) = t.done
    <3>1. CASE t.done = TRUE
      BY <1>9, <3>1
    <3>2. CASE t.done = FALSE
      BY <1>9, <3>2, TodoAssumption
    <3>3. QED BY <1>1, <3>1, <3>2
  <2>3. unescape(SubSeq(r, 5, Len(r))) = t.text
    BY <1>1, <1>10, UnescapesEscaped DEF e
  <2>4. Parsed(r) = [id |-> t.id, done |-> t.done, text |-> t.text]
    BY <2>1, <2>2, <2>3, Zenon DEF Parsed
  <2>5. t = [id |-> t.id, done |-> t.done, text |-> t.text]
    BY DEF TodoSet
  <2>6. QED BY <2>4, <2>5, Zenon
<1>13. QED BY <1>5, <1>7, <1>10, <1>11, <1>12, Zenon DEF RowGood

-----------------------------------------------------------------------------
\* Where the line that starts at i ends, and what it is.
EndOf(s, i) == Min({j \in i .. Len(s) + 1 : j = Len(s) + 1 \/ s[j] = Newline})
LineAt(s, i) == SubSeq(s, i, EndOf(s, i) - (IF EndOf(s, i) <= Len(s) /\ EndOf(s, i) > i /\ s[EndOf(s, i) - 1] = CR
                                            THEN 2 ELSE 1))
Lining(s, f) ==
    /\ f[Len(s) + 1] = << >> /\ f[Len(s) + 2] = << >>
    /\ \A i \in 1 .. Len(s) : f[i] = <<LineAt(s, i)>> \o f[EndOf(s, i) + 1]
HasLining(s) == \E f : lines(s) = f[1] /\ Lining(s, f)

LEMMA EndIs ==
    ASSUME NEW s \in Seq(Symbol), NEW i \in 1 .. Len(s)
    PROVE  /\ EndOf(s, i) \in i .. Len(s) + 1
           /\ \A e \in i .. Len(s) + 1 :
                (e = Len(s) + 1 \/ s[e] = Newline) /\ (\A j \in i .. e - 1 : s[j] # Newline) => EndOf(s, i) = e
<1> DEFINE T == {j \in i .. Len(s) + 1 : j = Len(s) + 1 \/ s[j] = Newline}
<1>1. PICK L \in Nat : L = Len(s)
  OBVIOUS
<1>2. T \in SUBSET Nat /\ L + 1 \in T /\ T \in SUBSET (i .. L + 1)
  BY <1>1
<1>3. Min(T) \in T /\ \A j \in T : Min(T) <= j
  <2> HIDE DEF T
  <2> QED BY <1>2, MinIs
<1>4. EndOf(s, i) = Min(T)
  BY DEF EndOf
<1>5. PICK m \in i .. L + 1 : m = Min(T) /\ (m = L + 1 \/ s[m] = Newline) /\ \A j \in T : m <= j
  BY <1>1, <1>3
<1>6. ASSUME NEW e \in i .. L + 1, e = L + 1 \/ s[e] = Newline, \A j \in i .. e - 1 : s[j] # Newline
      PROVE  m = e
  <2>1. e \in T
    BY <1>1, <1>6
  <2>2. m <= e
    BY <1>5, <2>1
  <2>3. m < e => m \in i .. e - 1 /\ m # L + 1
    OBVIOUS
  <2>4. ~(m < e)
    BY <1>5, <1>6, <2>3
  <2>5. QED BY <2>2, <2>4
<1>7. QED BY <1>1, <1>4, <1>5, <1>6

LEMMA LineType ==
    ASSUME NEW s \in Seq(Symbol), NEW i \in 1 .. Len(s)
    PROVE  LineAt(s, i) \in Seq(Symbol)
<1>1. PICK L \in Nat : L = Len(s)
  OBVIOUS
<1>2. PICK e \in i .. L + 1 : e = EndOf(s, i)
  BY <1>1, EndIs
<1>3. PICK c : c = IF e <= L /\ e > i /\ s[e - 1] = CR THEN 2 ELSE 1
  OBVIOUS
<1>4. c \in {1, 2} /\ e - c \in Int /\ e - c <= L
  BY <1>3
<1>5. LineAt(s, i) = SubSeq(s, i, e - c)
  BY <1>1, <1>2, <1>3, Zenon DEF LineAt
<1>6. SubSeq(s, i, e - c) \in Seq(Symbol)
  BY <1>1, <1>4
<1>7. QED BY <1>5, <1>6, Zenon

LEMMA LinesRuns ==
    ASSUME NEW s \in Seq(Symbol)
    PROVE  HasLining(s)
<1>1. PICK L \in Nat : L = Len(s)
  OBVIOUS
<1> DEFINE Loop(g) == [i \in 1 .. L + 2 |-> IF i > L THEN << >> ELSE <<LineAt(s, i)>> \o g[EndOf(s, i) + 1]]
           f == CHOOSE g : g = Loop(g)
           part == [i \in 1 .. L |-> <<LineAt(s, i)>>]
           next == [i \in 1 .. L |-> EndOf(s, i) + 1]
           Q == Seq(Symbol)
<1>2. lines(s) = f[1]
  BY <1>1, Zenon DEF lines, LineAt, EndOf
<1>3. ASSUME NEW g, NEW i \in 1 .. L + 2
      PROVE  Loop(g)[i] = IF i > L THEN << >> ELSE <<LineAt(s, i)>> \o g[EndOf(s, i) + 1]
  BY Zenon
<1>4. \A g : Loop(g) = [i \in 1 .. L + 2 |-> Loop(g)[i]]
  OBVIOUS
<1>5. /\ part \in [1 .. L -> Seq(Q)] /\ next \in [1 .. L -> 1 .. L + 2]
      /\ \A i \in 1 .. L : i < next[i] /\ part[i] = <<LineAt(s, i)>> /\ next[i] = EndOf(s, i) + 1
  <2>1. ASSUME NEW i \in 1 .. L
        PROVE  LineAt(s, i) \in Q /\ EndOf(s, i) + 1 \in 1 .. L + 2 /\ i < EndOf(s, i) + 1
    <3>1. EndOf(s, i) \in i .. L + 1
      BY <1>1, EndIs
    <3>2. LineAt(s, i) \in Q
      BY <1>1, LineType
    <3>3. QED BY <3>1, <3>2
  <2> HIDE DEF Q
  <2>2. QED BY <2>1
<1> HIDE DEF part, next, Loop, Q
<1>6. L + 2 \in Nat /\ L < L + 2
  OBVIOUS
<1>7. HasScan(Q, L, L + 2, part, next)
  BY <1>5, <1>6, ScanRuns
<1>8. PICK h \in [1 .. L + 2 -> Seq(Q)] : Scans(L, L + 2, part, next, h)
  BY <1>7, Zenon DEF HasScan
<1>9. h = Loop(h)
  <2>1. ASSUME NEW i \in 1 .. L + 2 PROVE h[i] = Loop(h)[i]
    <3>1. h[i] = IF i > L THEN << >> ELSE part[i] \o h[next[i]]
      BY <1>8, Zenon DEF Scans
    <3>2. ~(i > L) => part[i] = <<LineAt(s, i)>> /\ next[i] = EndOf(s, i) + 1
      BY <1>5
    <3>3. QED BY <1>3, <3>1, <3>2, Zenon
  <2>2. h = [i \in 1 .. L + 2 |-> h[i]]
    OBVIOUS
  <2>3. [i \in 1 .. L + 2 |-> h[i]] = [i \in 1 .. L + 2 |-> Loop(h)[i]]
    BY <2>1, Zenon
  <2>4. QED BY <1>4, <2>2, <2>3, Zenon
<1>10. f = Loop(f)
  BY <1>9, Zenon
<1> HIDE DEF f
<1>11. f[L + 1] = << >> /\ f[L + 2] = << >>
  <2>1. L + 1 \in 1 .. L + 2 /\ L + 1 > L /\ L + 2 \in 1 .. L + 2 /\ L + 2 > L
    OBVIOUS
  <2>2. QED BY <1>3, <1>10, <2>1, Zenon
<1>12. ASSUME NEW i \in 1 .. L PROVE f[i] = <<LineAt(s, i)>> \o f[EndOf(s, i) + 1]
  <2>1. i \in 1 .. L + 2 /\ ~(i > L)
    OBVIOUS
  <2>2. QED BY <1>3, <1>10, <2>1, Zenon
<1>13. Lining(s, f)
  BY <1>1, <1>11, <1>12, Zenon DEF Lining
<1>14. QED BY <1>2, <1>13, Zenon DEF HasLining

-----------------------------------------------------------------------------
\* Behind p, the line with r is read: it ends where its newline is, or was.
CutLast(z) == SubSeq(z, 1, Len(z) - 1)
LineThere(s, p, r) ==
    /\ Len(p) + 1 \in 1 .. Len(s)
    /\ LineAt(s, Len(p) + 1) = r
    /\ EndOf(s, Len(p) + 1) = Len(p \o (r \o <<Newline>>))

LEMMA ReadsLine ==
    ASSUME NEW p \in Seq(Symbol), NEW q \in Seq(Symbol),
           NEW r \in Seq(InLine), Len(r) >= 5, r[Len(r)] # CR
    PROVE  LineThere(CutLast((p \o (r \o <<Newline>>)) \o q), p, r)
<1> DEFINE o == <<Newline>>
           w == r \o o
           v == p \o w
           z == v \o q
           s == CutLast(z)
<1>1. PICK P \in Nat, R \in Nat, Z \in Nat : P = Len(p) /\ R = Len(r) /\ Z = Len(q) /\ R >= 5
  OBVIOUS
<1>2. r \in Seq(Symbol) /\ o \in Seq(Symbol) /\ Len(o) = 1 /\ o[1] = Newline
  <2>1. Newline \in Symbol
    BY DEF Symbol
  <2>2. QED BY <2>1, InLineIsSymbol
<1>3. \A k \in 1 .. R : r[k] \in Symbol /\ r[k] # Newline
  <2>1. \A k \in 1 .. R : r[k] \in InLine
    BY <1>1
  <2>2. QED BY <2>1 DEF InLine
<1> HIDE DEF o
<1>4. w \in Seq(Symbol) /\ Len(w) = R + 1 /\ (\A k \in 1 .. R : w[k] = r[k]) /\ w[R + 1] = Newline
  <2>1. w \in Seq(Symbol) /\ Len(w) = Len(r) + Len(o)
        /\ \A k \in 1 .. Len(r) + Len(o) : w[k] = IF k <= Len(r) THEN r[k] ELSE o[k - Len(r)]
    BY <1>2, ConcatProperties
  <2> HIDE DEF w
  <2>2. \A k \in 1 .. R + 1 : w[k] = IF k <= R THEN r[k] ELSE o[k - R]
    BY <1>1, <1>2, <2>1
  <2>3. R + 1 \in 1 .. R + 1 /\ ~(R + 1 <= R) /\ (R + 1) - R = 1
    OBVIOUS
  <2>4. w[R + 1] = Newline
    BY <1>2, <2>2, <2>3
  <2>5. QED BY <1>1, <1>2, <2>1, <2>2, <2>4
<1> HIDE DEF w
<1>5. v \in Seq(Symbol) /\ Len(v) = P + R + 1 /\ \A k \in 1 .. R + 1 : v[P + k] = w[k]
  <2>1. v \in Seq(Symbol) /\ Len(v) = Len(p) + Len(w)
        /\ \A k \in 1 .. Len(p) + Len(w) : v[k] = IF k <= Len(p) THEN p[k] ELSE w[k - Len(p)]
    BY <1>4, ConcatProperties
  <2> HIDE DEF v
  <2>2. \A k \in 1 .. P + (R + 1) : v[k] = IF k <= P THEN p[k] ELSE w[k - P]
    BY <1>1, <1>4, <2>1
  <2>3. ASSUME NEW k \in 1 .. R + 1 PROVE v[P + k] = w[k]
    <3>1. P + k \in 1 .. P + (R + 1) /\ ~(P + k <= P) /\ (P + k) - P = k
      OBVIOUS
    <3>2. QED BY <2>2, <3>1
  <2>4. QED BY <1>1, <1>4, <2>1, <2>3
<1> HIDE DEF v
<1>6. z \in Seq(Symbol) /\ Len(z) = P + R + 1 + Z /\ \A k \in 1 .. R + 1 : z[P + k] = w[k]
  <2>1. z \in Seq(Symbol) /\ Len(z) = Len(v) + Len(q)
        /\ \A k \in 1 .. Len(v) + Len(q) : z[k] = IF k <= Len(v) THEN v[k] ELSE q[k - Len(v)]
    BY <1>5, ConcatProperties
  <2> HIDE DEF z
  <2>2. \A k \in 1 .. P + R + 1 : z[k] = v[k]
    BY <1>1, <1>5, <2>1
  <2>3. \A k \in 1 .. R + 1 : P + k \in 1 .. P + R + 1
    OBVIOUS
  <2>4. QED BY <1>1, <1>5, <2>1, <2>2, <2>3
<1> HIDE DEF z
<1>7. s \in Seq(Symbol) /\ Len(s) = P + R + Z /\ \A k \in 1 .. P + R + Z : s[k] = z[k]
  <2>1. s = SubSeq(z, 1, P + R + Z)
    BY <1>6 DEF CutLast
  <2> HIDE DEF s
  <2>2. QED BY <1>6, <2>1
<1> HIDE DEF s
<1>8. ASSUME NEW k \in 1 .. R PROVE P + k \in 1 .. P + R + Z /\ s[P + k] = r[k]
  <2>1. P + k \in 1 .. P + R + Z /\ k \in 1 .. R + 1
    OBVIOUS
  <2>2. QED BY <1>4, <1>6, <1>7, <2>1
<1> DEFINE i == P + 1
           e == P + R + 1
<1>9. i \in 1 .. Len(s) /\ e \in i .. Len(s) + 1
  BY <1>1, <1>7
<1>10. e = Len(s) + 1 \/ s[e] = Newline
  <2>1. CASE Z = 0
    BY <1>7, <2>1
  <2>2. CASE Z # 0
    <3>1. e \in 1 .. P + R + Z /\ e = P + (R + 1) /\ R + 1 \in 1 .. R + 1
      BY <2>2
    <3>2. QED BY <1>4, <1>6, <1>7, <3>1
  <2>3. QED BY <2>1, <2>2
<1>11. ASSUME NEW j \in i .. e - 1 PROVE s[j] # Newline
  <2>1. j - P \in 1 .. R /\ P + (j - P) = j
    OBVIOUS
  <2>2. s[P + (j - P)] = r[j - P]
    BY <1>8, <2>1
  <2>3. QED BY <1>3, <2>1, <2>2
<1>12. EndOf(s, i) = e
  <2> HIDE DEF i, e
  <2> QED BY <1>7, <1>9, <1>10, <1>11, EndIs
<1>13. s[e - 1] # CR
  <2>1. R \in 1 .. R /\ e - 1 = P + R
    BY <1>1
  <2>2. QED BY <1>1, <1>8, <2>1
<1>14. LineAt(s, i) = SubSeq(s, i, e - 1)
  <2> HIDE DEF i, e
  <2> QED BY <1>12, <1>13, Zenon DEF LineAt
<1>15. SubSeq(s, i, e - 1) = r
  <2> DEFINE x == SubSeq(s, i, e - 1)
  <2>1. x \in Seq(Symbol) /\ Len(x) = R /\ \A k \in 1 .. R : x[k] = s[P + k]
    <3>1. \A k \in i .. e - 1 : s[k] \in Symbol
      BY <1>7
    <3>2. x \in Seq(Symbol) /\ Len(x) = (IF i <= e - 1 THEN (e - 1) - i + 1 ELSE 0)
          /\ \A k \in 1 .. (e - 1) - i + 1 : x[k] = s[i + k - 1]
      BY <3>1, SubSeqProperties
    <3> HIDE DEF x
    <3>3. (e - 1) - i + 1 = R /\ i <= e - 1 /\ \A k \in 1 .. R : i + k - 1 = P + k
      BY <1>1
    <3> HIDE DEF i, e
    <3>4. QED BY <3>2, <3>3
  <2> HIDE DEF x
  <2>2. \A k \in 1 .. R : x[k] = r[k]
    BY <1>8, <2>1
  <2>3. x = r
    BY <1>1, <1>2, <2>1, <2>2, SeqEqual
  <2>4. QED BY <2>3 DEF x
<1>16. Len(v) = e
  BY <1>5
<1> HIDE DEF e
<1>17. LineThere(s, p, r)
  <2>1. Len(p) + 1 = i
    BY <1>1
  <2>2. v = p \o (r \o <<Newline>>)
    BY Zenon DEF v, w, o
  <2>3. Len(p) + 1 \in 1 .. Len(s) /\ LineAt(s, Len(p) + 1) = r /\ EndOf(s, Len(p) + 1) = Len(p \o (r \o <<Newline>>))
    BY <1>9, <1>12, <1>14, <1>15, <1>16, <2>1, <2>2, Zenon
  <2>4. QED BY <2>3, Zenon DEF LineThere
<1>18. QED BY <1>17, Zenon DEF s, z, v, w, o

\* A list as serialize writes it.
rowLn == [t \in TodoSet |-> row(t) \o <<Newline>>]
RowsOf(x) == [k \in 1 .. Len(x) |-> row(x[k])]
Saved(x) == CutLast(Spell(rowLn, x))

LEMMA RowType ==
    ASSUME NEW t \in TodoSet
    PROVE  row(t) \in Seq(InLine) /\ row(t) \in Seq(Symbol) /\ row(t) \o <<Newline>> \in Seq(Symbol) /\ rowLn[t] = row(t) \o <<Newline>>
<1>1. row(t) \in Seq(InLine)
  BY RowIs, Zenon DEF RowGood
<1>2. row(t) \in Seq(Symbol) /\ <<Newline>> \in Seq(Symbol)
  <2>1. Newline \in Symbol
    BY DEF Symbol
  <2>2. QED BY <1>1, <2>1, InLineIsSymbol
<1>3. row(t) \o <<Newline>> \in Seq(Symbol)
  <2>1. PICK a \in Seq(Symbol), b \in Seq(Symbol) : a = row(t) /\ b = <<Newline>>
    BY <1>2, Zenon
  <2>2. a \o b \in Seq(Symbol)
    BY ConcatProperties
  <2>3. QED BY <2>1, <2>2, Zenon
<1>4. QED BY <1>1, <1>2, <1>3, Zenon DEF rowLn

LEMMA RowLnType == rowLn \in [TodoSet -> Seq(Symbol)]
<1>1. \A t \in TodoSet : row(t) \o <<Newline>> \in Seq(Symbol)
  BY RowType, Zenon
<1>2. QED BY <1>1, Zenon DEF rowLn

LEMMA SerializeIs ==
    ASSUME NEW st, st.todos \in Seq(TodoSet)
    PROVE  serialize(st) = Saved(st.todos)
<1>1. PICK x \in Seq(TodoSet) : x = st.todos
  BY Zenon
<1>2. PICK L \in Nat : L = Len(x) /\ DOMAIN x = 1 .. L
  OBVIOUS
<1>3. \A k \in 1 .. L : rowLn[x[k]] = row(x[k]) \o <<Newline>>
  <2>1. \A k \in 1 .. L : x[k] \in TodoSet
    BY <1>2
  <2>2. QED BY <2>1, RowType, Zenon
<1>4. Spellings(rowLn, x) = [k \in DOMAIN x |-> row(x[k]) \o <<Newline>>]
  BY <1>2, <1>3, Zenon DEF Spellings
<1>5. Spell(rowLn, x) = FlattenSeq([k \in DOMAIN st.todos |-> row(st.todos[k]) \o <<Newline>>])
  BY <1>1, <1>4, Zenon DEF Spell
<1>6. serialize(st) = Saved(x)
  BY <1>5, Zenon DEF serialize, Saved, CutLast
<1>7. QED BY <1>1, <1>6, Zenon

LEMMA TextType ==
    ASSUME NEW x \in Seq(TodoSet)
    PROVE  /\ Spell(rowLn, x) \in Seq(Symbol) /\ Saved(x) \in Seq(Symbol)
           /\ (x = << >> => Saved(x) = << >>)
           /\ (x # << >> => Len(Spell(rowLn, x)) = Len(Saved(x)) + 1)
<1> DEFINE z == Spell(rowLn, x)
<1>1. z \in Seq(Symbol)
  BY RowLnType, SpellType
<1>2. PICK M \in Nat : M = Len(z)
  BY <1>1
<1>3. SubSeq(z, 1, M - 1) \in Seq(Symbol) /\ (M > 0 => Len(SubSeq(z, 1, M - 1)) = M - 1) /\ (M = 0 => SubSeq(z, 1, M - 1) = << >>)
  <2> HIDE DEF z
  <2>1. CASE M > 0
    <3>1. M - 1 \in 0 .. Len(z)
      BY <1>2, <2>1
    <3>2. QED BY <1>1, <2>1, <3>1, CutAt
  <2>2. CASE M = 0
    BY <1>1, <1>2, <2>2, SubSeqEmpty
  <2>3. QED BY <2>1, <2>2
<1>4. x = << >> => M = 0
  <2>1. Spell(rowLn, << >>) = << >> /\ Len(<< >>) = 0
    BY SpellEmpty
  <2>2. QED BY <1>2, <2>1, Zenon
<1>5. ASSUME x # << >> PROVE M > 0
  <2>1. 1 \in 1 .. Len(x) /\ x[1] \in TodoSet
    BY <1>5
  <2>2. SpellCut(rowLn, x, 1)
    BY <2>1, RowLnType, SpellAt
  <2> DEFINE a == Spell(rowLn, SubSeq(x, 1, 1 - 1))
             b == Spell(rowLn, SubSeq(x, 1 + 1, Len(x)))
             w == row(x[1]) \o <<Newline>>
             v == a \o w
  <2>3. z = v \o b
    <3>1. rowLn[x[1]] = w
      BY <2>1, RowType
    <3>2. QED BY <2>2, <3>1, Zenon DEF SpellCut
  <2>4. a \in Seq(Symbol) /\ b \in Seq(Symbol)
    <3>1. SubSeq(x, 1, 1 - 1) \in Seq(TodoSet) /\ SubSeq(x, 1 + 1, Len(x)) \in Seq(TodoSet)
      <4>1. 0 \in 0 .. Len(x) /\ 1 \in 0 .. Len(x) /\ 1 - 1 = 0
        BY <2>1
      <4>2. SubSeq(x, 1, 0) \in Seq(TodoSet) /\ SubSeq(x, 1 + 1, Len(x)) \in Seq(TodoSet)
        BY <4>1, CutAt
      <4>3. QED BY <4>1, <4>2, Zenon
    <3>2. QED BY <3>1, RowLnType, SpellType
  <2>5. w \in Seq(Symbol) /\ Len(w) >= 1
    <3>1. row(x[1]) \in Seq(Symbol)
      BY <2>1, RowType
    <3>2. PICK r \in Seq(Symbol), o \in Seq(Symbol) : r = row(x[1]) /\ o = <<Newline>> /\ Len(o) = 1
      <4>1. <<Newline>> \in Seq(Symbol) /\ Len(<<Newline>>) = 1
        BY DEF Symbol
      <4>2. QED BY <3>1, <4>1, Zenon
    <3>3. r \o o \in Seq(Symbol) /\ Len(r \o o) = Len(r) + Len(o)
      BY ConcatProperties
    <3>4. Len(r) + Len(o) >= 1
      BY <3>2
    <3>5. w = r \o o
      BY <3>2, Zenon
    <3>6. QED BY <3>3, <3>4, <3>5, Zenon
  <2> HIDE DEF a, b, w
  <2>6. v \in Seq(Symbol) /\ Len(v) = Len(a) + Len(w)
    BY <2>4, <2>5, ConcatProperties
  <2> HIDE DEF v
  <2>7. Len(v \o b) = Len(v) + Len(b)
    BY <2>4, <2>6, ConcatProperties
  <2>8. Len(v) + Len(b) >= 1
    BY <2>4, <2>5, <2>6
  <2>9. Len(z) >= 1
    BY <2>3, <2>7, <2>8, Zenon
  <2> HIDE DEF z
  <2>10. QED BY <1>2, <2>9
<1>6. Saved(x) = SubSeq(z, 1, M - 1)
  BY <1>2, Zenon DEF Saved, CutLast
<1> HIDE DEF z
<1>7. (x = << >> => Saved(x) = << >>) /\ (x # << >> => Len(z) = Len(Saved(x)) + 1)
  <2>1. Saved(x) \in Seq(Symbol) /\ (M > 0 => Len(Saved(x)) = M - 1) /\ (M = 0 => Saved(x) = << >>)
    BY <1>3, <1>6, Zenon
  <2>2. QED BY <1>2, <1>4, <1>5, <2>1
<1>8. QED BY <1>1, <1>3, <1>6, <1>7, Zenon DEF z

-----------------------------------------------------------------------------
LEMMA LinesOfText ==
    ASSUME NEW x \in Seq(TodoSet)
    PROVE  lines(Saved(x)) = RowsOf(x) /\ RowsOf(x) \in Seq(Seq(Symbol)) /\ Len(RowsOf(x)) = Len(x)
<1>1. PICK L \in Nat : L = Len(x)
  OBVIOUS
<1> DEFINE z == Spell(rowLn, x)
           s == Saved(x)
           y == RowsOf(x)
           Q == Seq(Symbol)
           pre(k) == SubSeq(x, 1, k)
           at == [k \in 0 .. L |-> Len(Spell(rowLn, pre(k))) + 1]
<1>2. /\ z \in Seq(Symbol) /\ s \in Seq(Symbol) /\ (x = << >> => s = << >>) /\ (x # << >> => Len(z) = Len(s) + 1)
      /\ s = CutLast(z)
  BY TextType, Zenon DEF Saved
<1>3. y \in Seq(Q) /\ Len(y) = L /\ \A k \in 1 .. L : y[k] = row(x[k])
  <2>1. \A k \in 1 .. L : row(x[k]) \in Q
    <3>1. \A k \in 1 .. L : x[k] \in TodoSet
      BY <1>1
    <3>2. QED BY <3>1, RowType, Zenon
  <2>2. y = [k \in 1 .. L |-> row(x[k])]
    BY <1>1 DEF RowsOf
  <2> HIDE DEF y, Q
  <2>3. y \in [1 .. L -> Q] /\ \A k \in 1 .. L : y[k] = row(x[k])
    BY <2>1, <2>2
  <2>4. QED BY <2>3, IsASeq, LenProperties
<1> HIDE DEF z, s, y
<1>4. PICK f : lines(s) = f[1] /\ Lining(s, f)
  BY <1>2, LinesRuns, Zenon DEF HasLining
<1>5. pre(L) = x /\ pre(0) = << >>
  <2>1. pre(L) = x
    BY <1>1, SubSeqFull
  <2>2. pre(0) = << >>
    BY <1>1, SubSeqEmpty
  <2>3. QED BY <2>1, <2>2
<1>6. \A k \in 0 .. L : at[k] = Len(Spell(rowLn, pre(k))) + 1
  BY Zenon
<1>7. at[L] = Len(z) + 1 /\ at[0] = 1
  <2>1. Len(Spell(rowLn, << >>)) + 1 = 1
    BY SpellEmpty
  <2>2. L \in 0 .. L /\ 0 \in 0 .. L
    OBVIOUS
  <2> HIDE DEF pre, at
  <2>3. QED BY <1>5, <1>6, <2>1, <2>2, Zenon DEF z
<1>8. f[at[L]] = << >>
  <2> HIDE DEF at, pre
  <2>1. CASE L = 0
    <3>1. x = << >>
      BY <1>1, <2>1, EmptySeq
    <3>2. Len(s) + 1 = 1
      BY <1>2, <3>1
    <3>3. f[1] = << >>
      BY <1>4, <3>2, Zenon DEF Lining
    <3>4. QED BY <1>7, <2>1, <3>3
  <2>2. CASE L # 0
    <3>1. x # << >>
      BY <1>1, <2>2
    <3>2. at[L] = Len(s) + 2
      BY <1>2, <1>7, <3>1
    <3>3. QED BY <1>4, <3>2, Zenon DEF Lining
  <2>3. QED BY <2>1, <2>2
<1>9. ASSUME NEW k \in 1 .. L PROVE f[at[k - 1]] = <<y[k]>> \o f[at[k]]
  <2> DEFINE p == Spell(rowLn, pre(k - 1))
             t == x[k]
             r == row(t)
             q == Spell(rowLn, SubSeq(x, k + 1, Len(x)))
  <2>1. t \in TodoSet /\ k - 1 \in 0 .. L /\ k \in 0 .. L
    BY <1>1
  <2>2. SpellCut(rowLn, x, k)
    BY <1>1, RowLnType, SpellAt
  <2>3. rowLn[t] = r \o <<Newline>> /\ r \in Seq(InLine) /\ Len(r) >= 5 /\ r[Len(r)] # CR
    <3>1. RowGood(t, r)
      BY <2>1, RowIs
    <3>2. QED BY <2>1, <3>1, RowType, Zenon DEF RowGood
  <2>4. z = (p \o (r \o <<Newline>>)) \o q /\ Spell(rowLn, pre(k)) = p \o (r \o <<Newline>>)
    BY <2>2, <2>3, Zenon DEF SpellCut, z
  <2>5. p \in Seq(Symbol) /\ q \in Seq(Symbol)
    <3>1. pre(k - 1) \in Seq(TodoSet) /\ SubSeq(x, k + 1, Len(x)) \in Seq(TodoSet)
      BY <1>1, <2>1, CutAt
    <3> HIDE DEF pre
    <3>2. QED BY <3>1, RowLnType, SpellType
  <2> HIDE DEF pre
  <2>6. at[k] = Len(p \o (r \o <<Newline>>)) + 1 /\ at[k - 1] = Len(p) + 1
    BY <1>6, <2>1, <2>4, Zenon
  <2>7. y[k] = r
    BY <1>3
  <2> HIDE DEF p, q, r, at
  <2>8. LineThere(CutLast((p \o (r \o <<Newline>>)) \o q), p, r)
    BY <2>3, <2>5, ReadsLine
  <2>9. LineThere(s, p, r)
    BY <1>2, <2>4, <2>8, Zenon
  <2>10. /\ Len(p) + 1 \in 1 .. Len(s)
         /\ LineAt(s, Len(p) + 1) = r
         /\ EndOf(s, Len(p) + 1) = Len(p \o (r \o <<Newline>>))
    BY <2>9, Zenon DEF LineThere
  <2>11. f[Len(p) + 1] = <<LineAt(s, Len(p) + 1)>> \o f[EndOf(s, Len(p) + 1) + 1]
    BY <1>4, <2>10, Zenon DEF Lining
  <2>12. QED BY <2>6, <2>7, <2>10, <2>11, Zenon
<1> HIDE DEF at
<1>10. f[at[Len(y)]] = << >> /\ \A k \in 1 .. Len(y) : f[at[k - 1]] = <<y[k]>> \o f[at[k]]
  BY <1>3, <1>8, <1>9, Zenon
<1>11. f[at[0]] = y
  <2> HIDE DEF Q
  <2> QED BY <1>3, <1>10, ScanReads
<1>12. lines(s) = y
  BY <1>4, <1>7, <1>11, Zenon
<1>13. QED BY <1>1, <1>3, <1>12, Zenon DEF s, y, Q

-----------------------------------------------------------------------------
\* retain, place by place.
Retaining(S, s, K, g) ==
    /\ g \in [0 .. Len(s) -> Seq(S)] /\ g[0] = << >>
    /\ \A i \in 1 .. Len(s) : g[i] = IF i \in K THEN Append(g[i - 1], s[i]) ELSE g[i - 1]
HasRetaining(S, s, K) == \E g : retain(s, K) = g[Len(s)] /\ Retaining(S, s, K, g)

LEMMA RetainRuns ==
    ASSUME NEW S, NEW s \in Seq(S), NEW K
    PROVE  HasRetaining(S, s, K)
<1>1. PICK L \in Nat : L = Len(s)
  OBVIOUS
<1> DEFINE Q == Seq(S)
           Loop(g) == [i \in 0 .. L |-> IF i = 0 THEN << >>
                                        ELSE IF i \in K THEN Append(g[i - 1], s[i]) ELSE g[i - 1]]
           f == CHOOSE g : g = Loop(g)
           step == [y \in (1 .. L) \X Q |-> IF y[1] \in K THEN Append(y[2], s[y[1]]) ELSE y[2]]
<1>2. retain(s, K) = f[L]
  BY <1>1, Zenon DEF retain
<1>3. ASSUME NEW i \in 1 .. L, NEW q \in Q
      PROVE  (IF i \in K THEN Append(q, s[i]) ELSE q) \in Q
  <2>1. s[i] \in S
    BY <1>1
  <2>2. Append(q, s[i]) \in Q
    BY <2>1
  <2>3. QED BY <2>2
<1>4. << >> \in Q
  OBVIOUS
<1> HIDE DEF Q
<1>5. step \in [(1 .. L) \X Q -> Q]
  BY <1>3
<1>6. HasRun(Q, << >>, L, step)
  <2> HIDE DEF step
  <2> QED BY <1>4, <1>5, LoopRuns
<1>7. PICK h \in [0 .. L -> Q] : h[0] = << >> /\ \A i \in 1 .. L : h[i] = step[<<i, h[i - 1]>>]
  <2> HIDE DEF step
  <2> QED BY <1>6 DEF HasRun
<1>8. ASSUME NEW i \in 1 .. L
      PROVE  h[i] = IF i \in K THEN Append(h[i - 1], s[i]) ELSE h[i - 1]
  <2>1. h[i - 1] \in Q
    OBVIOUS
  <2>2. step[<<i, h[i - 1]>>] = IF i \in K THEN Append(h[i - 1], s[i]) ELSE h[i - 1]
    BY <2>1
  <2> HIDE DEF step
  <2>3. QED BY <1>7, <2>2, Zenon
<1> HIDE DEF step
<1>9. ASSUME NEW g, NEW i \in 0 .. L
      PROVE  Loop(g)[i] = IF i = 0 THEN << >> ELSE IF i \in K THEN Append(g[i - 1], s[i]) ELSE g[i - 1]
  BY Zenon
<1>10. \A g : Loop(g) = [i \in 0 .. L |-> Loop(g)[i]]
  OBVIOUS
<1> HIDE DEF Loop
<1>11. h = Loop(h)
  <2>1. ASSUME NEW i \in 0 .. L PROVE h[i] = Loop(h)[i]
    <3>1. CASE i = 0
      BY <1>7, <1>9, <3>1, Zenon
    <3>2. CASE i # 0
      <4>1. i \in 1 .. L
        BY <3>2
      <4>2. QED BY <1>8, <1>9, <3>2, <4>1, Zenon
    <3>3. QED BY <3>1, <3>2
  <2>2. h = [i \in 0 .. L |-> h[i]]
    OBVIOUS
  <2>3. [i \in 0 .. L |-> h[i]] = [i \in 0 .. L |-> Loop(h)[i]]
    BY <2>1, Zenon
  <2>4. QED BY <1>10, <2>2, <2>3, Zenon
<1>12. f = Loop(f)
  BY <1>11, Zenon
<1> HIDE DEF f
<1>13. f[0] = << >> /\ \A i \in 1 .. L : f[i] = IF i \in K THEN Append(f[i - 1], s[i]) ELSE f[i - 1]
  <2>1. 0 \in 0 .. L /\ \A i \in 1 .. L : i \in 0 .. L /\ i # 0
    OBVIOUS
  <2>2. QED BY <1>9, <1>12, <2>1, Zenon
<1>14. DOMAIN f = 0 .. L
  BY <1>12, Zenon DEF Loop
<1> DEFINE Ok == {i \in 0 .. L : f[i] \in Q}
<1>15. \A i \in 0 .. L : i \in Ok
  <2>1. 0 \in Ok
    BY <1>4, <1>13
  <2>2. ASSUME NEW n \in 1 .. L, n - 1 \in Ok PROVE n \in Ok
    <3>1. f[n - 1] \in Q
      BY <2>2
    <3>2. f[n] \in Q
      BY <1>3, <1>13, <3>1, Zenon
    <3>3. QED BY <3>2
  <2> HIDE DEF Ok
  <2>3. QED BY <2>1, <2>2, UpTo
<1>16. \A i \in 0 .. L : f[i] \in Q
  BY <1>15
<1>17. f = [i \in 0 .. L |-> f[i]]
  <2>1. f = [i \in 0 .. L |-> Loop(f)[i]]
    BY <1>10, <1>12, Zenon
  <2>2. QED BY <1>12, <2>1, Zenon
<1>18. f \in [0 .. L -> Q]
  BY <1>16, <1>17
<1>19. Retaining(S, s, K, f)
  BY <1>1, <1>13, <1>18, Zenon DEF Retaining, Q
<1>20. QED BY <1>1, <1>2, <1>19, Zenon DEF HasRetaining

LEMMA RetainAll ==
    ASSUME NEW S, NEW s \in Seq(S), NEW K, \A i \in 1 .. Len(s) : i \in K
    PROVE  retain(s, K) = s
<1>1. PICK L \in Nat : L = Len(s)
  OBVIOUS
<1>2. PICK g : retain(s, K) = g[Len(s)] /\ Retaining(S, s, K, g)
  BY RetainRuns, Zenon DEF HasRetaining
<1>3. g[0] = << >> /\ \A i \in 1 .. L : g[i] = Append(g[i - 1], s[i])
  BY <1>1, <1>2, Zenon DEF Retaining
<1> DEFINE pre(k) == SubSeq(s, 1, k)
           Ok == {i \in 0 .. L : g[i] = pre(i)}
<1>4. pre(L) = s /\ pre(0) = << >>
  <2>1. pre(L) = s
    BY <1>1, SubSeqFull
  <2>2. pre(0) = << >>
    BY <1>1, SubSeqEmpty
  <2>3. QED BY <2>1, <2>2
<1>5. ASSUME NEW n \in 1 .. L PROVE pre(n) = Append(pre(n - 1), s[n])
  <2>1. s[n] \in S /\ n \in 1 .. Len(s)
    BY <1>1
  <2>2. pre(n - 1) \in Seq(S)
    BY <1>1
  <2>3. pre(n) = pre(n - 1) \o <<s[n]>>
    BY <1>1, SubSeqRecursiveSecond
  <2>4. QED BY <2>1, <2>2, <2>3, AppendIsConcat
<1> HIDE DEF pre
<1>6. 0 \in Ok
  BY <1>3, <1>4
<1>7. ASSUME NEW n \in 1 .. L, n - 1 \in Ok PROVE n \in Ok
  <2>1. g[n - 1] = pre(n - 1)
    BY <1>7
  <2>2. g[n] = pre(n)
    BY <1>3, <1>5, <2>1, Zenon
  <2>3. QED BY <2>2
<1>8. \A i \in 0 .. L : i \in Ok
  <2> HIDE DEF Ok
  <2> QED BY <1>6, <1>7, UpTo
<1>9. g[L] = pre(L)
  BY <1>8
<1>10. QED BY <1>1, <1>2, <1>4, <1>9, Zenon

\* What is read back is what was written.
LEMMA ReadsBackTodos ==
    ASSUME NEW x \in Seq(TodoSet)
    PROVE  Rows(Saved(x)) = x
<1>1. PICK L \in Nat : L = Len(x) /\ DOMAIN x = 1 .. L
  OBVIOUS
<1> DEFINE y == RowsOf(x)
           K == {k \in DOMAIN y : Good(y[k])}
<1>2. lines(Saved(x)) = y /\ y \in Seq(Seq(Symbol)) /\ Len(y) = L
  BY <1>1, LinesOfText
<1>3. ASSUME NEW k \in 1 .. L PROVE Good(y[k]) /\ Parsed(y[k]) = x[k]
  <2>1. y[k] = row(x[k]) /\ x[k] \in TodoSet
    BY <1>1 DEF RowsOf
  <2>2. RowGood(x[k], row(x[k]))
    BY <2>1, RowIs
  <2> HIDE DEF y
  <2>3. QED BY <2>1, <2>2, Zenon DEF RowGood
<1>4. DOMAIN y = 1 .. L
  BY <1>1, Zenon DEF RowsOf
<1> HIDE DEF y
<1>5. \A i \in 1 .. Len(y) : i \in K
  BY <1>2, <1>3, <1>4, Zenon
<1>6. retain(y, K) = y
  <2> HIDE DEF K
  <2> QED BY <1>2, <1>5, RetainAll
<1>7. Rows(Saved(x)) = [k \in 1 .. L |-> Parsed(y[k])]
  BY <1>2, <1>4, <1>6, Zenon DEF Rows
<1>8. [k \in 1 .. L |-> Parsed(y[k])] = [k \in 1 .. L |-> x[k]]
  BY <1>3, Zenon
<1>9. [k \in 1 .. L |-> x[k]] = x
  BY <1>1
<1>10. QED BY <1>7, <1>8, <1>9, Zenon

-----------------------------------------------------------------------------
(* The tabs and the storage *)

Growing(x) == \A j, k \in 1 .. Len(x) : j < k => x[j].id < x[k].id
Listed(x, n) == x \in Seq(TodoSet) /\ Growing(x) /\ \A k \in 1 .. Len(x) : x[k].id < n

TabStates == [todos : Seq(TodoSet), filter : Filters \cup {"all", "closed"}, next_id : Nat]
TabOk(st, a) ==
    /\ st \in TabStates /\ Listed(st.todos, st.next_id) /\ st.next_id <= a + 1
    /\ st.filter # "closed" => st.next_id >= 1

\* The storage holds some list, perhaps one that no tab has any more.
StorageOk(text, a) == \E x : text = Saved(x) /\ Listed(x, a + 1)

\* Inductive: a tab numbers on from what it loaded, which is a list of ids that
\* were all given out, so that no id is beyond the number of todos added.
TodoInd ==
    /\ adds \in 0 .. MaxAdds /\ hash \in [Tabs -> Filters \cup {"all"}]
    /\ state \in [Tabs -> TabStates] /\ \A w \in Tabs : TabOk(state[w], adds)
    /\ StorageOk(storage, adds)

LEMMA EmptyListed == \A n : Listed(<< >>, n)
<1>1. << >> \in Seq(TodoSet) /\ Len(<< >>) = 0
  OBVIOUS
<1>2. QED BY <1>1 DEF Listed, Growing

LEMMA TodoStarts == TodoInit => TodoInd
<1> SUFFICES ASSUME TodoInit PROVE TodoInd
  OBVIOUS
<1>1. adds \in 0 .. MaxAdds /\ adds = 0
  BY TodoAssumption DEF TodoInit
<1>2. hash \in [Tabs -> Filters \cup {"all"}]
  BY DEF TodoInit
<1>3. Closed \in TabStates /\ Closed.todos = << >> /\ Closed.filter = "closed" /\ Closed.next_id = 0
  <2>1. << >> \in Seq(TodoSet)
    OBVIOUS
  <2>2. QED BY <2>1 DEF Closed, TabStates
<1>4. TabOk(Closed, adds)
  BY <1>1, <1>3, EmptyListed DEF TabOk
<1>5. state \in [Tabs -> TabStates] /\ \A w \in Tabs : TabOk(state[w], adds)
  BY <1>3, <1>4 DEF TodoInit
<1>6. StorageOk(storage, adds)
  <2>1. << >> \in Seq(TodoSet)
    OBVIOUS
  <2>2. Saved(<< >>) = << >>
    BY <2>1, TextType
  <2>3. storage = Saved(<< >>)
    BY <2>2, Zenon DEF TodoInit
  <2>4. QED BY <2>3, EmptyListed, Zenon DEF StorageOk
<1>7. QED BY <1>1, <1>2, <1>5, <1>6, Zenon DEF TodoInd

LEMMA ListedMore ==
    ASSUME NEW a \in Int, NEW b \in Int, a <= b
    PROVE  /\ \A x : Listed(x, a) => Listed(x, b)
           /\ \A st : TabOk(st, a) => TabOk(st, b)
           /\ \A text : StorageOk(text, a) => StorageOk(text, b)
<1>1. \A c \in Int, d \in Int : \A x : c <= d /\ Listed(x, c) => Listed(x, d)
  <2> SUFFICES ASSUME NEW c \in Int, NEW d \in Int, NEW x, c <= d, Listed(x, c) PROVE Listed(x, d)
    OBVIOUS
  <2>1. x \in Seq(TodoSet) /\ Growing(x) /\ \A k \in 1 .. Len(x) : x[k].id < c
    BY DEF Listed
  <2>2. ASSUME NEW k \in 1 .. Len(x) PROVE x[k].id < d
    <3>1. x[k] \in TodoSet
      BY <2>1
    <3>2. x[k].id \in 1 .. MaxAdds /\ MaxAdds \in Nat
      BY <3>1, TodoParts, TodoAssumption
    <3>3. QED BY <2>1, <3>2
  <2>3. QED BY <2>1, <2>2 DEF Listed
<1>2. ASSUME NEW st, TabOk(st, a) PROVE TabOk(st, b)
  <2>1. st.next_id \in Nat
    BY <1>2 DEF TabOk, TabStates
  <2>2. QED BY <1>2, <2>1 DEF TabOk
<1>3. ASSUME NEW text, StorageOk(text, a) PROVE StorageOk(text, b)
  <2>1. PICK x : text = Saved(x) /\ Listed(x, a + 1)
    BY <1>3, Zenon DEF StorageOk
  <2>2. Listed(x, b + 1)
    <3>1. a + 1 \in Int /\ b + 1 \in Int /\ a + 1 <= b + 1
      OBVIOUS
    <3>2. QED BY <1>1, <2>1, <3>1
  <2>3. QED BY <2>1, <2>2, Zenon DEF StorageOk
<1>4. QED BY <1>1, <1>2, <1>3, Zenon

-----------------------------------------------------------------------------
\* A part of the list is still in order.
LEMMA RetainListed ==
    ASSUME NEW x, NEW n, Listed(x, n), NEW K
    PROVE  Listed(retain(x, K), n)
<1>1. x \in Seq(TodoSet) /\ Growing(x) /\ \A k \in 1 .. Len(x) : x[k].id < n
  BY DEF Listed
<1>2. PICK L \in Nat : L = Len(x)
  BY <1>1
<1>3. PICK g : retain(x, K) = g[Len(x)] /\ Retaining(TodoSet, x, K, g)
  BY <1>1, RetainRuns, Zenon DEF HasRetaining
<1>4. /\ g \in [0 .. L -> Seq(TodoSet)] /\ g[0] = << >>
      /\ \A i \in 1 .. L : g[i] = IF i \in K THEN Append(g[i - 1], x[i]) ELSE g[i - 1]
  BY <1>2, <1>3, Zenon DEF Retaining
<1> DEFINE From(i) == \A c \in 1 .. Len(g[i]) : \E j \in 1 .. i : g[i][c] = x[j]
           Ok == {i \in 0 .. L : Growing(g[i]) /\ From(i)}
<1>5. 0 \in Ok
  <2>1. Len(g[0]) = 0
    BY <1>4
  <2>2. Growing(g[0]) /\ From(0)
    BY <2>1 DEF Growing
  <2>3. QED BY <2>2
<1>6. ASSUME NEW i \in 1 .. L, i - 1 \in Ok PROVE i \in Ok
  <2> DEFINE p == g[i - 1]
             q == g[i]
  <2>1. p \in Seq(TodoSet) /\ Growing(p) /\ \A c \in 1 .. Len(p) : \E j \in 1 .. i - 1 : p[c] = x[j]
    <3>1. i - 1 \in 0 .. L
      OBVIOUS
    <3>2. QED BY <1>4, <1>6, <3>1
  <2>2. Growing(q) /\ From(i)
    <3>1. CASE i \notin K
      <4>1. q = p
        BY <1>4, <3>1
      <4>2. \A j \in 1 .. i - 1 : j \in 1 .. i
        OBVIOUS
      <4> HIDE DEF p
      <4>3. QED BY <2>1, <4>1, <4>2
    <3>2. CASE i \in K
      <4>1. PICK P \in Nat : P = Len(p)
        BY <2>1
      <4>2. q = Append(p, x[i])
        BY <1>4, <3>2
      <4>3. x[i] \in TodoSet
        BY <1>1, <1>2
      <4> HIDE DEF p, q
      <4>4. Len(q) = P + 1 /\ (\A c \in 1 .. P : q[c] = p[c]) /\ q[P + 1] = x[i]
        BY <2>1, <4>1, <4>2, <4>3
      <4>5. ASSUME NEW c \in 1 .. P PROVE q[c].id < x[i].id /\ \E j \in 1 .. i : q[c] = x[j]
        <5>1. PICK j \in 1 .. i - 1 : p[c] = x[j]
          BY <2>1, <4>1
        <5>2. j \in 1 .. Len(x) /\ i \in 1 .. Len(x) /\ j < i /\ j \in 1 .. i
          BY <1>2
        <5>3. x[j].id < x[i].id
          BY <1>1, <5>2 DEF Growing
        <5>4. q[c] = x[j]
          BY <4>4, <5>1
        <5>5. QED BY <5>2, <5>3, <5>4
      <4>6. ASSUME NEW c \in 1 .. P + 1, NEW d \in 1 .. P + 1, c < d PROVE q[c].id < q[d].id
        <5>1. CASE d = P + 1
          <6>1. c \in 1 .. P
            BY <4>6, <5>1
          <6>2. QED BY <4>4, <4>5, <5>1, <6>1
        <5>2. CASE d # P + 1
          <6>1. c \in 1 .. P /\ d \in 1 .. P
            BY <4>6, <5>2
          <6>2. p[c].id < p[d].id
            BY <2>1, <4>1, <4>6, <6>1 DEF Growing
          <6>3. QED BY <4>4, <6>1, <6>2
        <5>3. QED BY <5>1, <5>2
      <4>7. ASSUME NEW c \in 1 .. P + 1 PROVE \E j \in 1 .. i : q[c] = x[j]
        <5>1. CASE c = P + 1
          <6>1. i \in 1 .. i /\ q[c] = x[i]
            BY <4>4, <5>1
          <6>2. QED BY <6>1
        <5>2. CASE c # P + 1
          <6>1. c \in 1 .. P
            BY <5>2
          <6>2. QED BY <4>5, <6>1
        <5>3. QED BY <5>1, <5>2
      <4>8. Growing(q)
        BY <4>4, <4>6, Zenon DEF Growing
      <4>9. \A c \in 1 .. Len(q) : \E j \in 1 .. i : q[c] = x[j]
        BY <4>4, <4>7, Zenon
      <4>10. QED BY <4>8, <4>9, Zenon DEF q
    <3>3. QED BY <3>1, <3>2
  <2>3. i \in 0 .. L
    OBVIOUS
  <2> HIDE DEF From
  <2>4. QED BY <2>2, <2>3
<1>7. \A i \in 0 .. L : i \in Ok
  <2> HIDE DEF Ok
  <2> QED BY <1>5, <1>6, UpTo
<1>8. Growing(g[L]) /\ From(L) /\ g[L] \in Seq(TodoSet)
  <2>1. L \in 0 .. L
    OBVIOUS
  <2>2. L \in Ok
    BY <1>7, <2>1
  <2>3. QED BY <1>4, <2>1, <2>2
<1>9. \A c \in 1 .. Len(g[L]) : g[L][c].id < n
  <2> SUFFICES ASSUME NEW c \in 1 .. Len(g[L]) PROVE g[L][c].id < n
    OBVIOUS
  <2>1. PICK j \in 1 .. L : g[L][c] = x[j]
    BY <1>8
  <2>2. QED BY <1>1, <1>2, <2>1
<1>10. Listed(g[L], n)
  BY <1>8, <1>9, Zenon DEF Listed
<1>11. QED BY <1>2, <1>3, <1>10, Zenon

LEMMA TabParts ==
    ASSUME NEW st, NEW a, TabOk(st, a)
    PROVE  /\ st = [todos |-> st.todos, filter |-> st.filter, next_id |-> st.next_id]
           /\ st.todos \in Seq(TodoSet) /\ st.filter \in Filters \cup {"all", "closed"} /\ st.next_id \in Nat
           /\ Listed(st.todos, st.next_id)
BY DEF TabOk, TabStates

\* Another list in the same tab.
LEMMA TabWith ==
    ASSUME NEW st, NEW a, TabOk(st, a), NEW y, Listed(y, st.next_id)
    PROVE  TabOk([st EXCEPT !.todos = y], a)
<1>1. y \in Seq(TodoSet)
  BY DEF Listed
<1>2. st \in TabStates
  BY DEF TabOk
<1> DEFINE u == [st EXCEPT !.todos = y]
<1>3. u \in TabStates /\ u.todos = y /\ u.filter = st.filter /\ u.next_id = st.next_id
  BY <1>1, <1>2 DEF TabStates
<1> HIDE DEF u
<1>4. TabOk(u, a)
  BY <1>3, Zenon DEF TabOk
<1>5. QED BY <1>4, Zenon DEF u

LEMMA RemoveKeeps ==
    ASSUME NEW st, NEW a, TabOk(st, a), NEW nr
    PROVE  TabOk(remove(st, nr), a) /\ TabOk(clear_completed(st), a)
<1> DEFINE x == st.todos
           K == {k \in DOMAIN x : x[k].id # nr}
           D == {k \in DOMAIN x : ~x[k].done}
<1>1. Listed(x, st.next_id)
  BY TabParts
<1>2. remove(st, nr) = [st EXCEPT !.todos = retain(x, K)] /\ clear_completed(st) = [st EXCEPT !.todos = retain(x, D)]
  BY DEF remove, clear_completed
<1> HIDE DEF x, K, D
<1>3. Listed(retain(x, K), st.next_id) /\ Listed(retain(x, D), st.next_id)
  BY <1>1, RetainListed
<1>4. TabOk([st EXCEPT !.todos = retain(x, K)], a) /\ TabOk([st EXCEPT !.todos = retain(x, D)], a)
  <2>1. PICK y, z : y = retain(x, K) /\ z = retain(x, D)
    OBVIOUS
  <2>2. TabOk([st EXCEPT !.todos = y], a) /\ TabOk([st EXCEPT !.todos = z], a)
    BY <1>3, <2>1, TabWith
  <2>3. QED BY <2>1, <2>2, Zenon
<1>5. QED BY <1>2, <1>4, Zenon

LEMMA ToggleKeeps ==
    ASSUME NEW st, NEW a, TabOk(st, a), NEW nr \in render(st)
    PROVE  TabOk(toggle(st, nr), a)
<1>1. /\ st = [todos |-> st.todos, filter |-> st.filter, next_id |-> st.next_id]
      /\ st.todos \in Seq(TodoSet) /\ Listed(st.todos, st.next_id)
  BY TabParts
<1>2. PICK x \in Seq(TodoSet) : x = st.todos
  BY <1>1, Zenon
<1>3. PICK L \in Nat : L = Len(x) /\ DOMAIN x = 1 .. L
  OBVIOUS
<1> DEFINE T == {k \in DOMAIN st.todos : st.todos[k].id = nr}
<1>4. T \in SUBSET Nat /\ T # {} /\ T \in SUBSET (1 .. L)
  <2>1. T \in SUBSET (1 .. L)
    BY <1>2, <1>3
  <2>2. PICK k \in visible(st) : nr = st.todos[k].id
    BY DEF render
  <2>3. k \in T
    BY <2>2 DEF visible
  <2>4. QED BY <2>1, <2>3
<1>5. Min(T) \in T
  <2> HIDE DEF T
  <2> QED BY <1>4, MinIn
<1>6. PICK m \in 1 .. L : m = Min(T)
  BY <1>4, <1>5
<1> DEFINE t == [x[m] EXCEPT !.done = ~x[m].done]
           y == [x EXCEPT ![m] = t]
<1>7. toggle(st, nr) = [st EXCEPT !.todos[m].done = ~@]
  <2> HIDE DEF t
  <2> QED BY <1>6, Zenon DEF toggle
<1>8. [st EXCEPT !.todos[m].done = ~@] = [st EXCEPT !.todos = y]
  BY <1>2, Zenon
<1>9. t \in TodoSet /\ t.id = x[m].id
  <2>1. x[m] \in TodoSet
    BY <1>3
  <2>2. PICK o \in TodoSet : o = x[m]
    BY <2>1
  <2>3. [o EXCEPT !.done = ~o.done] \in TodoSet /\ [o EXCEPT !.done = ~o.done].id = o.id
    BY DEF TodoSet
  <2>4. QED BY <2>2, <2>3, Zenon
<1> HIDE DEF t
<1>10. y \in Seq(TodoSet) /\ Len(y) = L /\ \A k \in 1 .. L : y[k] = IF k = m THEN t ELSE x[k]
  BY <1>3, <1>9, ExceptSeq
<1> HIDE DEF y
<1>11. \A k \in 1 .. L : y[k].id = x[k].id
  BY <1>9, <1>10
<1>12. Listed(y, st.next_id)
  <2>1. Listed(x, st.next_id)
    BY <1>1, <1>2, Zenon
  <2>2. Growing(x) /\ \A k \in 1 .. L : x[k].id < st.next_id
    BY <1>3, <2>1 DEF Listed
  <2>3. Growing(y)
    BY <1>3, <1>10, <1>11, <2>2 DEF Growing
  <2>4. \A k \in 1 .. L : y[k].id < st.next_id
    BY <1>11, <2>2
  <2>5. QED BY <1>10, <2>3, <2>4, Zenon DEF Listed
<1>13. TabOk([st EXCEPT !.todos = y], a)
  BY <1>12, TabWith
<1>14. QED BY <1>7, <1>8, <1>13, Zenon

-----------------------------------------------------------------------------
\* A trimmed text does not end in a carriage return.
LEMMA TrimmedIs ==
    ASSUME NEW s \in Seq(STRING), Trimmed(s) # << >>
    PROVE  Kind(Trimmed(s))
<1> DEFINE solid == {i \in DOMAIN s : s[i] \notin Blank}
<1>1. PICK L \in Nat : L = Len(s) /\ DOMAIN s = 1 .. L
  OBVIOUS
<1>2. solid # {}
  BY Zenon DEF Trimmed
<1>3. solid \in SUBSET Nat /\ solid \in SUBSET (0 .. L) /\ solid \subseteq 1 .. L
  BY <1>1
<1>4. Trimmed(s) = SubSeq(s, Min(solid), Max(solid))
  BY <1>2, Zenon DEF Trimmed
<1>5. \A i \in solid : s[i] # CR
  BY DEF Blank
<1> HIDE DEF solid
<1>6. Min(solid) \in solid /\ Max(solid) \in solid /\ \A i \in solid : i <= Max(solid)
  <2>1. Min(solid) \in solid
    BY <1>2, <1>3, MinIn
  <2>2. Max(solid) \in solid /\ \A i \in solid : i <= Max(solid)
    BY <1>2, <1>3, MaxIs
  <2>3. QED BY <2>1, <2>2
<1>7. PICK m \in 1 .. L, n \in 1 .. L : m = Min(solid) /\ n = Max(solid) /\ m <= n /\ s[n] # CR
  BY <1>3, <1>5, <1>6
<1> DEFINE u == SubSeq(s, m, n)
<1>8. u \in Seq(STRING) /\ Len(u) = n - m + 1 /\ u[n - m + 1] = s[n]
  <2>1. m \in Int /\ n \in Int /\ \A i \in m .. n : s[i] \in STRING
    BY <1>1
  <2>2. /\ u \in Seq(STRING) /\ Len(u) = (IF m <= n THEN n - m + 1 ELSE 0)
        /\ \A i \in 1 .. n - m + 1 : u[i] = s[m + i - 1]
    BY <2>1, SubSeqProperties
  <2> HIDE DEF u
  <2>3. n - m + 1 \in 1 .. n - m + 1 /\ m + (n - m + 1) - 1 = n
    BY <1>7
  <2>4. QED BY <1>7, <2>2, <2>3
<1> HIDE DEF u
<1>9. u[Len(u)] # CR /\ u # << >>
  BY <1>7, <1>8
<1>10. u \in Seq(Symbol)
  BY <1>8, InLineIsSymbol
<1>11. Kind(u)
  BY <1>9, <1>10, Zenon DEF Kind
<1>12. QED BY <1>4, <1>7, <1>11, Zenon DEF u

LEMMA AddKept ==
    ASSUME NEW st, NEW a \in Nat, a < MaxAdds, TabOk(st, a), st.next_id >= 1,
           NEW text \in Todos, Trimmed(text) # << >>
    PROVE  TabOk(add(st, text), a + 1)
<1> DEFINE s == Trimmed(text)
           t == [id |-> st.next_id, done |-> FALSE, text |-> s]
           y == Append(st.todos, t)
<1>1. Kind(s)
  <2>1. text \in Seq(STRING)
    BY TodoAssumption
  <2>2. QED BY <2>1, TrimmedIs
<1> HIDE DEF s
<1>2. /\ st.todos \in Seq(TodoSet) /\ st.next_id \in Nat /\ Listed(st.todos, st.next_id)
      /\ st \in TabStates /\ st.next_id <= a + 1
  BY DEF TabOk, TabStates
<1>3. PICK x \in Seq(TodoSet), n \in Nat : x = st.todos /\ n = st.next_id
  BY <1>2
<1>4. n \in 1 .. MaxAdds
  BY <1>2, <1>3, TodoAssumption
<1>5. s \in {z \in Seq(Symbol) : Kind(z)}
  BY <1>1 DEF Kind
<1>6. t \in TodoSet /\ t.id = n
  <2>1. [id |-> n, done |-> FALSE, text |-> s] \in TodoSet
    <3>1. FALSE \in BOOLEAN
      OBVIOUS
    <3>2. QED BY <1>4, <1>5, <3>1, Zenon DEF TodoSet
  <2>2. QED BY <1>3, <2>1, Zenon
<1>7. add(st, text) = [[st EXCEPT !.todos = y] EXCEPT !.next_id = n + 1]
  BY <1>3, Zenon DEF add, s
<1> HIDE DEF t
<1>8. PICK L \in Nat : L = Len(x)
  OBVIOUS
<1>9. y = Append(x, t)
  BY <1>3
<1> HIDE DEF y
<1>10. y \in Seq(TodoSet) /\ Len(y) = L + 1 /\ (\A k \in 1 .. L : y[k] = x[k]) /\ y[L + 1] = t
  BY <1>6, <1>8, <1>9
<1>11. Growing(x) /\ \A k \in 1 .. L : x[k].id < n /\ x[k].id \in Nat
  <2>1. Growing(x) /\ \A k \in 1 .. L : x[k].id < n
    BY <1>2, <1>3, <1>8 DEF Listed
  <2>2. ASSUME NEW k \in 1 .. L PROVE x[k].id \in Nat
    <3>1. x[k] \in TodoSet
      BY <1>8
    <3>2. x[k].id \in 1 .. MaxAdds
      BY <3>1, TodoParts
    <3>3. QED BY <3>2, TodoAssumption
  <2>3. QED BY <2>1, <2>2
<1>12. Growing(y)
  <2>1. ASSUME NEW j \in 1 .. L + 1, NEW k \in 1 .. L + 1, j < k PROVE y[j].id < y[k].id
    <3>1. CASE k = L + 1
      <4>1. j \in 1 .. L
        BY <2>1, <3>1
      <4>2. QED BY <1>6, <1>10, <1>11, <3>1, <4>1
    <3>2. CASE k # L + 1
      <4>1. j \in 1 .. L /\ k \in 1 .. L
        BY <2>1, <3>2
      <4>2. x[j].id < x[k].id
        BY <1>8, <1>11, <2>1, <4>1 DEF Growing
      <4>3. QED BY <1>10, <4>1, <4>2
    <3>3. QED BY <3>1, <3>2
  <2>2. QED BY <1>10, <2>1, Zenon DEF Growing
<1>13. ASSUME NEW k \in 1 .. L + 1 PROVE y[k].id < n + 1
  <2>1. CASE k = L + 1
    BY <1>6, <1>10, <2>1
  <2>2. CASE k # L + 1
    <3>1. k \in 1 .. L
      BY <2>2
    <3>2. QED BY <1>10, <1>11, <3>1
  <2>3. QED BY <2>1, <2>2
<1>14. Listed(y, n + 1)
  BY <1>10, <1>12, <1>13, Zenon DEF Listed
<1> DEFINE u == [[st EXCEPT !.todos = y] EXCEPT !.next_id = n + 1]
<1>15. u \in TabStates /\ u.todos = y /\ u.next_id = n + 1
  <2>1. n + 1 \in Nat
    OBVIOUS
  <2>2. QED BY <1>2, <1>10, <2>1 DEF TabStates
<1> HIDE DEF u
<1>16. n + 1 <= (a + 1) + 1 /\ n + 1 >= 1
  BY <1>2, <1>3
<1>17. TabOk(u, a + 1)
  BY <1>14, <1>15, <1>16, Zenon DEF TabOk
<1>18. QED BY <1>7, <1>17, Zenon DEF u

\* What a tab loads.
LEMMA LoadKept ==
    ASSUME NEW a \in Nat, NEW text, StorageOk(text, a), NEW f \in Filters
    PROVE  TabOk([deserialize(text) EXCEPT !.filter = f], a)
<1>1. PICK x : text = Saved(x) /\ Listed(x, a + 1)
  BY Zenon DEF StorageOk
<1>2. x \in Seq(TodoSet) /\ Growing(x) /\ \A k \in 1 .. Len(x) : x[k].id < a + 1
  BY <1>1 DEF Listed
<1>3. Rows(text) = x
  BY <1>1, <1>2, ReadsBackTodos
<1>4. PICK L \in Nat : L = Len(x) /\ DOMAIN x = 1 .. L
  BY <1>2
<1> DEFINE T == {1} \cup {x[k].id + 1 : k \in DOMAIN x}
           n == Max(T)
<1>5. \A k \in 1 .. L : x[k].id \in Nat /\ x[k].id <= a
  <2> SUFFICES ASSUME NEW k \in 1 .. L PROVE x[k].id \in Nat /\ x[k].id <= a
    OBVIOUS
  <2>1. x[k] \in TodoSet
    BY <1>2, <1>4
  <2>2. x[k].id \in 1 .. MaxAdds /\ MaxAdds \in Nat
    BY <2>1, TodoParts, TodoAssumption
  <2>3. QED BY <1>2, <1>4, <2>2
<1>6. T \in SUBSET (0 .. a + 1) /\ 1 \in T /\ \A k \in 1 .. L : x[k].id + 1 \in T
  <2>1. \A k \in 1 .. L : x[k].id + 1 \in 0 .. a + 1
    BY <1>5
  <2>2. QED BY <1>4, <2>1
<1>7. n \in T /\ \A z \in T : z <= n
  <2> HIDE DEF T
  <2>1. PICK A \in Nat : A = a + 1
    OBVIOUS
  <2>2. T \in SUBSET (0 .. A) /\ T # {}
    BY <1>6, <2>1
  <2>3. QED BY <2>2, MaxIs
<1>8. deserialize(text) = [todos |-> x, filter |-> "all", next_id |-> n]
  <2>1. deserialize(text) = [New EXCEPT !.todos = x, !.next_id = n]
    BY <1>3, Zenon DEF deserialize
  <2> HIDE DEF n
  <2>2. [New EXCEPT !.todos = x, !.next_id = n] = [todos |-> x, filter |-> "all", next_id |-> n]
    <3>1. PICK e, f0, b, p, q : /\ e = << >> /\ f0 = "all" /\ b = 1
                                /\ p = [[todos |-> e, filter |-> f0, next_id |-> b] EXCEPT !.todos = x]
                                /\ q = [p EXCEPT !.next_id = n]
      OBVIOUS
    <3>2. p = [todos |-> x, filter |-> f0, next_id |-> b]
      BY <3>1
    <3>3. q = [todos |-> x, filter |-> f0, next_id |-> n]
      BY <3>1, <3>2
    <3>4. QED BY <3>1, <3>3, Zenon DEF New
  <2>3. QED BY <2>1, <2>2, Zenon
<1> HIDE DEF T, n
<1>9. n \in Nat /\ n <= a + 1 /\ n >= 1
  BY <1>6, <1>7
<1>10. Listed(x, n)
  <2>1. ASSUME NEW k \in 1 .. L PROVE x[k].id < n
    <3>1. x[k].id + 1 <= n
      BY <1>6, <1>7
    <3>2. QED BY <1>5, <1>9, <3>1
  <2>2. QED BY <1>2, <1>4, <2>1 DEF Listed
<1> DEFINE u == [todos |-> x, filter |-> f, next_id |-> n]
<1>11. u \in TabStates /\ u.todos = x /\ u.filter = f /\ u.next_id = n
  BY <1>2, <1>9 DEF TabStates
<1>12. [[todos |-> x, filter |-> "all", next_id |-> n] EXCEPT !.filter = f] = u
  OBVIOUS
<1> HIDE DEF u
<1>13. TabOk(u, a)
  BY <1>9, <1>10, <1>11, Zenon DEF TabOk
<1>14. QED BY <1>8, <1>12, <1>13, Zenon

-----------------------------------------------------------------------------
\* One tab changes and the storage stays, or holds what that tab wrote.
LEMMA TabChanges ==
    ASSUME TodoInd, NEW w \in Tabs, NEW st, state' = [state EXCEPT ![w] = st],
           adds' \in adds .. MaxAdds, TabOk(st, adds'),
           storage' \in {storage, serialize(st)},
           hash' \in [Tabs -> Filters \cup {"all"}]
    PROVE  TodoInd'
<1>1. adds \in 0 .. MaxAdds /\ MaxAdds \in Nat
  BY TodoAssumption DEF TodoInd
<1>2. adds' \in 0 .. MaxAdds /\ adds <= adds' /\ adds \in Int /\ adds' \in Int
  BY <1>1
<1>3. st \in TabStates /\ state \in [Tabs -> TabStates]
  BY DEF TabOk, TodoInd
<1>4. state' \in [Tabs -> TabStates]
  BY <1>3
<1>5. ASSUME NEW v \in Tabs PROVE TabOk(state'[v], adds')
  <2>1. CASE v = w
    <3>1. state'[v] = st
      BY <1>3, <2>1
    <3>2. QED BY <3>1, Zenon
  <2>2. CASE v # w
    <3>1. state'[v] = state[v]
      BY <1>3, <2>2
    <3>2. TabOk(state[v], adds)
      BY DEF TodoInd
    <3>3. TabOk(state[v], adds')
      BY <1>2, <3>2, ListedMore
    <3>4. QED BY <3>1, <3>3, Zenon
  <2>3. QED BY <2>1, <2>2
<1>6. StorageOk(storage', adds')
  <2>1. CASE storage' = storage
    <3>1. StorageOk(storage, adds)
      BY Zenon DEF TodoInd
    <3>2. StorageOk(storage, adds')
      BY <1>2, <3>1, ListedMore
    <3>3. QED BY <2>1, <3>2, Zenon
  <2>2. CASE storage' = serialize(st)
    <3>1. st.todos \in Seq(TodoSet) /\ Listed(st.todos, st.next_id) /\ st.next_id \in Nat /\ st.next_id <= adds' + 1
      BY DEF TabOk, TabStates
    <3>2. storage' = Saved(st.todos)
      BY <2>2, <3>1, SerializeIs
    <3>3. Listed(st.todos, adds' + 1)
      <4>1. st.next_id \in Int /\ adds' + 1 \in Int /\ st.next_id <= adds' + 1
        BY <1>2, <3>1
      <4>2. QED BY <3>1, <4>1, ListedMore
    <3>4. QED BY <3>2, <3>3, Zenon DEF StorageOk
  <2>3. QED BY <2>1, <2>2
<1>7. QED BY <1>2, <1>4, <1>5, <1>6, Zenon DEF TodoInd, TabOk, TabStates, StorageOk, Saved, CutLast, Listed, Growing, TodoSet, Kind, Symbol, rowLn

LEMMA TodoKeeps == TodoInd /\ [TodoNext]_tabs => TodoInd'
<1> SUFFICES ASSUME TodoInd, [TodoNext]_tabs PROVE TodoInd'
  OBVIOUS
<1>1. CASE UNCHANGED tabs
  <2>1. state' = state /\ hash' = hash /\ storage' = storage /\ adds' = adds
    BY <1>1 DEF tabs
  <2>2. QED BY <2>1, Zenon DEF TodoInd, TabOk, TabStates, StorageOk, Saved, CutLast, Listed, Growing, TodoSet, Kind, Symbol, rowLn
<1>2. /\ adds \in 0 .. MaxAdds /\ hash \in [Tabs -> Filters \cup {"all"}] /\ state \in [Tabs -> TabStates]
      /\ (\A v \in Tabs : TabOk(state[v], adds)) /\ StorageOk(storage, adds)
  BY Zenon DEF TodoInd
<1>3. adds \in Nat /\ adds \in adds .. MaxAdds /\ MaxAdds \in Nat
  BY <1>2, TodoAssumption
<1>4. ASSUME NEW w \in Tabs, TodoNext,
             \/ start(w) \/ CloseTab(w) \/ EnterTodo(w) \/ ClickToggle(w) \/ ClickRemove(w)
             \/ ClearCompleted(w) \/ Navigate(w) \/ HashChange(w)
      PROVE  TodoInd'
  <2>0. TabOk(state[w], adds)
    BY <1>2
  <2>1. CASE start(w)
    <3>1. PICK f \in Filters, initial \in {deserialize(storage), New} :
             /\ hash' = [hash EXCEPT ![w] = f]
             /\ state' = [state EXCEPT ![w] = [initial EXCEPT !.filter = f]]
      BY <2>1, Zenon DEF start
    <3>2. storage' = storage /\ adds' = adds
      BY <2>1, Zenon DEF start
    <3>3. hash' \in [Tabs -> Filters \cup {"all"}]
      BY <1>2, <3>1
    <3>4. PICK st : st = [initial EXCEPT !.filter = f]
      OBVIOUS
    <3>5. TabOk(st, adds)
      <4>1. CASE initial = deserialize(storage)
        <5>1. st = [deserialize(storage) EXCEPT !.filter = f]
          BY <3>4, <4>1, Zenon
        <5>2. QED BY <1>2, <1>3, <5>1, LoadKept
      <4>2. CASE initial = New
        <5>1. st = [New EXCEPT !.filter = f]
          BY <3>4, <4>2, Zenon
        <5>2. << >> \in Seq(TodoSet)
          OBVIOUS
        <5>3. st \in TabStates /\ st.todos = << >> /\ st.next_id = 1
          BY <5>1, <5>2 DEF New, TabStates
        <5>4. QED BY <1>3, <5>3, EmptyListed DEF TabOk
      <4>3. QED BY <4>1, <4>2
    <3>6. state' = [state EXCEPT ![w] = st]
      BY <3>1, <3>4, Zenon
    <3>7. QED BY <1>3, <3>2, <3>3, <3>5, <3>6, TabChanges
  <2>2. CASE CloseTab(w)
    <3>1. /\ state' = [state EXCEPT ![w] = Closed] /\ hash' = [hash EXCEPT ![w] = "all"]
          /\ storage' = storage /\ adds' = adds
      BY <2>2, Zenon DEF CloseTab
    <3>2. hash' \in [Tabs -> Filters \cup {"all"}]
      BY <1>2, <3>1
    <3>3. Closed \in TabStates /\ Closed.todos = << >> /\ Closed.filter = "closed" /\ Closed.next_id = 0
      <4>1. << >> \in Seq(TodoSet)
        OBVIOUS
      <4>2. QED BY <4>1 DEF Closed, TabStates
    <3>4. TabOk(Closed, adds)
      BY <1>3, <3>3, EmptyListed DEF TabOk
    <3>5. QED BY <1>3, <3>1, <3>2, <3>4, TabChanges
  <2>3. CASE EnterTodo(w)
    <3>1. PICK text \in Todos : Trimmed(text) # << >> /\ Change(w, add(state[w], text))
      BY <2>3, Zenon DEF EnterTodo
    <3>2. adds < MaxAdds /\ adds' = adds + 1 /\ hash' = hash /\ state[w].filter # "closed"
      BY <2>3, Zenon DEF EnterTodo, Open
    <3>3. state[w].next_id >= 1
      BY <2>0, <3>2 DEF TabOk
    <3>4. PICK old, st : old = state[w] /\ st = add(old, text)
      OBVIOUS
    <3>5. TabOk(st, adds + 1)
      <4>1. TabOk(old, adds) /\ old.next_id >= 1
        BY <2>0, <3>3, <3>4, Zenon
      <4>2. TabOk(add(old, text), adds + 1)
        BY <1>3, <3>1, <3>2, <4>1, AddKept
      <4>3. QED BY <3>4, <4>2, Zenon
    <3>6. state' = [state EXCEPT ![w] = st] /\ storage' \in {storage, serialize(st)}
      BY <3>1, <3>4, Zenon DEF Change
    <3>7. adds' \in adds .. MaxAdds /\ TabOk(st, adds')
      <4>1. adds + 1 \in adds .. MaxAdds
        BY <1>3, <3>2
      <4>2. QED BY <3>2, <3>5, <4>1, Zenon
    <3>8. hash' \in [Tabs -> Filters \cup {"all"}]
      BY <1>2, <3>2, Zenon
    <3>9. QED BY <3>6, <3>7, <3>8, TabChanges
  <2>4. ASSUME NEW st, Change(w, st), TabOk(st, adds), hash' = hash, adds' = adds PROVE TodoInd'
    <3>1. state' = [state EXCEPT ![w] = st] /\ storage' \in {storage, serialize(st)}
      BY <2>4, Zenon DEF Change
    <3>2. adds' \in adds .. MaxAdds /\ TabOk(st, adds') /\ hash' \in [Tabs -> Filters \cup {"all"}]
      BY <1>2, <1>3, <2>4, Zenon
    <3>3. QED BY <3>1, <3>2, TabChanges
  <2>5. CASE ClickToggle(w)
    <3>1. PICK nr \in render(state[w]) : Change(w, toggle(state[w], nr))
      BY <2>5, Zenon DEF ClickToggle
    <3>2. hash' = hash /\ adds' = adds
      BY <2>5, Zenon DEF ClickToggle
    <3>3. PICK old, st : old = state[w] /\ st = toggle(old, nr)
      OBVIOUS
    <3>4. TabOk(st, adds) /\ Change(w, st)
      <4>1. TabOk(old, adds) /\ nr \in render(old)
        BY <2>0, <3>3, Zenon
      <4>2. TabOk(toggle(old, nr), adds)
        BY <4>1, ToggleKeeps
      <4>3. QED BY <3>1, <3>3, <4>2, Zenon
    <3>5. QED BY <2>4, <3>2, <3>4, Zenon
  <2>6. CASE ClickRemove(w)
    <3>1. PICK nr \in render(state[w]) : Change(w, remove(state[w], nr))
      BY <2>6, Zenon DEF ClickRemove
    <3>2. hash' = hash /\ adds' = adds
      BY <2>6, Zenon DEF ClickRemove
    <3>3. PICK old, st : old = state[w] /\ st = remove(old, nr)
      OBVIOUS
    <3>4. TabOk(st, adds) /\ Change(w, st)
      <4>1. TabOk(old, adds)
        BY <2>0, <3>3, Zenon
      <4>2. TabOk(remove(old, nr), adds)
        BY <4>1, RemoveKeeps
      <4>3. QED BY <3>1, <3>3, <4>2, Zenon
    <3>5. QED BY <2>4, <3>2, <3>4, Zenon
  <2>7. CASE ClearCompleted(w)
    <3>1. Change(w, clear_completed(state[w])) /\ hash' = hash /\ adds' = adds
      BY <2>7, Zenon DEF ClearCompleted
    <3>2. PICK old, st : old = state[w] /\ st = clear_completed(old)
      OBVIOUS
    <3>3. TabOk(st, adds) /\ Change(w, st)
      <4>1. TabOk(old, adds)
        BY <2>0, <3>2, Zenon
      <4>2. TabOk(clear_completed(old), adds)
        BY <4>1, RemoveKeeps
      <4>3. QED BY <3>1, <3>2, <4>2, Zenon
    <3>4. QED BY <2>4, <3>1, <3>3, Zenon
  <2>8. CASE Navigate(w)
    <3>1. PICK f \in Filters \ {hash[w]} : hash' = [hash EXCEPT ![w] = f]
      BY <2>8, Zenon DEF Navigate
    <3>2. state' = state /\ storage' = storage /\ adds' = adds
      BY <2>8, Zenon DEF Navigate
    <3>3. hash' \in [Tabs -> Filters \cup {"all"}]
      BY <1>2, <3>1
    <3>4. state' = [state EXCEPT ![w] = state[w]]
      BY <1>2, <3>2
    <3>5. PICK st : st = state[w]
      OBVIOUS
    <3>6. state' = [state EXCEPT ![w] = st] /\ TabOk(st, adds') /\ adds' \in adds .. MaxAdds
      BY <1>3, <2>0, <3>2, <3>4, <3>5, Zenon
    <3>7. QED BY <3>2, <3>3, <3>6, TabChanges
  <2>9. CASE HashChange(w)
    <3>1. /\ state' = [state EXCEPT ![w].filter = hash[w]] /\ state[w].filter # "closed"
          /\ hash' = hash /\ storage' = storage /\ adds' = adds
      BY <2>9, Zenon DEF HashChange, Open
    <3>2. PICK old, st : old = state[w] /\ st = [old EXCEPT !.filter = hash[w]]
      OBVIOUS
    <3>3. state' = [state EXCEPT ![w] = st]
      BY <3>1, <3>2, Zenon
    <3>4. TabOk(old, adds) /\ old.filter # "closed" /\ hash[w] \in Filters \cup {"all", "closed"}
      BY <1>2, <2>0, <3>1, <3>2
    <3>5. st \in TabStates /\ st.todos = old.todos /\ st.next_id = old.next_id /\ old.next_id >= 1
      BY <3>2, <3>4 DEF TabOk, TabStates
    <3>6. TabOk(st, adds)
      BY <3>4, <3>5, Zenon DEF TabOk
    <3>7. adds' \in adds .. MaxAdds /\ TabOk(st, adds') /\ hash' \in [Tabs -> Filters \cup {"all"}]
      BY <1>2, <1>3, <3>1, <3>6, Zenon
    <3>8. QED BY <3>1, <3>3, <3>7, TabChanges
  <2>10. QED BY <1>4, <2>1, <2>2, <2>3, <2>5, <2>6, <2>7, <2>8, <2>9
<1>5. CASE TodoNext
  BY <1>4, <1>5, Zenon DEF TodoNext
<1>6. QED BY <1>1, <1>5

\* The invariant on which the page rests: every tab's list grows in its ids,
\* below that tab's next_id, and the storage always holds a list that some tab
\* wrote whole, whatever the tabs do to each other.
THEOREM TodoInvariant == TodoSpec => []TodoInd
BY TodoStarts, TodoKeeps, PTL DEF TodoSpec

LEMMA TodosReload == TodoInd => ReloadKeeps
<1> SUFFICES ASSUME TodoInd, NEW w \in Tabs
             PROVE  deserialize(serialize(state[w])).todos = state[w].todos
  BY DEF ReloadKeeps
<1>1. TabOk(state[w], adds)
  BY DEF TodoInd
<1>2. PICK st : st = state[w]
  OBVIOUS
<1>3. st.todos \in Seq(TodoSet)
  BY <1>1, <1>2 DEF TabOk, TabStates
<1>4. serialize(st) = Saved(st.todos)
  BY <1>3, SerializeIs
<1>5. Rows(serialize(st)) = st.todos
  BY <1>3, <1>4, ReadsBackTodos
<1>6. deserialize(serialize(st)).todos = Rows(serialize(st))
  BY DEF deserialize, New
<1>7. QED BY <1>2, <1>5, <1>6, Zenon

\* serialize and deserialize are inverse on every list a tab can hold, whatever
\* was typed: backslashes, tabs, newlines and carriage returns come back as
\* they were.
THEOREM ReloadsLists == TodoSpec => []ReloadKeeps
BY TodoInvariant, TodosReload, PTL

LEMMA TodosNamed == TodoInd => IdsNameTodos
<1> SUFFICES ASSUME TodoInd PROVE IdsNameTodos
  OBVIOUS
<1>1. ASSUME NEW w \in Tabs, NEW k \in DOMAIN state[w].todos
      PROVE  /\ state[w].todos[k].id < state[w].next_id
             /\ k > 1 => k - 1 \in DOMAIN state[w].todos /\ state[w].todos[k - 1].id < state[w].todos[k].id
  <2>1. TabOk(state[w], adds)
    BY DEF TodoInd
  <2>2. PICK x, n : x = state[w].todos /\ n = state[w].next_id
    OBVIOUS
  <2>3. Listed(x, n)
    BY <2>1, <2>2 DEF TabOk
  <2>4. x \in Seq(TodoSet) /\ Growing(x) /\ \A j \in 1 .. Len(x) : x[j].id < n
    BY <2>3 DEF Listed
  <2>5. k \in 1 .. Len(x)
    BY <2>2, <2>4
  <2>6. k > 1 => k - 1 \in 1 .. Len(x) /\ k - 1 < k
    BY <2>4, <2>5
  <2>7. x[k].id < n /\ (k > 1 => k - 1 \in DOMAIN x /\ x[k - 1].id < x[k].id)
    BY <2>4, <2>5, <2>6 DEF Growing
  <2>8. QED BY <2>2, <2>7, Zenon
<1>2. ASSUME NEW w \in Tabs
      PROVE  LET ids == [k \in DOMAIN state[w].todos |-> state[w].todos[k].id]
             IN \A k \in DOMAIN ids : /\ ids[k] < state[w].next_id
                                      /\ k > 1 => ids[k - 1] < ids[k]
  BY <1>1, Zenon
<1>3. QED BY <1>2, Zenon DEF IdsNameTodos

\* Ids stay names: however the tabs number on their own, overwrite each other
\* and reload, no list ever holds an id twice or one it will give again.
THEOREM IdsStay == TodoSpec => []IdsNameTodos
BY TodoInvariant, TodosNamed, PTL
=============================================================================

----------------------------- MODULE TcpChatProofs -----------------------------
(***************************************************************************)
(* The safety properties of the chat server for any number of connections   *)
(* and nicknames and any buffer size.                                       *)
(***************************************************************************)
EXTENDS TcpChat, TLAPS

TriesLeft == \A c \in Conns : hpc[c] \in {"new", "nick"} => tries[c] < MaxNickAttempts

Core ==
    /\ HubTypeOK /\ NicksAgree /\ Deliveries /\ Membership /\ TriesLeft
    /\ NoSendOnClosed /\ InHubOrder

LEMMA CoreGivesSingleWriter ==
    ASSUME Core
    PROVE  SingleWriter
<1> SUFFICES ASSUME NEW c \in Conns, hpc[c] = "nick"
             PROVE  /\ wpc[c] = "recv" /\ send[c] = 0
                    /\ \A d \in Conns : \A p \in pend[d] : p[1] # c
  BY DEF SingleWriter
<1>1. c \notin hubClients
  BY DEF Core, Membership
<1>2. QED BY <1>1 DEF Core, Membership, Deliveries

\* The mutex is free: no method has deliveries left.
LEMMA FreeMutex ==
    ASSUME Core, mu = Nobody
    PROVE  \A c \in Conns : pend[c] = {}
BY ChatAssumption DEF Core, Deliveries

\* What a Hub method of member c does to the deliveries, given the new member
\* set and the clients it will tell, all members.
LEMMA TellStep ==
    ASSUME Core, mu = Nobody, NEW c \in Conns, NEW S \in SUBSET Conns,
           NEW loop \in {"tell", "bye"}, NEW next \in {"serve", "close"},
           Tell(c, S \X {lines + 1}, loop, next),
           S \subseteq hubClients', UNCHANGED offered
    PROVE  /\ Deliveries'
           /\ mu' \in Conns \cup {Nobody} /\ lines' \in Nat
           /\ pend' \in [Conns -> SUBSET (Conns \X Nat)]
           /\ hpc' = [hpc EXCEPT ![c] = hpc'[c]] /\ hpc'[c] \in {loop, next}
<1> DEFINE todo == S \X {lines + 1}
<1>1. /\ lines' = lines + 1 /\ pend' = [pend EXCEPT ![c] = todo]
      /\ mu' = (IF todo = {} THEN Nobody ELSE c)
      /\ hpc' = [hpc EXCEPT ![c] = IF todo = {} THEN next ELSE loop]
  BY DEF Tell
<1>2. /\ lines \in Nat /\ pend \in [Conns -> SUBSET (Conns \X Nat)]
      /\ hpc \in [Conns -> HandlerPCs] /\ offered \in [Conns -> Nat]
      /\ \A d \in Conns : offered[d] <= lines
  BY DEF Core, HubTypeOK, Deliveries
<1>3. todo \in SUBSET (Conns \X Nat)
  BY <1>2
<1>4. \A p \in todo : p[1] \in S /\ p[2] = lines + 1
  OBVIOUS
<1> HIDE DEF todo
<1>5. \A d \in Conns : pend[d] = {}
  BY FreeMutex
<1>6. pend' \in [Conns -> SUBSET (Conns \X Nat)] /\ pend'[c] = todo
      /\ \A d \in Conns : d # c => pend'[d] = {}
  BY <1>1, <1>2, <1>3, <1>5
<1>7. hpc' = [hpc EXCEPT ![c] = hpc'[c]]
      /\ hpc'[c] = (IF todo = {} THEN next ELSE loop) /\ hpc'[c] \in {loop, next}
  BY <1>1, <1>2
<1>8. Deliveries'
  <2>1. \A d \in Conns : pend'[d] # {} => mu' = d /\ hpc'[d] \in {"tell", "bye"}
    BY <1>1, <1>6, <1>7
  <2>2. \A d \in Conns : \A p \in pend'[d] :
           p[1] \in hubClients' /\ p[2] = lines' /\ offered'[p[1]] < lines'
    <3> SUFFICES ASSUME NEW p \in todo
                 PROVE  p[1] \in hubClients' /\ p[2] = lines' /\ offered'[p[1]] < lines'
      BY <1>6
    <3>1. p[1] \in S /\ p[2] = lines + 1
      BY <1>4
    <3>2. offered[p[1]] \in Nat /\ offered[p[1]] <= lines
      BY <1>2, <3>1
    <3>3. QED BY <1>1, <1>2, <3>1, <3>2
  <2>3. \A d \in Conns : offered'[d] <= lines'
    BY <1>1, <1>2
  <2>4. \A d \in Conns : mu' = d => pend'[d] # {}
    BY <1>1, <1>6, ChatAssumption
  <2>5. QED BY <2>1, <2>2, <2>3, <2>4 DEF Deliveries
<1>9. QED BY <1>1, <1>2, <1>6, <1>7, <1>8

\* One delivery: the target is a member, so its channel is open, and it has
\* not been offered the line, so the order is kept.
LEMMA DeliverStep ==
    ASSUME Core, NEW c \in Conns, deliverLocked(c)
    PROVE  Core'
<1>1. PICK p \in pend[c] :
        /\ Offer(p[1])
        /\ offered' = [offered EXCEPT ![p[1]] = p[2]]
        /\ ordered' = (ordered /\ offered[p[1]] < p[2])
        /\ pend' = [pend EXCEPT ![c] = pend[c] \ {p}]
        /\ mu' = IF pend[c] \ {p} = {} /\ mu = c THEN Nobody ELSE mu
        /\ hpc' = IF pend[c] \ {p} # {} THEN hpc
                  ELSE [hpc EXCEPT ![c] = IF @ = "tell" THEN "serve" ELSE "close"]
        /\ UNCHANGED <<hubClients, byNick, nick, lines, tries, wpc, peer, dying>>
  BY DEF deliverLocked
<1> DEFINE x == p[1]
           rest == pend[c] \ {p}
<1>2. /\ HubTypeOK /\ x \in hubClients /\ x \in Conns /\ p[2] = lines /\ offered[x] < lines
      /\ mu = c /\ hpc[c] \in {"tell", "bye"} /\ p \in Conns \X Nat
  BY DEF Core, HubTypeOK, Deliveries
<1>3. ~closed[x]
  BY <1>2 DEF Core, Membership
<1>4. /\ panicked' = panicked /\ closed' = closed
      /\ send' = (IF send[x] = SendBuffer THEN send ELSE [send EXCEPT ![x] = @ + 1])
  BY <1>1, <1>2, <1>3 DEF Offer, HubTypeOK
<1>5. send' \in [Conns -> 0 .. SendBuffer] /\ \A d \in Conns : d # x => send'[d] = send[d]
  BY <1>2, <1>4, ChatAssumption DEF HubTypeOK
<1>6. offered' \in [Conns -> Nat] /\ offered'[x] = lines
      /\ \A d \in Conns : d # x => offered'[d] = offered[d]
  BY <1>1, <1>2 DEF HubTypeOK
<1>7. rest \in SUBSET (Conns \X Nat) /\ pend' \in [Conns -> SUBSET (Conns \X Nat)]
      /\ pend'[c] = rest /\ \A d \in Conns : d # c => pend'[d] = pend[d]
  BY <1>1, <1>2 DEF HubTypeOK
<1>8. \A q \in rest : q \in pend[c] /\ q[1] # x
  <2> SUFFICES ASSUME NEW q \in pend[c], q[1] = x PROVE q = p
    OBVIOUS
  <2>1. q \in Conns \X Nat /\ p \in Conns \X Nat /\ q[2] = lines /\ p[2] = lines
    BY <1>2 DEF Core, HubTypeOK, Deliveries
  <2>2. QED BY <2>1
<1>9. /\ hpc' \in [Conns -> HandlerPCs]
      /\ \A d \in Conns : d # c => hpc'[d] = hpc[d]
      /\ rest # {} => hpc'[c] = hpc[c]
      /\ rest = {} => hpc'[c] = (IF hpc[c] = "tell" THEN "serve" ELSE "close")
  <2> HIDE DEF rest
  <2>1. hpc' = IF rest # {} THEN hpc
               ELSE [hpc EXCEPT ![c] = IF @ = "tell" THEN "serve" ELSE "close"]
    BY <1>1 DEF rest
  <2>2. QED BY <2>1, <1>2 DEF HubTypeOK, HandlerPCs
<1>10. mu' = IF rest = {} THEN Nobody ELSE c
  BY <1>1, <1>2
<1> HIDE DEF x, rest
<1>11. HubTypeOK'
  <2>1. mu' \in Conns \cup {Nobody}
    BY <1>10
  <2>2. UNCHANGED <<hubClients, byNick, nick, lines, tries, wpc, peer, dying>>
    BY <1>1
  <2>3. ordered' \in BOOLEAN /\ panicked' \in BOOLEAN
    BY <1>1, <1>2, <1>4 DEF HubTypeOK
  <2>4. QED BY <1>2, <1>4, <1>5, <1>6, <1>7, <1>9, <2>1, <2>2, <2>3 DEF HubTypeOK
<1>12. NicksAgree'
  BY <1>1 DEF Core, NicksAgree
<1>13. Deliveries'
  <2>1. \A d \in Conns : d # c => pend[d] = {}
    BY <1>2 DEF Core, Deliveries
  <2>2. \A d \in Conns : pend'[d] # {} => mu' = d /\ hpc'[d] \in {"tell", "bye"}
    BY <1>2, <1>7, <1>9, <1>10, <2>1
  <2>3. ASSUME NEW q \in rest
        PROVE  q[1] \in hubClients' /\ q[2] = lines' /\ offered'[q[1]] < lines'
    <3>1. q \in pend[c] /\ q[1] # x /\ q[1] \in Conns
      BY <1>2, <1>8 DEF HubTypeOK
    <3>2. q[1] \in hubClients /\ q[2] = lines /\ offered[q[1]] < lines
      BY <3>1 DEF Core, Deliveries
    <3>3. QED BY <1>1, <1>6, <3>1, <3>2
  <2>4. \A d \in Conns : offered'[d] <= lines'
    <3>1. lines' = lines /\ lines \in Nat /\ \A d \in Conns : offered[d] <= lines
      BY <1>1, <1>2 DEF Core, Deliveries, HubTypeOK
    <3>2. QED BY <1>6, <3>1
  <2>5. \A d \in Conns : mu' = d => pend'[d] # {}
    BY <1>7, <1>10, ChatAssumption
  <2>6. \A d \in Conns : \A q \in pend'[d] :
           q[1] \in hubClients' /\ q[2] = lines' /\ offered'[q[1]] < lines'
    BY <1>7, <2>1, <2>3
  <2>7. QED BY <2>2, <2>4, <2>5, <2>6 DEF Deliveries
<1>14. Membership'
  <2> SUFFICES ASSUME NEW d \in Conns
      PROVE  /\ hpc'[d] \in {"serve", "tell"} => d \in hubClients'
             /\ hpc'[d] \in {"new", "nick", "close", "bye", "wait", "done"} => d \notin hubClients'
             /\ closed'[d] => hpc'[d] \in {"wait", "done"}
             /\ hpc'[d] \in {"new", "nick"} => send'[d] = 0
             /\ hpc'[d] = "nick" => wpc'[d] = "recv"
    BY DEF Membership
  <2>1. UNCHANGED <<hubClients, wpc, closed>>
    BY <1>1, <1>4
  <2>2. CASE d = c
    BY <1>2, <1>9, <2>1, <2>2 DEF Core, Membership
  <2>3. CASE d # c
    <3>1. hpc'[d] = hpc[d]
      BY <1>9, <2>3
    <3>2. hpc[d] \in {"new", "nick"} => d # x
      BY <1>2 DEF Core, Membership
    <3>3. QED BY <1>5, <2>1, <3>1, <3>2 DEF Core, Membership
  <2>4. QED BY <2>2, <2>3
<1>15. NoSendOnClosed' /\ InHubOrder'
  BY <1>1, <1>2, <1>4 DEF Core, NoSendOnClosed, InHubOrder, x
<1>16. TriesLeft'
  BY <1>1, <1>2, <1>9 DEF Core, TriesLeft
<1>17. QED BY <1>11, <1>12, <1>13, <1>14, <1>15, <1>16 DEF Core

\* Join, Rename, Broadcast and Whisper, and Leave of a member: the methods that
\* announce something.
LEMMA HubStep ==
    ASSUME Core, NEW c \in Conns,
           \/ \E n \in Nicks : Join(c, n) \/ Rename(c, n) \/ Whisper(c, n)
           \/ Broadcast(c)
           \/ Leave(c) /\ c \in hubClients
    PROVE  Core'
<1>0. /\ HubTypeOK /\ NicksAgree /\ mu = Nobody
      /\ UNCHANGED <<chan, tries, wpc, offered, ordered, peer, dying>>
  BY DEF Core, Join, Rename, Whisper, Broadcast, Leave, history
<1>m. /\ hpc[c] \in {"serve", "tell"} => c \in hubClients
      /\ \A d \in hubClients : d \in Conns
  BY DEF Core, Membership, HubTypeOK
\* What is left to show of a method that has told a set of members.
<1>r. ASSUME NEW S \in SUBSET Conns, NEW loop \in {"tell", "bye"},
             NEW next \in {"serve", "close"},
             Tell(c, S \X {lines + 1}, loop, next), S \subseteq hubClients',
             hubClients' \in SUBSET Conns, byNick' \in [Nicks -> Conns \cup {Nobody}],
             nick' \in [Conns -> Nicks \cup {NoNick}], NicksAgree',
             \A d \in Conns : d # c => (d \in hubClients' <=> d \in hubClients),
             IF loop = "tell" THEN next = "serve" /\ c \in hubClients'
             ELSE next = "close" /\ c \notin hubClients',
             hpc[c] \in {"nick", "serve", "leave"}
      PROVE  Core'
  <2>1. /\ Deliveries' /\ mu' \in Conns \cup {Nobody} /\ lines' \in Nat
        /\ pend' \in [Conns -> SUBSET (Conns \X Nat)]
        /\ hpc' = [hpc EXCEPT ![c] = hpc'[c]] /\ hpc'[c] \in {loop, next}
    BY <1>0, <1>r, TellStep
  <2>2. hpc' \in [Conns -> HandlerPCs] /\ \A d \in Conns : d # c => hpc'[d] = hpc[d]
    BY <1>0, <2>1 DEF HubTypeOK, HandlerPCs
  <2>3. UNCHANGED <<send, closed, panicked, tries, wpc, offered, ordered, peer, dying>>
    BY <1>0 DEF chan
  <2>4. HubTypeOK'
    BY <1>0, <1>r, <2>1, <2>2, <2>3 DEF HubTypeOK
  <2>5. Membership'
    <3> SUFFICES ASSUME NEW d \in Conns
        PROVE  /\ hpc'[d] \in {"serve", "tell"} => d \in hubClients'
               /\ hpc'[d] \in {"new", "nick", "close", "bye", "wait", "done"} => d \notin hubClients'
               /\ closed'[d] => hpc'[d] \in {"wait", "done"}
               /\ hpc'[d] \in {"new", "nick"} => send'[d] = 0
               /\ hpc'[d] = "nick" => wpc'[d] = "recv"
      BY DEF Membership
    <3>1. CASE d = c
      <4>1. ~closed[c]
        BY <1>r DEF Core, Membership
      <4>2. QED BY <1>r, <2>1, <2>3, <3>1, <4>1
    <3>2. CASE d # c
      BY <1>r, <2>2, <2>3, <3>2 DEF Core, Membership
    <3>3. QED BY <3>1, <3>2
  <2>6. NoSendOnClosed' /\ InHubOrder'
    BY <2>3 DEF Core, NoSendOnClosed, InHubOrder
  <2>7. TriesLeft'
    BY <1>r, <2>1, <2>2, <2>3 DEF Core, TriesLeft
  <2>8. QED BY <1>r, <2>1, <2>4, <2>5, <2>6, <2>7 DEF Core
<1>1. ASSUME NEW n \in Nicks, Join(c, n)
      PROVE  Core'
  <2>1. /\ hpc[c] = "nick" /\ byNick[n] = Nobody /\ nick' = [nick EXCEPT ![c] = n]
        /\ hubClients' = hubClients \cup {c} /\ byNick' = [byNick EXCEPT ![n] = c]
        /\ Tell(c, (hubClients \cup {c}) \X {lines + 1}, "tell", "serve")
    BY <1>1 DEF Join
  <2>2. c \notin hubClients
    BY <2>1 DEF Core, Membership
  <2>3. /\ byNick' \in [Nicks -> Conns \cup {Nobody}] /\ nick' \in [Conns -> Nicks \cup {NoNick}]
        /\ byNick'[n] = c /\ nick'[c] = n
        /\ \A m \in Nicks : m # n => byNick'[m] = byNick[m]
        /\ \A d \in Conns : d # c => nick'[d] = nick[d]
    BY <1>0, <2>1 DEF HubTypeOK
  <2>4. NicksAgree'
    <3>1. \A d \in hubClients' : nick'[d] \in Nicks /\ byNick'[nick'[d]] = d
      BY <1>0, <1>m, <2>1, <2>3, ChatAssumption DEF NicksAgree
    <3>2. \A m \in Nicks : byNick'[m] # Nobody => byNick'[m] \in hubClients' /\ nick'[byNick'[m]] = m
      BY <1>0, <1>m, <2>1, <2>2, <2>3 DEF NicksAgree
    <3>3. QED BY <3>1, <3>2 DEF NicksAgree
  <2>5. hubClients \cup {c} \in SUBSET Conns
    BY <1>m
  <2>6. QED BY <1>r, <2>1, <2>3, <2>4, <2>5
<1>2. ASSUME NEW n \in Nicks, Rename(c, n)
      PROVE  Core'
  <2>1. /\ hpc[c] = "serve" /\ n # nick[c] /\ byNick[n] = Nobody
        /\ nick' = [nick EXCEPT ![c] = n] /\ hubClients' = hubClients
        /\ byNick' = [byNick EXCEPT ![nick[c]] = Nobody, ![n] = c]
        /\ Tell(c, hubClients \X {lines + 1}, "tell", "serve")
    BY <1>2 DEF Rename
  <2>2. c \in hubClients /\ nick[c] \in Nicks /\ byNick[nick[c]] = c
    BY <1>0, <1>m, <2>1 DEF NicksAgree
  <2>3. /\ byNick' \in [Nicks -> Conns \cup {Nobody}] /\ nick' \in [Conns -> Nicks \cup {NoNick}]
        /\ byNick'[n] = c /\ nick'[c] = n /\ byNick'[nick[c]] = Nobody
        /\ \A m \in Nicks : m # n /\ m # nick[c] => byNick'[m] = byNick[m]
        /\ \A d \in Conns : d # c => nick'[d] = nick[d]
    BY <1>0, <2>1, <2>2 DEF HubTypeOK
  <2>4. NicksAgree'
    <3>1. ASSUME NEW d \in hubClients, d # c
          PROVE  nick'[d] \in Nicks /\ byNick'[nick'[d]] = d
      <4>1. nick'[d] = nick[d] /\ nick[d] \in Nicks /\ byNick[nick[d]] = d
        BY <1>0, <1>m, <2>3, <3>1 DEF NicksAgree
      <4>2. d # Nobody
        BY <1>m, ChatAssumption
      <4>3. nick[d] # nick[c] /\ nick[d] # n
        BY <2>1, <2>2, <3>1, <4>1, <4>2
      <4>4. QED BY <2>3, <4>1, <4>3
    <3>2. \A m \in Nicks : byNick'[m] # Nobody => byNick'[m] \in hubClients /\ nick'[byNick'[m]] = m
      <4> SUFFICES ASSUME NEW m \in Nicks, byNick'[m] # Nobody, m # n
                   PROVE  byNick'[m] \in hubClients /\ nick'[byNick'[m]] = m
        BY <2>2, <2>3
      <4>1. m # nick[c] /\ byNick'[m] = byNick[m]
        BY <2>3
      <4>2. byNick[m] \in hubClients /\ nick[byNick[m]] = m
        BY <1>0, <4>1 DEF NicksAgree
      <4>3. byNick[m] # c
        BY <4>1, <4>2
      <4>4. QED BY <1>m, <2>3, <4>1, <4>2, <4>3
    <3>3. QED BY <2>1, <2>2, <2>3, <3>1, <3>2 DEF NicksAgree
  <2>5. QED BY <1>0, <1>r, <2>1, <2>2, <2>3, <2>4 DEF HubTypeOK
<1>3. ASSUME NEW n \in Nicks, Whisper(c, n)
      PROVE  Core'
  <2>1. /\ hpc[c] = "serve" /\ byNick[n] # Nobody /\ UNCHANGED <<hubClients, byNick, nick>>
        /\ Tell(c, {byNick[n], c} \X {lines + 1}, "tell", "serve")
    BY <1>3 DEF Whisper
  <2>2. c \in hubClients /\ byNick[n] \in hubClients
    BY <1>0, <1>m, <2>1 DEF NicksAgree
  <2>3. {byNick[n], c} \in SUBSET Conns /\ {byNick[n], c} \subseteq hubClients'
    BY <1>m, <2>1, <2>2
  <2>4. NicksAgree'
    BY <1>0, <2>1 DEF NicksAgree
  <2>5. QED BY <1>0, <1>r, <2>1, <2>2, <2>3, <2>4 DEF HubTypeOK
<1>4. CASE Broadcast(c)
  <2>1. /\ hpc[c] = "serve" /\ UNCHANGED <<hubClients, byNick, nick>>
        /\ Tell(c, (hubClients \ {c}) \X {lines + 1}, "tell", "serve")
    BY <1>4 DEF Broadcast
  <2>2. c \in hubClients
    BY <1>m, <2>1
  <2>3. hubClients \ {c} \in SUBSET Conns /\ hubClients \ {c} \subseteq hubClients'
    BY <1>m, <2>1
  <2>4. NicksAgree'
    BY <1>0, <2>1 DEF NicksAgree
  <2>5. QED BY <1>0, <1>r, <2>1, <2>2, <2>3, <2>4 DEF HubTypeOK
<1>5. CASE Leave(c) /\ c \in hubClients
  <2>1. /\ hpc[c] = "leave" /\ nick' = nick /\ hubClients' = hubClients \ {c}
        /\ byNick' = [byNick EXCEPT ![nick[c]] = Nobody]
        /\ Tell(c, (hubClients \ {c}) \X {lines + 1}, "bye", "close")
    BY <1>5 DEF Leave
  <2>2. nick[c] \in Nicks /\ byNick[nick[c]] = c
    BY <1>0, <1>5 DEF NicksAgree
  <2>3. /\ byNick' \in [Nicks -> Conns \cup {Nobody}] /\ byNick'[nick[c]] = Nobody
        /\ \A m \in Nicks : m # nick[c] => byNick'[m] = byNick[m]
    BY <1>0, <2>1, <2>2 DEF HubTypeOK
  <2>4. NicksAgree'
    <3>1. ASSUME NEW d \in hubClients, d # c
          PROVE  nick[d] \in Nicks /\ byNick'[nick[d]] = d
      <4>1. nick[d] \in Nicks /\ byNick[nick[d]] = d
        BY <1>0 DEF NicksAgree
      <4>2. nick[d] # nick[c]
        BY <2>2, <3>1, <4>1
      <4>3. QED BY <2>3, <4>1, <4>2
    <3>2. ASSUME NEW m \in Nicks, byNick'[m] # Nobody
          PROVE  byNick'[m] \in hubClients \ {c} /\ nick[byNick'[m]] = m
      <4>1. m # nick[c] /\ byNick'[m] = byNick[m]
        BY <2>3, <3>2
      <4>2. byNick[m] \in hubClients /\ nick[byNick[m]] = m
        BY <1>0, <3>2, <4>1 DEF NicksAgree
      <4>3. QED BY <4>1, <4>2
    <3>3. QED BY <2>1, <3>1, <3>2 DEF NicksAgree
  <2>5. hubClients \ {c} \in SUBSET Conns
    BY <1>m
  <2>6. c \notin hubClients' /\ \A d \in Conns : d # c => (d \in hubClients' <=> d \in hubClients)
    BY <2>1
  <2>7. QED BY <1>0, <1>r, <2>1, <2>3, <2>4, <2>5, <2>6 DEF HubTypeOK
<1>6. QED BY <1>1, <1>2, <1>3, <1>4, <1>5

\* The steps of one connection that do not touch the Hub.
LEMMA LocalStep ==
    ASSUME Core, NEW c \in Conns,
           \/ handleConn(c) \/ Reject(c) \/ trySend(c) \/ MsgPanics(c) \/ EndOfInput(c)
           \/ Leave(c) /\ c \notin hubClients
           \/ CloseSend(c) \/ CloseConn(c)
           \/ WriterTakes(c) \/ WriterWrites(c) \/ WriterEnds(c) \/ PeerGoes(c)
    PROVE  Core'
<1>0. HubTypeOK /\ NicksAgree /\ UNCHANGED <<mu, hubClients, byNick, nick, pend, lines, offered, ordered>>
  BY DEF Core, handleConn, Reject, trySend, MsgPanics, EndOfInput, Leave, CloseSend, CloseConn,
     WriterTakes, WriterWrites, WriterEnds, PeerGoes, hub, history
<1>1. ~panicked'
  BY DEF Core, NoSendOnClosed, Membership, handleConn, Reject, trySend, MsgPanics, Offer, EndOfInput,
     Leave, CloseSend, CloseConn, WriterTakes, WriterWrites, WriterEnds, PeerGoes, chan
<1>2. HubTypeOK'
  <2>1. hpc' \in [Conns -> HandlerPCs]
    BY <1>0 DEF HubTypeOK, HandlerPCs, handleConn, Reject, trySend, MsgPanics, EndOfInput, Leave,
       CloseSend, CloseConn, WriterTakes, WriterWrites, WriterEnds, PeerGoes
  <2>2. wpc' \in [Conns -> {"new", "recv", "write", "done"}]
    BY <1>0 DEF HubTypeOK, handleConn, Reject, trySend, MsgPanics, EndOfInput, Leave,
       CloseSend, CloseConn, WriterTakes, WriterWrites, WriterEnds, PeerGoes
  <2>3. send' \in [Conns -> 0 .. SendBuffer]
    <3>1. CASE trySend(c)
      <4>1. send' = send \/ (send[c] # SendBuffer /\ send' = [send EXCEPT ![c] = @ + 1])
        BY <3>1 DEF trySend, Offer
      <4>2. QED BY <1>0, <4>1, ChatAssumption DEF HubTypeOK
    <3>2. CASE WriterTakes(c)
      <4>1. send[c] > 0 /\ send' = [send EXCEPT ![c] = @ - 1]
        BY <3>2 DEF WriterTakes
      <4>2. QED BY <1>0, <4>1, ChatAssumption DEF HubTypeOK
    <3>3. CASE ~trySend(c) /\ ~WriterTakes(c)
      BY <1>0, <3>3 DEF HubTypeOK, handleConn, Reject, MsgPanics, EndOfInput, Leave,
         CloseSend, CloseConn, WriterWrites, WriterEnds, PeerGoes, chan
    <3>4. QED BY <3>1, <3>2, <3>3
  <2>4. closed' \in [Conns -> BOOLEAN]
    BY <1>0 DEF HubTypeOK, handleConn, Reject, trySend, MsgPanics, Offer, EndOfInput, Leave,
       CloseSend, CloseConn, WriterTakes, WriterWrites, WriterEnds, PeerGoes, chan
  <2>5. tries' \in [Conns -> 0 .. MaxNickAttempts]
    <3>1. CASE Reject(c)
      <4>1. hpc[c] = "nick" /\ tries' = [tries EXCEPT ![c] = @ + 1]
        BY <3>1 DEF Reject
      <4>2. tries[c] < MaxNickAttempts
        BY <4>1 DEF Core, TriesLeft
      <4>3. QED BY <1>0, <4>1, <4>2, ChatAssumption DEF HubTypeOK
    <3>2. CASE ~Reject(c)
      BY <1>0, <3>2 DEF HubTypeOK, handleConn, trySend, MsgPanics, EndOfInput, Leave,
         CloseSend, CloseConn, WriterTakes, WriterWrites, WriterEnds, PeerGoes
    <3>3. QED BY <3>1, <3>2
  <2>6. peer' \in [Conns -> {"open", "gone"}]
    BY <1>0 DEF HubTypeOK, handleConn, Reject, trySend, MsgPanics, EndOfInput, Leave,
       CloseSend, CloseConn, WriterTakes, WriterWrites, WriterEnds, PeerGoes
  <2>7. panicked' \in BOOLEAN
    BY <1>0 DEF HubTypeOK, handleConn, Reject, trySend, MsgPanics, Offer, EndOfInput, Leave,
       CloseSend, CloseConn, WriterTakes, WriterWrites, WriterEnds, PeerGoes, chan
  <2>8. dying' \subseteq Conns
    BY <1>0 DEF HubTypeOK, handleConn, Reject, trySend, MsgPanics, EndOfInput, Leave,
       CloseSend, CloseConn, WriterTakes, WriterWrites, WriterEnds, PeerGoes
  <2>9. QED BY <1>0, <2>1, <2>2, <2>3, <2>4, <2>5, <2>6, <2>7, <2>8 DEF HubTypeOK
<1>3. NicksAgree'
  BY <1>0 DEF NicksAgree
<1>4. Deliveries'
  <2>1. \A d \in Conns : hpc[d] \in {"tell", "bye"} => hpc'[d] = hpc[d]
    BY <1>0 DEF HubTypeOK, handleConn, Reject, trySend, MsgPanics, EndOfInput, Leave,
       CloseSend, CloseConn, WriterTakes, WriterWrites, WriterEnds, PeerGoes
  <2>2. QED BY <1>0, <2>1 DEF Core, Deliveries
<1>5. Membership'
  <2> SUFFICES ASSUME NEW d \in Conns
      PROVE  /\ hpc'[d] \in {"serve", "tell"} => d \in hubClients
             /\ hpc'[d] \in {"new", "nick", "close", "bye", "wait", "done"} => d \notin hubClients
             /\ closed'[d] => hpc'[d] \in {"wait", "done"}
             /\ hpc'[d] \in {"new", "nick"} => send'[d] = 0
             /\ hpc'[d] = "nick" => wpc'[d] = "recv"
    BY <1>0 DEF Membership
  <2>m. /\ hpc[d] \in {"serve", "tell"} => d \in hubClients
        /\ hpc[d] \in {"new", "nick", "close", "bye", "wait", "done"} => d \notin hubClients
        /\ closed[d] => hpc[d] \in {"wait", "done"}
        /\ hpc[d] \in {"new", "nick"} => send[d] = 0
        /\ hpc[d] = "nick" => wpc[d] = "recv" /\ ~closed[d]
    BY DEF Core, Membership
  <2>1. CASE handleConn(c) \/ Reject(c) \/ MsgPanics(c) \/ EndOfInput(c) \/ PeerGoes(c)
    BY <1>0, <2>1, <2>m DEF HubTypeOK, handleConn, Reject, MsgPanics, EndOfInput, PeerGoes, chan
  <2>2. CASE trySend(c)
    BY <1>0, <2>2, <2>m DEF HubTypeOK, trySend, Offer
  <2>3. CASE (Leave(c) /\ c \notin hubClients) \/ CloseSend(c) \/ CloseConn(c)
    BY <1>0, <2>3, <2>m DEF HubTypeOK, Leave, CloseSend, CloseConn, chan
  <2>4. CASE WriterTakes(c)
    BY <1>0, <2>4, <2>m DEF HubTypeOK, WriterTakes
  <2>5. CASE WriterWrites(c) \/ WriterEnds(c)
    BY <1>0, <2>5, <2>m DEF HubTypeOK, WriterWrites, WriterEnds, chan
  <2>6. QED BY <2>1, <2>2, <2>3, <2>4, <2>5
<1>6. TriesLeft'
  BY <1>0 DEF Core, TriesLeft, HubTypeOK, handleConn, Reject, trySend, MsgPanics, EndOfInput, Leave,
     CloseSend, CloseConn, WriterTakes, WriterWrites, WriterEnds, PeerGoes
<1>7. QED BY <1>0, <1>1, <1>2, <1>3, <1>4, <1>5, <1>6 DEF Core, NoSendOnClosed, InHubOrder

LEMMA CoreInvariant == HubSpec => []Core
<1>1. HubInit => Core
  <2> SUFFICES ASSUME HubInit PROVE Core
    OBVIOUS
  <2>1. HubTypeOK
    <3>1. 0 \in 0 .. SendBuffer /\ 0 \in 0 .. MaxNickAttempts
      BY ChatAssumption
    <3>2. /\ send \in [Conns -> 0 .. SendBuffer] /\ tries \in [Conns -> 0 .. MaxNickAttempts]
          /\ offered \in [Conns -> Nat] /\ lines \in Nat
      BY <3>1 DEF HubInit
    <3>3. closed \in [Conns -> BOOLEAN] /\ panicked \in BOOLEAN /\ ordered \in BOOLEAN
      BY DEF HubInit
    <3>4. /\ hpc \in [Conns -> HandlerPCs] /\ wpc \in [Conns -> {"new", "recv", "write", "done"}]
          /\ peer \in [Conns -> {"open", "gone"}] /\ dying \subseteq Conns
      BY DEF HubInit, HandlerPCs
    <3>5. /\ mu \in Conns \cup {Nobody} /\ hubClients \subseteq Conns
          /\ byNick \in [Nicks -> Conns \cup {Nobody}] /\ nick \in [Conns -> Nicks \cup {NoNick}]
          /\ pend \in [Conns -> SUBSET (Conns \X Nat)]
      BY DEF HubInit
    <3>6. QED BY <3>2, <3>3, <3>4, <3>5 DEF HubTypeOK
  <2>2. NicksAgree
    BY DEF HubInit, NicksAgree
  <2>m. Membership
    BY DEF HubInit, Membership
  <2>3. Deliveries
    <3>1. \A c \in Conns : pend[c] = {} /\ mu # c /\ offered[c] = 0
      BY ChatAssumption DEF HubInit
    <3>2. lines = 0
      BY DEF HubInit
    <3>3. QED BY <3>1, <3>2 DEF Deliveries
  <2>4. TriesLeft
    BY ChatAssumption DEF HubInit, TriesLeft
  <2>5. NoSendOnClosed /\ InHubOrder
    BY DEF HubInit, NoSendOnClosed, InHubOrder
  <2>6. QED BY <2>1, <2>2, <2>m, <2>3, <2>4, <2>5 DEF Core
<1>2. Core /\ [HubNext]_hubVars => Core'
  <2> SUFFICES ASSUME Core, [HubNext]_hubVars PROVE Core'
    OBVIOUS
  <2>1. CASE UNCHANGED hubVars
    BY <2>1 DEF hubVars, Core, HubTypeOK, NicksAgree, Deliveries, Membership, TriesLeft,
       NoSendOnClosed, InHubOrder
  <2>2. ASSUME NEW c \in Conns, deliverLocked(c) PROVE Core'
    BY <2>2, DeliverStep
  <2>3. QED BY <2>1, <2>2, HubStep, LocalStep DEF HubNext
<1>3. QED BY <1>1, <1>2, PTL DEF HubSpec

\* The Hub, the clients and their goroutines keep their shape.
THEOREM TypeCorrect == HubSpec => []HubTypeOK
<1>1. Core => HubTypeOK
  BY DEF Core
<1>2. QED BY <1>1, CoreInvariant, PTL

\* Nicknames are unique and the two maps of the Hub agree.
THEOREM NicknamesUnique == HubSpec => []NicksAgree
<1>1. Core => NicksAgree
  BY DEF Core
<1>2. QED BY <1>1, CoreInvariant, PTL

\* No goroutine ever sends on a closed channel.
THEOREM NoPanic == HubSpec => []NoSendOnClosed
<1>1. Core => NoSendOnClosed
  BY DEF Core
<1>2. QED BY <1>1, CoreInvariant, PTL

\* The handler and the writer of a connection never write at the same time.
THEOREM OneWriter == HubSpec => []SingleWriter
<1>1. Core => SingleWriter
  BY CoreGivesSingleWriter
<1>2. QED BY <1>1, CoreInvariant, PTL

\* Lines reach every client in the order of the Hub's methods.
THEOREM TotalOrder == HubSpec => []InHubOrder
<1>1. Core => InHubOrder
  BY DEF Core
<1>2. QED BY <1>1, CoreInvariant, PTL
================================================================================

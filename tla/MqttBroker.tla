----------------------------- MODULE MqttBroker -----------------------------
(* The poll() loop of broker.c: a table of client slots, one thread, one    *)
(* round after another.  A round snapshots the open descriptors, polls,     *)
(* accepts at most one connection, serves the polled slots in order and     *)
(* ends with a pass that flushes and enforces the keepalive.  Packets come  *)
(* from the peers in any order; what the kernel's send() and recv() answer  *)
(* is a choice.  Filters and topics are values related by Matches (what     *)
(* mqtt_topic_match computes, see MqttTopics); replies are named by type    *)
(* and publications are numbered.                                           *)
EXTENDS Integers, Sequences, FiniteSets, FiniteSetsExt, SequencesExt

CONSTANTS
    MaxClients,      \* MAX_CLIENTS
    MaxSubs,         \* MAX_SUBS
    MaxFilters,      \* filters in one SUBSCRIBE, MQTT_MAX_FILTERS
    Ids, NoId,       \* client ids; NoId is the empty string
    Filters,         \* valid topic filters
    Topics,          \* valid topics
    BadTopic,        \* a topic with a wildcard, or too long
    Matches,         \* pairs <<filter, topic or filter>> mqtt_topic_match accepts
    Keepalives,      \* keepalive intervals a CONNECT may ask for, in seconds
    ConnectWait,     \* seconds a socket has for its CONNECT
    MaxAge,          \* bound: silence is counted up to here
    MaxPubs,         \* bound: publications
    MaxOut           \* bound: packets queued for one client

Slots == 1 .. MaxClients
Closed == -1
BadFilter == "bad filter"

ASSUME BrokerAssumption ==
    /\ MaxClients \in Nat \ {0} /\ MaxSubs \in Nat \ {0} /\ MaxFilters \in Nat \ {0}
    /\ NoId \notin Ids /\ BadTopic \notin Topics
    /\ Matches \subseteq Filters \X (Topics \cup Filters)
    /\ Keepalives \subseteq Nat /\ ConnectWait \in Nat
    /\ MaxAge \in Nat /\ MaxPubs \in Nat /\ MaxOut \in Nat \ {0}

\* A queued packet: its type, and the number of the publication it carries.
Reply(type) == [type |-> type, n |-> 0]
Publication(n) == [type |-> "publish", n |-> n]

VARIABLES
    clients,    \* struct client clients[MAX_CLIENTS]
    polled,     \* the descriptor fds[] holds for each slot this round
    pc, k,      \* where the loop is: phase, and the slot it is at
    npub        \* publications so far

vars == <<clients, polled, pc, k, npub>>

-----------------------------------------------------------------------------
(* Slots *)

\* A slot after memset(c, 0, sizeof *c) with fd = -1.  Two fields
\* are not the code's: reads, whether the peer takes what is sent to it, and
\* seen (history), whether this connection was there when poll() was called.
Zeroed == [fd |-> Closed, connected |-> FALSE, closing |-> FALSE, age |-> 0,
           keepalive |-> 0, id |-> NoId, subs |-> << >>, out |-> << >>,
           reads |-> TRUE, seen |-> FALSE]

Open(s) == clients[s].fd # Closed

queue(c, p) == [c EXCEPT !.out = Append(@, p)]

\* Everything flush() may leave of slot c: a failing send closes it, EAGAIN
\* keeps a suffix, a drained queue closes it when it was marked closing.  A
\* peer that reads makes room for at least one packet.
flush(c) ==
    {Zeroed}
    \cup {[c EXCEPT !.out = SubSeq(c.out, n + 1, Len(c.out))] :
            n \in IF c.reads THEN 1 .. Len(c.out) - 1 ELSE {0}}
    \cup (IF c.reads THEN {IF c.closing THEN Zeroed ELSE [c EXCEPT !.out = << >>]} ELSE {})

has_match(c, t) == \E i \in DOMAIN c.subs : <<c.subs[i], t>> \in Matches

add_sub(c, f) ==
    IF \E i \in DOMAIN c.subs : c.subs[i] = f THEN c
    ELSE [c EXCEPT !.subs = Append(@, f)]

remove_sub(c, f) ==
    LET at == {i \in DOMAIN c.subs : c.subs[i] = f}
    IN IF at = {} THEN c ELSE [c EXCEPT !.subs = RemoveAt(@, Min(at))]

\* One filter of a SUBSCRIBE: refused when invalid, or when the table is full
\* and no filter already held matches the new one.
subscribe(c, f) ==
    IF f \in Filters /\ (Len(c.subs) < MaxSubs \/ has_match(c, f))
    THEN add_sub(c, f) ELSE c

\* The loop over the filters of a SUBSCRIBE (sub) or an UNSUBSCRIBE.
each_filter(c, sub, fs) ==
    LET after[n \in 0 .. Len(fs)] ==
          IF n = 0 THEN c
          ELSE IF sub THEN subscribe(after[n - 1], fs[n]) ELSE remove_sub(after[n - 1], fs[n])
    IN after[Len(fs)]

\* The array has MAX_SUBS entries: past it the next write leaves the array and
\* C gives the program no meaning, so the model takes no further step.
Overrun == \E s \in Slots : Len(clients[s].subs) > MaxSubs

FilterLists == UNION {[1 .. n -> Filters \cup {BadFilter}] : n \in 1 .. MaxFilters}

Init ==
    /\ clients = [s \in Slots |-> Zeroed]
    /\ polled = [s \in Slots |-> Closed]
    /\ pc = "poll" /\ k = 1
    /\ npub = 0

-----------------------------------------------------------------------------
(* The round *)

\* Collect the descriptors, wait in poll() for at most a second.
Poll(seconds) ==
    /\ pc = "poll" /\ ~Overrun
    /\ clients' = [s \in Slots |->
         IF Open(s) THEN [clients[s] EXCEPT !.age = Min({MaxAge, @ + seconds}), !.seen = TRUE]
         ELSE clients[s]]
    /\ polled' = [s \in Slots |-> clients[s].fd]
    /\ pc' = "accept" /\ k' = 1
    /\ UNCHANGED <<npub>>

NewFd == Min({f \in Slots : \A s \in Slots : clients[s].fd # f})

\* accept() gives the lowest free descriptor; with no free slot it is closed again.
Accept(r) ==
    /\ pc = "accept"
    /\ \E s \in Slots : ~Open(s)
    /\ LET slot == Min({s \in Slots : ~Open(s)})
       IN clients' = [clients EXCEPT ![slot] = [Zeroed EXCEPT !.fd = NewFd, !.reads = r]]
    /\ pc' = "serve"
    /\ UNCHANGED <<polled, k, npub>>

\* Nobody to accept, or nowhere to put it.
NoAccept ==
    /\ pc = "accept"
    /\ pc' = "serve"
    /\ UNCHANGED <<clients, polled, k, npub>>

\* As Advance, giving the round up at a client that cannot be written to.
Advance_StopsAtStalled(phase) ==
    IF k < MaxClients /\ (clients[k].reads \/ clients[k].out = << >>) THEN pc' = phase /\ k' = k + 1
    ELSE pc' = "poll" /\ k' = 1

Advance(phase) ==
    IF k < MaxClients THEN pc' = phase /\ k' = k + 1
    ELSE pc' = (IF phase = "serve" THEN "tail" ELSE "poll") /\ k' = 1

\* The slot was not polled, or no longer holds the descriptor that was.
Skip ==
    /\ pc = "serve"
    /\ polled[k] = Closed \/ clients[k].fd # polled[k]
    /\ Advance("serve")
    /\ UNCHANGED <<clients, polled, npub>>

\* As Serves, trusting that the polled slot is still what it was.
Serves_NoRecheck == pc = "serve" /\ polled[k] # Closed

Serves == pc = "serve" /\ polled[k] # Closed /\ clients[k].fd = polled[k]

\* Readable: recv() delivers bytes, the packets in them are handled one by one.
ReadData ==
    /\ Serves /\ ~clients[k].closing
    /\ clients' = [clients EXCEPT ![k].age = 0]
    /\ pc' = "read"
    /\ UNCHANGED <<polled, k, npub>>

\* Readable: recv() answers 0 or an error.
ReadEnd ==
    /\ Serves /\ ~clients[k].closing
    /\ clients' = [clients EXCEPT ![k] = Zeroed]
    /\ Advance("serve")
    /\ UNCHANGED <<polled, npub>>

\* The slot's turn ends: what it has queued is flushed.
FlushTurn ==
    /\ IF Open(k) /\ clients[k].out # << >>
       THEN \E c \in flush(clients[k]) : clients' = [clients EXCEPT ![k] = c]
       ELSE UNCHANGED clients
    /\ Advance("serve")
    /\ UNCHANGED <<polled, npub>>

\* Not readable, or recv() answers EAGAIN.
Unready == Serves /\ FlushTurn

\* The packets are used up, or the client was closed or marked closing.
EndRead == pc = "read" /\ ~Overrun /\ FlushTurn

-----------------------------------------------------------------------------
(* Packets, inside read_client's loop *)

Handling == pc = "read" /\ Open(k) /\ ~clients[k].closing /\ ~Overrun

HasRoom(s) == Len(clients[s].out) < MaxOut

\* A malformed packet, QoS 2, DISCONNECT, a second CONNECT, anything but CONNECT first.
HandleClose ==
    /\ Handling
    /\ clients' = [clients EXCEPT ![k] = Zeroed]
    /\ UNCHANGED <<polled, pc, k, npub>>

\* A CONNECT of another protocol level is answered and the client marked closing.
RefuseConnect ==
    /\ Handling /\ ~clients[k].connected /\ HasRoom(k)
    /\ clients' = [clients EXCEPT ![k] = [queue(@, Reply("refused")) EXCEPT !.closing = TRUE]]
    /\ UNCHANGED <<polled, pc, k, npub>>

\* As TakenOver, looking only at the slots after the current one.
TakenOver_Later(id) == {s \in Slots : s > k /\ id # NoId /\ Open(s) /\ clients[s].id = id}

\* Other slots that hold the id being connected: their sessions are taken over.
TakenOver(id) == {s \in Slots \ {k} : id # NoId /\ Open(s) /\ clients[s].id = id}

handle_connect(id, keepalive) ==
    /\ Handling /\ ~clients[k].connected /\ HasRoom(k)
    /\ clients' = [s \in Slots |->
         CASE s \in TakenOver(id) -> Zeroed
           [] s = k -> queue([clients[s] EXCEPT !.id = id, !.keepalive = keepalive,
                                                !.connected = TRUE], Reply("connack"))
           [] OTHER -> clients[s]]
    /\ UNCHANGED <<polled, pc, k, npub>>

Receives(s, t) == Open(s) /\ clients[s].connected /\ has_match(clients[s], t)

\* As publish, queueing a copy for every filter that matches.
publish_PerFilter(t, qos) ==
    /\ Handling /\ clients[k].connected
    /\ \A s \in Slots : HasRoom(s)
    /\ npub < MaxPubs
    /\ clients' = [s \in Slots |->
         IF t \in Topics /\ Receives(s, t)
         THEN FoldLeft(LAMBDA c, f : IF <<f, t>> \in Matches THEN queue(c, Publication(npub + 1)) ELSE c,
                       clients[s], clients[s].subs)
         ELSE clients[s]]
    /\ npub' = IF t \in Topics THEN npub + 1 ELSE npub
    /\ UNCHANGED <<polled, pc, k>>

\* Every connected client with a matching filter gets it, once; the publisher
\* of a QoS 1 publication gets its PUBACK first.
publish(t, qos) ==
    /\ Handling /\ clients[k].connected
    /\ \A s \in Slots : HasRoom(s)
    /\ npub < MaxPubs
    /\ LET acked == IF qos = 1 THEN [clients EXCEPT ![k] = queue(@, Reply("puback"))] ELSE clients
       IN clients' = [s \in Slots |->
            IF t \in Topics /\ Receives(s, t) THEN queue(acked[s], Publication(npub + 1)) ELSE acked[s]]
    /\ npub' = IF t \in Topics THEN npub + 1 ELSE npub
    /\ UNCHANGED <<polled, pc, k>>

handle_subscribe(fs) ==
    /\ Handling /\ clients[k].connected /\ HasRoom(k)
    /\ clients' = [clients EXCEPT ![k] = queue(each_filter(@, TRUE, fs), Reply("suback"))]
    /\ UNCHANGED <<polled, pc, k, npub>>

handle_unsubscribe(fs) ==
    /\ Handling /\ clients[k].connected /\ HasRoom(k)
    /\ clients' = [clients EXCEPT ![k] = queue(each_filter(@, FALSE, fs), Reply("unsuback"))]
    /\ UNCHANGED <<polled, pc, k, npub>>

HandlePing ==
    /\ Handling /\ clients[k].connected /\ HasRoom(k)
    /\ clients' = [clients EXCEPT ![k] = queue(@, Reply("pingresp"))]
    /\ UNCHANGED <<polled, pc, k, npub>>

-----------------------------------------------------------------------------
(* The closing pass of a round *)

\* As Limit, leaving sockets that never CONNECT alone.
Limit_Connected(c) ==
    IF ~c.connected \/ c.keepalive = 0 THEN 2 ^ 30 ELSE (c.keepalive * 3) \div 2

\* Silence of at most this many seconds is accepted; keepalive 0 asks for 2^30.
Limit(c) ==
    IF ~c.connected THEN ConnectWait
    ELSE IF c.keepalive = 0 THEN 2 ^ 30 ELSE (c.keepalive * 3) \div 2

Expire(c) == IF c.fd # Closed /\ c.age > Limit(c) THEN Zeroed ELSE c

ClosingPass ==
    /\ pc = "tail"
    /\ IF Open(k)
       THEN \E c \in IF clients[k].out # << >> THEN flush(clients[k])
                     ELSE {clients[k]} :
              clients' = [clients EXCEPT ![k] = Expire(c)]
       ELSE UNCHANGED clients
    /\ Advance("tail")
    /\ UNCHANGED <<polled, npub>>

-----------------------------------------------------------------------------
Packet ==
    \/ HandleClose \/ RefuseConnect \/ HandlePing
    \/ \E id \in Ids \cup {NoId}, ka \in Keepalives : handle_connect(id, ka)
    \/ \E t \in Topics \cup {BadTopic}, qos \in {0, 1} : publish(t, qos)
    \/ \E fs \in FilterLists : handle_subscribe(fs) \/ handle_unsubscribe(fs)

Loop == Poll(0) \/ Poll(1) \/ NoAccept \/ Skip \/ Unready \/ EndRead \/ ClosingPass

Next ==
    \/ Loop \/ ReadData \/ ReadEnd \/ Packet
    \/ \E r \in BOOLEAN : Accept(r)

Spec == Init /\ [][Next]_vars

\* The loop runs on whatever the peers do (every socket is non-blocking), and
\* rounds take time, so infinitely many of them see the clock advance.
Fairness == WF_vars(Loop) /\ SF_vars(Poll(1))
LiveSpec == Spec /\ Fairness

-----------------------------------------------------------------------------
(* Properties *)

Packets == [type : {"connack", "refused", "suback", "unsuback", "puback", "pingresp"}, n : {0}]
           \cup [type : {"publish"}, n : 1 .. MaxPubs]

Client == [fd : Slots \cup {Closed}, connected : BOOLEAN, closing : BOOLEAN, age : 0 .. MaxAge,
           keepalive : Keepalives \cup {0}, id : Ids \cup {NoId}, subs : Seq(Filters),
           out : Seq(Packets), reads : BOOLEAN, seen : BOOLEAN]

\* Every variable keeps the type of what it stands for in broker.c.
TypeOK ==
    /\ clients \in [Slots -> Client]
    /\ polled \in [Slots -> Slots \cup {Closed}]
    /\ pc \in {"poll", "accept", "serve", "read", "tail"} /\ k \in Slots
    /\ npub \in 0 .. MaxPubs

\* A free slot keeps nothing of the client it had, no two open slots share a
\* descriptor, and a client marked closing (broker.c:119) has its refusal still
\* to send: flush() is what closes it, so an empty queue would keep it forever.
SlotsSound ==
    \A s \in Slots :
      /\ ~Open(s) => clients[s] = Zeroed
      /\ Open(s) => \A r \in Slots \ {s} : clients[r].fd # clients[s].fd
      /\ clients[s].closing => ~clients[s].connected /\ clients[s].out # << >>

\* handle_connect: "same id: the old session is taken over" (broker.c:123).
\* No two open slots ever hold the same client id.
OneSession ==
    \A s, r \in Slots :
      s # r /\ Open(s) /\ Open(r) /\ clients[s].id = clients[r].id => clients[s].id = NoId

\* The three together: the client table after any takeovers, refusals and
\* reuse of slots and descriptors.
TableSound == TypeOK /\ SlotsSound /\ OneSession

\* main: "closed (and maybe reused) while handling another client"
\* (broker.c:263).  Comparing descriptor numbers is enough although the kernel
\* reuses them: a slot that gets its turn holds the connection that was polled.
ServesPolled == Serves => clients[k].seen

\* A client has at most MAX_SUBS subscriptions ("32 subscriptions each").
SubsBounded == \A s \in Slots : Len(clients[s].subs) <= MaxSubs

\* The numbers of the publications in a queue, in its order.
Numbers(out) ==
    LET upto[n \in 0 .. Len(out)] ==
          IF n = 0 THEN << >>
          ELSE IF out[n].type = "publish" THEN Append(upto[n - 1], out[n].n) ELSE upto[n - 1]
    IN upto[Len(out)]

\* publish: the session of a client id, whichever slot holds it.
Session(i) ==
    LET at == {s \in Slots : Open(s) /\ clients[s].connected /\ clients[s].id = i}
    IN IF at = {} THEN [up |-> FALSE, subs |-> {}, inbox |-> << >>]
       ELSE LET c == clients[Min(at)]
            IN [up |-> TRUE, subs |-> Range(c.subs), inbox |-> Numbers(c.out)]

Bus == INSTANCE MqttBus WITH session <- [i \in Ids |-> Session(i)]

\* The broker implements the bus: through takeovers, slot reuse, partial sends
\* and lost connections, a publication enters the queue of every session with a
\* matching filter once and in order, and leaves it only from the head.
ImplementsBus == Bus!Spec

\* Keepalive (broker.c:272): a client that stays is one that is heard from
\* again and again, CONNECTed or not, unless it asked for no keepalive.
StaysOnlyIfHeard ==
    \A s \in Slots :
      <>[](Open(s) /\ (clients[s].connected => clients[s].keepalive # 0)) =>
        []<>(Open(s) /\ clients[s].age = 0)

Queued(s, n) == \E j \in DOMAIN clients[s].out : clients[s].out[j] = Publication(n)

\* "otherwise one slow subscriber would stall everyone" (LEARNING.md): what is
\* queued for a peer that reads leaves the queue although others never read.
Drains ==
    \A s \in Slots, n \in 1 .. MaxPubs : (Queued(s, n) /\ clients[s].reads) ~> ~Queued(s, n)
=============================================================================

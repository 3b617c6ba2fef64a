----------------------------- MODULE EpollServer -----------------------------
(* server_epoll.c: one thread, one epoll instance, connections and SLEEP    *)
(* timers in two tables indexed by descriptor.  epoll_wait() hands over a   *)
(* batch of events that are handled one after another, while descriptors    *)
(* are closed and their numbers given out again.  Lines are represented by  *)
(* what protocol_handle_line decides about them, replies by the connection  *)
(* and the line they answer, in Parts parts so that send() can stop        *)
(* halfway.  The connection's generation also stands for its peer.          *)
EXTENDS Naturals, Sequences, FiniteSets, FiniteSetsExt, SequencesExt

CONSTANTS
    MaxFds,       \* max_fds: descriptors for connections and timers
    MaxConns,     \* bound: connections accepted, so generations
    MaxLines,     \* bound: lines one connection sends
    MaxBatch,     \* bound: events of one epoll_wait(), 64 in the code
    Parts         \* parts send() may split a reply into

ASSUME EpollAssumption ==
    /\ MaxFds \in Nat \ {0} /\ MaxConns \in Nat \ {0} /\ MaxLines \in Nat
    /\ MaxBatch \in Nat \ {0} /\ Parts \in Nat \ {0}

Fds == 1 .. MaxFds
Gens == 1 .. MaxConns
Listener == 0

\* ECHO, REV, UPPER or an unknown command; SLEEP; SLEEP 0 or less; QUIT.
Kinds == {"say", "sleep", "nap", "quit"}

VARIABLES
    conns,     \* conn_t by descriptor; gen = 0 stands for in_use = 0
    timers,    \* timer_entry_t by descriptor; gen = 0 stands for in_use = 0
    asked,     \* lines handled so far, by generation
    got,       \* parts of replies the kernel took, by generation
    batch,     \* events still to handle, the current one first
    at,        \* where the handling of the current event is
    next_gen

server == <<conns, timers, asked, got, batch, at, next_gen>>

NoConn  == [gen |-> 0, lb |-> << >>, out |-> << >>, want |-> FALSE, close_after_flush |-> FALSE]
NoTimer == [gen |-> 0, fd |-> 0, line |-> 0]

\* The reply to a connection's n-th line; 0 is the READY banner.
Reply(g, n) == [p \in 1 .. Parts |-> [gen |-> g, line |-> n, part |-> p]]

InUse(f) == conns[f].gen # 0
FreeFds == {f \in Fds : ~InUse(f) /\ timers[f].gen = 0}

\* Who an event on descriptor f concerns now.
Owner(f) ==
    IF f = Listener THEN <<"listener", 0, 0>>
    ELSE IF InUse(f) THEN <<"conn", conns[f].gen, 0>>
    ELSE IF timers[f].gen # 0 THEN <<"timer", timers[f].gen, timers[f].line>>
    ELSE <<"nobody", 0, 0>>

EpollInit ==
    /\ conns = [f \in Fds |-> NoConn]
    /\ timers = [f \in Fds |-> NoTimer]
    /\ asked = [g \in Gens |-> << >>]
    /\ got = [g \in Gens |-> << >>]
    /\ batch = << >> /\ at = "wait"
    /\ next_gen = 1

-----------------------------------------------------------------------------
(* Output: what a call may make of connection c, and what the kernel took *)

Suffix(s, n) == SubSeq(s, n + 1, Len(s))
Prefix(s, n) == SubSeq(s, 1, n)

\* A hard error closes, EAGAIN keeps the rest and asks for EPOLLOUT, the last
\* byte closes a connection that said QUIT.  At least `least' parts go out.
conn_try_flush(c, least) ==
    {[c |-> NoConn, took |-> Prefix(c.out, n)] : n \in 0 .. Len(c.out) - 1}
    \cup {[c |-> [c EXCEPT !.out = Suffix(@, n), !.want = TRUE], took |-> Prefix(c.out, n)] :
            n \in least .. Len(c.out) - 1}
    \cup {[c |-> IF c.close_after_flush THEN NoConn ELSE [c EXCEPT !.out = << >>, !.want = FALSE],
           took |-> c.out]}

\* With nothing queued send() is tried at once and only the rest is queued;
\* behind queued output the reply waits for EPOLLOUT.
conn_send(c, data) ==
    IF c.out # << >> THEN {[c |-> [c EXCEPT !.out = @ \o data], took |-> << >>]}
    ELSE {[c |-> c, took |-> data], [c |-> NoConn, took |-> << >>]}
         \cup UNION {{[r EXCEPT !.took = Prefix(data, n) \o @] :
                        r \in conn_try_flush([c EXCEPT !.out = Suffix(data, n)], 0)} :
                     n \in 0 .. Len(data) - 1}

\* Connection f becomes r.c and its peer gets r.took.
Apply(f, r) ==
    /\ conns' = [conns EXCEPT ![f] = r.c]
    /\ got' = [got EXCEPT ![conns[f].gen] = @ \o r.took]

-----------------------------------------------------------------------------
(* The loop *)

\* Everything epoll_wait() may report: a connection is readable, writable when
\* that was asked for, or hung up; a timer has expired.
Ready ==
    {[fd |-> Listener, owner |-> Owner(Listener), ev |-> {"in"}]}
    \cup (UNION {{[fd |-> f, owner |-> Owner(f), ev |-> e] :
                    e \in {{"in"}, {"hup"}} \cup (IF conns[f].want THEN {{"out"}, {"in", "out"}} ELSE {})} :
                 f \in {h \in Fds : InUse(h)}})
    \cup {[fd |-> f, owner |-> Owner(f), ev |-> {"in"}] : f \in {h \in Fds : timers[h].gen # 0}}

EpollWait ==
    /\ at = "wait"
    /\ \E n \in 1 .. MaxBatch : \E b \in [1 .. n -> Ready] :
         /\ \A j, m \in 1 .. n : j # m => b[j].fd # b[m].fd
         /\ batch' = b
    /\ at' = "event"
    /\ UNCHANGED <<conns, timers, asked, got, next_gen>>

Event == batch[1]

EventDone ==
    /\ batch' = Tail(batch)
    /\ at' = IF Len(batch) = 1 THEN "wait" ELSE "event"

\* A connection gets the lowest free descriptor, the next generation, READY.
Accept ==
    /\ at = "event" /\ Event.fd = Listener
    /\ FreeFds # {} /\ next_gen \in Gens
    /\ LET f == Min(FreeFds)
       IN \E r \in conn_send([NoConn EXCEPT !.gen = next_gen], Reply(next_gen, 0)) :
            /\ conns' = [conns EXCEPT ![f] = r.c]
            /\ got' = [got EXCEPT ![next_gen] = r.took]
    /\ next_gen' = next_gen + 1
    /\ EventDone
    /\ UNCHANGED <<timers, asked>>

\* accept() fails, or gives a descriptor beyond the tables.
AcceptFails ==
    /\ at = "event" /\ Event.fd = Listener
    /\ EventDone
    /\ UNCHANGED <<conns, timers, asked, got, next_gen>>

OnConn == at = "event" /\ Event.fd # Listener /\ InUse(Event.fd)

HangUp ==
    /\ OnConn /\ "hup" \in Event.ev
    /\ conns' = [conns EXCEPT ![Event.fd] = NoConn]
    /\ EventDone
    /\ UNCHANGED <<timers, asked, got, next_gen>>

\* recv() brings complete lines, or part of one.
Read ==
    /\ OnConn /\ "in" \in Event.ev
    /\ \E n \in 0 .. MaxLines : \E ls \in [1 .. n -> Kinds] :
         /\ Len(asked[conns[Event.fd].gen]) + Len(conns[Event.fd].lb) + n <= MaxLines
         /\ conns' = [conns EXCEPT ![Event.fd].lb = @ \o ls]
    /\ at' = "lines"
    /\ UNCHANGED <<timers, asked, got, batch, next_gen>>

\* recv() answers 0 or an error.
ReadEnd ==
    /\ OnConn /\ "in" \in Event.ev
    /\ conns' = [conns EXCEPT ![Event.fd] = NoConn]
    /\ EventDone
    /\ UNCHANGED <<timers, asked, got, next_gen>>

\* Nothing to read: only the EPOLLOUT half of the event is left.
WriteOnly ==
    /\ OnConn /\ "in" \notin Event.ev /\ "hup" \notin Event.ev
    /\ at' = "out"
    /\ UNCHANGED <<conns, timers, asked, got, batch, next_gen>>

-----------------------------------------------------------------------------
(* handle_readable's loop over the lines *)

Gen == conns[Event.fd].gen
Taken == [conns[Event.fd] EXCEPT !.lb = Tail(@)]
Line(kind) ==
    /\ at = "lines" /\ InUse(Event.fd) /\ conns[Event.fd].lb # << >>
    /\ conns[Event.fd].lb[1] = kind
    /\ asked' = [asked EXCEPT ![Gen] = Append(@, kind)]

\* The connection is gone after a hard error: the loop returns.
AfterLine == at' = IF conns'[Event.fd].gen = 0 THEN "out" ELSE "lines"

Say ==
    /\ Line("say")
    /\ \E r \in conn_send(Taken, Reply(Gen, Len(asked[Gen]) + 1)) : Apply(Event.fd, r)
    /\ AfterLine
    /\ UNCHANGED <<timers, batch, next_gen>>

\* SLEEP 0: no delay and no reply.
Nap ==
    /\ Line("nap")
    /\ conns' = [conns EXCEPT ![Event.fd] = Taken]
    /\ UNCHANGED <<timers, got, batch, at, next_gen>>

\* start_timer: the timer remembers descriptor and generation.  Without a
\* descriptor for it the command is dropped.
Sleep ==
    /\ Line("sleep")
    /\ conns' = [conns EXCEPT ![Event.fd] = Taken]
    /\ timers' = IF FreeFds = {} THEN timers
                 ELSE [timers EXCEPT ![Min(FreeFds)] =
                         [gen |-> Gen, fd |-> Event.fd, line |-> Len(asked[Gen]) + 1]]
    /\ UNCHANGED <<got, batch, at, next_gen>>

\* QUIT: BYE, then close at once or when the output has gone out.
Quit ==
    /\ Line("quit")
    /\ \E r \in conn_send(Taken, Reply(Gen, Len(asked[Gen]) + 1)) :
         Apply(Event.fd, [r EXCEPT !.c = IF r.c.out = << >> THEN NoConn
                                         ELSE [r.c EXCEPT !.close_after_flush = TRUE]])
    /\ at' = "out"
    /\ UNCHANGED <<timers, batch, next_gen>>

NoMoreLines ==
    /\ at = "lines" /\ conns[Event.fd].lb = << >>
    /\ at' = "out"
    /\ UNCHANGED <<conns, timers, asked, got, batch, next_gen>>

\* The EPOLLOUT half of the event.  A socket reported writable takes something.
Write ==
    /\ at = "out"
    /\ IF InUse(Event.fd) /\ "out" \in Event.ev
       THEN \E r \in conn_try_flush(conns[Event.fd], IF Owner(Event.fd) = Event.owner THEN 1 ELSE 0) :
              Apply(Event.fd, r)
       ELSE UNCHANGED <<conns, got>>
    /\ EventDone
    /\ UNCHANGED <<timers, asked, next_gen>>

-----------------------------------------------------------------------------
(* Timers *)

OnTimer == at = "event" /\ Event.fd # Listener /\ ~InUse(Event.fd) /\ timers[Event.fd].gen # 0

\* As StillThere, trusting the descriptor alone.
StillThere_ByFd(t) == InUse(t.fd)

StillThere(t) == InUse(t.fd) /\ conns[t.fd].gen = t.gen

\* OK goes to the connection that asked, if it is still there.
handle_timer ==
    /\ OnTimer
    /\ LET t == timers[Event.fd]
       IN /\ timers' = [timers EXCEPT ![Event.fd] = NoTimer]
          /\ IF StillThere(t)
             THEN \E r \in conn_send(conns[t.fd], Reply(t.gen, t.line)) : Apply(t.fd, r)
             ELSE UNCHANGED <<conns, got>>
    /\ EventDone
    /\ UNCHANGED <<asked, next_gen>>

\* Neither table has the descriptor any more.
Ignore ==
    /\ at = "event" /\ Event.fd # Listener /\ ~InUse(Event.fd) /\ timers[Event.fd].gen = 0
    /\ EventDone
    /\ UNCHANGED <<conns, timers, asked, got, next_gen>>

-----------------------------------------------------------------------------
Handle == \/ Accept \/ AcceptFails \/ HangUp \/ Read \/ ReadEnd \/ WriteOnly
          \/ Say \/ Nap \/ Sleep \/ Quit \/ NoMoreLines \/ Write
          \/ handle_timer \/ Ignore

EpollNext == EpollWait \/ Handle

EpollSpec == EpollInit /\ [][EpollNext]_server

-----------------------------------------------------------------------------
(* Properties *)

Part == [gen : Gens, line : 0 .. MaxLines, part : 1 .. Parts]
Conn == [gen : Gens \cup {0}, lb : Seq(Kinds), out : Seq(Part), want : BOOLEAN,
         close_after_flush : BOOLEAN]
Timer == [gen : Gens \cup {0}, fd : Fds \cup {0}, line : 0 .. MaxLines]

\* Every variable keeps its type; no access to a table is beyond max_fds.
EpollTypes ==
    /\ conns \in [Fds -> Conn] /\ timers \in [Fds -> Timer]
    /\ asked \in [Gens -> Seq(Kinds)] /\ got \in [Gens -> Seq(Part)]
    /\ at \in {"wait", "event", "lines", "out"} /\ next_gen \in 1 .. MaxConns + 1

\* A descriptor is a connection or a timer, a generation is on one descriptor,
\* and whoever has output queued has asked for EPOLLOUT: nothing else would
\* ever send it.  A connection that said QUIT still has output: its last byte
\* is what closes it.
TablesSound ==
    \A f \in Fds :
      /\ InUse(f) => /\ timers[f].gen = 0
                     /\ \A h \in Fds \ {f} : conns[h].gen # conns[f].gen
                     /\ conns[f].out # << >> => conns[f].want
      /\ conns[f].close_after_flush => conns[f].out # << >>

\* What the peer of generation g was sent, and what is queued for it.
Stream(g) ==
    LET f == {h \in Fds : conns[h].gen = g}
    IN got[g] \o (IF f = {} THEN << >> ELSE conns[Min(f)].out)

\* A stream of whole replies to lines of generation g, each at most once; the
\* last one may be cut short.
WholeReplies(s, g) ==
    \A j \in DOMAIN s :
      /\ s[j].gen = g
      /\ IF s[j].part = 1 THEN j = 1 \/ s[j - 1].part = Parts
         ELSE j > 1 /\ s[j - 1].part = s[j].part - 1 /\ s[j - 1].line = s[j].line
      /\ \A m \in 1 .. j - 1 : s[m] # s[j]

\* "must not fire "OK\n" at whatever unrelated connection" (server_epoll.c:17):
\* through descriptor reuse, partial sends and late timers, a connection's
\* stream is made of whole replies to its own lines, each at most once.
OwnWholeReplies == \A g \in Gens : WholeReplies(Stream(g), g)

\* The server's tables and what its peers see of them.
EpollSound == EpollTypes /\ TablesSound /\ OwnWholeReplies

\* "a design that assumes "this fd" means "this connection" will eventually
\* answer the wrong client" (LEARNING.md): an event is handled for the
\* connection or timer it was reported for, or dropped.
EventsMatch ==
    at = "event" => Owner(Event.fd) \in {Event.owner, <<"nobody", 0, 0>>}
=============================================================================

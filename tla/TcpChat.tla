-------------------------------- MODULE TcpChat --------------------------------
(***************************************************************************)
(* The chat server of 2026-08-12-go-tcp-chat: one handler goroutine and one *)
(* writer goroutine per connection, and the Hub they share behind a mutex.  *)
(*                                                                          *)
(* A Hub method takes the mutex, updates the maps, offers a line to one     *)
(* client after the other and releases the mutex; each offer is a step, so  *)
(* every other goroutine may run between two of them.  Hub lines are        *)
(* numbered in the order in which their methods took the mutex.  A channel  *)
(* is first in first out, so of its contents only the length is kept.       *)
(***************************************************************************)
EXTENDS Naturals

CONSTANTS
    Conns,            \* connections, each used once
    Nicks,            \* valid nicknames
    Nobody,           \* no client: a free mutex, an unused nickname
    NoNick,           \* Nick of a client that never joined
    SendBuffer,       \* capacity of Client.Send
    MaxNickAttempts,  \* maxNickAttempts
    MaxLines          \* bound on the Hub lines after which clients only leave

ASSUME ChatAssumption ==
    /\ Nobody \notin Conns /\ NoNick \notin Nicks
    /\ SendBuffer \in Nat \ {0}
    /\ MaxNickAttempts \in Nat \ {0}
    /\ MaxLines \in Nat

VARIABLES
    mu,        \* Hub.mu: its holder
    hubClients,\* Hub.clients
    byNick,    \* Hub.byNick
    nick,      \* Client.Nick
    send,      \* Client.Send: number of lines in the channel
    closed,    \* Client.Send is closed
    panicked,  \* some goroutine sent on a closed channel
    pend,      \* what a Hub method still has to offer: <<client, line>>
    hpc,       \* where handleConn is
    tries,     \* failed attempts in negotiateNick
    wpc,       \* where writeLoop is
    offered,   \* history: the last Hub line offered to the client
    ordered,   \* history: Hub lines were offered in their order so far
    peer,      \* whether the other end is still there
    dying,     \* connections whose handler panics: its deferred calls still run
    lines      \* number of Hub lines so far

hub == <<mu, hubClients, byNick, nick, pend, lines>>
chan == <<send, closed, panicked>>
history == <<offered, ordered>>
hubVars == <<mu, hubClients, byNick, nick, send, closed, panicked, pend, hpc, tries,
          wpc, offered, ordered, peer, dying, lines>>

HubInit ==
    /\ mu = Nobody /\ hubClients = {} /\ lines = 0
    /\ byNick = [n \in Nicks |-> Nobody]
    /\ nick = [c \in Conns |-> NoNick]
    /\ send = [c \in Conns |-> 0]
    /\ closed = [c \in Conns |-> FALSE] /\ panicked = FALSE
    /\ pend = [c \in Conns |-> {}]
    /\ hpc = [c \in Conns |-> "new"]
    /\ tries = [c \in Conns |-> 0]
    /\ wpc = [c \in Conns |-> "new"]
    /\ offered = [c \in Conns |-> 0] /\ ordered = TRUE
    /\ peer = [c \in Conns |-> "open"] /\ dying = {}
-----------------------------------------------------------------------------
(* Channels *)

\* Variant: a plain channel send, which waits for room.
Offer_Blocking(c) ==
    /\ send[c] < SendBuffer
    /\ send' = [send EXCEPT ![c] = @ + 1]
    /\ UNCHANGED <<closed, panicked>>

\* deliverLocked and trySend: select with a default, so the line is dropped
\* when the buffer is full.  Sending on a closed channel panics.
Offer(c) ==
    /\ send' = IF closed[c] \/ send[c] = SendBuffer THEN send
               ELSE [send EXCEPT ![c] = @ + 1]
    /\ panicked' = (panicked \/ closed[c])
    /\ UNCHANGED closed

\* A Hub method of handler c goes through its deliveries at label loop, then
\* continues at label next.  With nobody to tell it releases the mutex at once.
Tell(c, todo, loop, next) ==
    /\ lines' = lines + 1
    /\ pend' = [pend EXCEPT ![c] = todo]
    /\ mu' = IF todo = {} THEN Nobody ELSE c
    /\ hpc' = [hpc EXCEPT ![c] = IF todo = {} THEN next ELSE loop]

\* One iteration of a delivery loop.  The clients are taken in any order, as
\* range over a map does.
deliverLocked(c) ==
    \E p \in pend[c] :
        LET rest == pend[c] \ {p}
        IN /\ Offer(p[1])
           /\ offered' = [offered EXCEPT ![p[1]] = p[2]]
           /\ ordered' = (ordered /\ offered[p[1]] < p[2])
           /\ pend' = [pend EXCEPT ![c] = rest]
           /\ mu' = IF rest = {} /\ mu = c THEN Nobody ELSE mu
           /\ hpc' = IF rest # {} THEN hpc
                     ELSE [hpc EXCEPT ![c] = IF @ = "tell" THEN "serve" ELSE "close"]
           /\ UNCHANGED <<hubClients, byNick, nick, lines, tries, wpc, peer, dying>>
-----------------------------------------------------------------------------
(* The handler of connection c *)

\* acceptLoop and the start of handleConn.
handleConn(c) ==
    /\ hpc[c] = "new"
    /\ hpc' = [hpc EXCEPT ![c] = "nick"]
    /\ wpc' = [wpc EXCEPT ![c] = "recv"]
    /\ UNCHANGED <<hub, chan, tries, history, peer, dying>>

\* Join refuses an invalid or taken nickname; negotiateNick writes the error,
\* and the next prompt, to the connection itself.
Reject(c) ==
    /\ hpc[c] = "nick"
    /\ mu = Nobody
    /\ tries' = [tries EXCEPT ![c] = @ + 1]
    /\ hpc' = [hpc EXCEPT ![c] = IF tries'[c] < MaxNickAttempts THEN "nick" ELSE "leave"]
    /\ UNCHANGED <<hub, chan, wpc, history, peer, dying>>

\* Variant: negotiateNick does not wait for Join and prompts again meanwhile.
Join_NotAwaited(c, n) ==
    /\ hpc[c] = "nick"
    /\ mu = Nobody
    /\ byNick[n] = Nobody
    /\ nick' = [nick EXCEPT ![c] = n]
    /\ hubClients' = hubClients \cup {c}
    /\ byNick' = [byNick EXCEPT ![n] = c]
    /\ Tell(c, (hubClients \cup {c}) \X {lines + 1}, "nick", "nick")
    /\ UNCHANGED <<chan, tries, wpc, history, peer, dying>>

\* Join: the announcement also goes to c.
Join(c, n) ==
    /\ hpc[c] = "nick"
    /\ mu = Nobody
    /\ byNick[n] = Nobody
    /\ nick' = [nick EXCEPT ![c] = n]
    /\ hubClients' = hubClients \cup {c}
    /\ byNick' = [byNick EXCEPT ![n] = c]
    /\ Tell(c, (hubClients \cup {c}) \X {lines + 1}, "tell", "serve")
    /\ UNCHANGED <<chan, tries, wpc, history, peer, dying>>

\* Variant: Rename does not look whether the nickname is in use.
Rename_Unchecked(c, n) ==
    /\ hpc[c] = "serve" /\ lines < MaxLines
    /\ mu = Nobody
    /\ n # nick[c]
    /\ byNick' = [byNick EXCEPT ![nick[c]] = Nobody, ![n] = c]
    /\ nick' = [nick EXCEPT ![c] = n]
    /\ Tell(c, hubClients \X {lines + 1}, "tell", "serve")
    /\ UNCHANGED <<hubClients, chan, tries, wpc, history, peer, dying>>

\* Rename that succeeds and changes something.
Rename(c, n) ==
    /\ hpc[c] = "serve" /\ lines < MaxLines
    /\ mu = Nobody
    /\ n # nick[c] /\ byNick[n] = Nobody
    /\ byNick' = [byNick EXCEPT ![nick[c]] = Nobody, ![n] = c]
    /\ nick' = [nick EXCEPT ![c] = n]
    /\ Tell(c, hubClients \X {lines + 1}, "tell", "serve")
    /\ UNCHANGED <<hubClients, chan, tries, wpc, history, peer, dying>>

\* Variant: Broadcast does not take the mutex.
Broadcast_Unlocked(c) ==
    /\ hpc[c] = "serve" /\ lines < MaxLines
    /\ hubClients # {c}
    /\ lines' = lines + 1
    /\ pend' = [pend EXCEPT ![c] = (hubClients \ {c}) \X {lines + 1}]
    /\ hpc' = [hpc EXCEPT ![c] = "tell"]
    /\ UNCHANGED <<mu, hubClients, byNick, nick, chan, tries, wpc, history, peer, dying>>

Broadcast(c) ==
    /\ hpc[c] = "serve" /\ lines < MaxLines
    /\ mu = Nobody
    /\ Tell(c, (hubClients \ {c}) \X {lines + 1}, "tell", "serve")
    /\ UNCHANGED <<hubClients, byNick, nick, chan, tries, wpc, history, peer, dying>>

\* Whisper that finds its addressee; the sender gets an echo.
Whisper(c, n) ==
    /\ hpc[c] = "serve" /\ lines < MaxLines
    /\ mu = Nobody
    /\ n # nick[c] /\ byNick[n] # Nobody
    /\ Tell(c, {byNick[n], c} \X {lines + 1}, "tell", "serve")
    /\ UNCHANGED <<hubClients, byNick, nick, chan, tries, wpc, history, peer, dying>>

\* The index [2] in the case "/msg" of dispatch is out of range for a line with
\* three fields but fewer than two blanks (tabs): the handler unwinds.
MsgPanics(c) ==
    /\ hpc[c] = "serve" /\ lines < MaxLines
    /\ hpc' = [hpc EXCEPT ![c] = "leave"]
    /\ dying' = dying \cup {c}
    /\ UNCHANGED <<hub, chan, tries, wpc, history, peer>>

\* Every other command ends in trySend: /list, a usage error, an unknown
\* command, a refused /nick or /msg.
trySend(c) ==
    /\ hpc[c] = "serve"
    /\ Offer(c)
    /\ UNCHANGED <<hub, hpc, tries, wpc, history, peer, dying>>

\* Variant: the deferred function closes the channel before it calls Leave.
EndOfInput_ClosesFirst(c) ==
    /\ hpc[c] \in {"nick", "serve"}
    /\ hpc' = [hpc EXCEPT ![c] = "leave"]
    /\ closed' = [closed EXCEPT ![c] = TRUE]
    /\ UNCHANGED <<hub, send, panicked, tries, wpc, history, peer, dying>>

\* /quit, or Scan returning false.
EndOfInput(c) ==
    /\ hpc[c] = "serve" \/ (hpc[c] = "nick" /\ peer[c] = "gone")
    /\ hpc' = [hpc EXCEPT ![c] = "leave"]
    /\ UNCHANGED <<hub, chan, tries, wpc, history, peer, dying>>

\* Hub.Leave of the deferred function, a no-op for a client that never joined.
Leave(c) ==
    /\ hpc[c] = "leave"
    /\ mu = Nobody
    /\ IF c \in hubClients
       THEN /\ hubClients' = hubClients \ {c}
            /\ byNick' = [byNick EXCEPT ![nick[c]] = Nobody]
            /\ Tell(c, (hubClients \ {c}) \X {lines + 1}, "bye", "close")
       ELSE /\ hpc' = [hpc EXCEPT ![c] = "close"]
            /\ UNCHANGED <<mu, hubClients, byNick, pend, lines>>
    /\ UNCHANGED <<nick, chan, tries, wpc, history, peer, dying>>

\* close(client.Send)
CloseSend(c) ==
    /\ hpc[c] = "close"
    /\ closed' = [closed EXCEPT ![c] = TRUE]
    /\ hpc' = [hpc EXCEPT ![c] = "wait"]
    /\ UNCHANGED <<hub, send, panicked, tries, wpc, history, peer, dying>>

\* <-writerDone, then the deferred conn.Close; a handler that panics takes the
\* process with it then.
CloseConn(c) ==
    /\ hpc[c] = "wait" /\ wpc[c] = "done"
    /\ hpc' = [hpc EXCEPT ![c] = "done"]
    /\ UNCHANGED <<hub, chan, tries, wpc, history, peer, dying>>
-----------------------------------------------------------------------------
(* The writer of connection c, and the other end of the connection *)

WriterTakes(c) ==
    /\ wpc[c] = "recv" /\ send[c] > 0
    /\ send' = [send EXCEPT ![c] = @ - 1]
    /\ wpc' = [wpc EXCEPT ![c] = "write"]
    /\ UNCHANGED <<hub, closed, panicked, hpc, tries, history, peer, dying>>

\* Fprintln returns; it may block for as long as the peer does not read.
WriterWrites(c) ==
    /\ wpc[c] = "write"
    /\ wpc' = [wpc EXCEPT ![c] = "recv"]
    /\ UNCHANGED <<hub, chan, hpc, tries, history, peer, dying>>

\* Fprintln fails, or range ends on the drained closed channel.
WriterEnds(c) ==
    /\ \/ wpc[c] = "write" /\ peer[c] = "gone"
       \/ wpc[c] = "recv" /\ closed[c] /\ send[c] = 0
    /\ wpc' = [wpc EXCEPT ![c] = "done"]
    /\ UNCHANGED <<hub, chan, hpc, tries, history, peer, dying>>

PeerGoes(c) ==
    /\ hpc[c] # "new" /\ peer[c] = "open"
    /\ peer' = [peer EXCEPT ![c] = "gone"]
    /\ UNCHANGED <<hub, chan, hpc, tries, wpc, history, dying>>
-----------------------------------------------------------------------------
\* No handler has come to the end of a panic, which nothing recovers.
Running == \A c \in dying : hpc[c] # "done"

HubNext ==
  /\ Running
  /\ \E c \in Conns :
        \/ handleConn(c) \/ Reject(c) \/ Broadcast(c) \/ MsgPanics(c) \/ trySend(c)
        \/ \E n \in Nicks : Join(c, n) \/ Rename(c, n) \/ Whisper(c, n)
        \/ deliverLocked(c)
        \/ EndOfInput(c) \/ Leave(c) \/ CloseSend(c) \/ CloseConn(c)
        \/ WriterTakes(c) \/ WriterWrites(c) \/ WriterEnds(c)
        \/ PeerGoes(c)

HubSpec == HubInit /\ [][HubNext]_hubVars

\* The Go scheduler runs every goroutine that can run, and sync.Mutex does not
\* starve a waiter.  A write need not return while the peer is there, and a
\* peer need not say anything: neither is assumed.
HubFairness ==
    \A c \in Conns :
        /\ WF_hubVars(Running /\ deliverLocked(c))
        /\ SF_hubVars(Running /\ peer[c] = "gone" /\ EndOfInput(c))
        /\ SF_hubVars(Running /\ Leave(c))
        /\ WF_hubVars(Running /\ CloseSend(c)) /\ WF_hubVars(Running /\ CloseConn(c))
        /\ WF_hubVars(Running /\ WriterTakes(c)) /\ WF_hubVars(Running /\ WriterEnds(c))

HubLiveSpec == HubSpec /\ HubFairness
-----------------------------------------------------------------------------
HandlerPCs == {"new", "nick", "serve", "tell", "leave", "close", "bye", "wait", "done"}

\* The shape of the Hub, of the clients and of their goroutines.
HubTypeOK ==
    /\ mu \in Conns \cup {Nobody}
    /\ hubClients \subseteq Conns
    /\ byNick \in [Nicks -> Conns \cup {Nobody}]
    /\ nick \in [Conns -> Nicks \cup {NoNick}]
    /\ send \in [Conns -> 0 .. SendBuffer]
    /\ closed \in [Conns -> BOOLEAN] /\ panicked \in BOOLEAN
    /\ pend \in [Conns -> SUBSET (Conns \X Nat)]
    /\ hpc \in [Conns -> HandlerPCs]
    /\ tries \in [Conns -> 0 .. MaxNickAttempts]
    /\ wpc \in [Conns -> {"new", "recv", "write", "done"}]
    /\ offered \in [Conns -> Nat] /\ ordered \in BOOLEAN
    /\ peer \in [Conns -> {"open", "gone"}] /\ dying \subseteq Conns
    /\ lines \in Nat

\* clients and byNick agree: every member is found under its own nickname and
\* under no other, so nicknames are unique and a name that is left is free.
NicksAgree ==
    /\ \A c \in hubClients : nick[c] \in Nicks /\ byNick[nick[c]] = c
    /\ \A n \in Nicks : byNick[n] # Nobody => byNick[n] \in hubClients /\ nick[byNick[n]] = n

\* No goroutine sends on a channel that its owner has closed: a client leaves
\* the Hub before close(client.Send), and no delivery loop still has it.
NoSendOnClosed == ~panicked

\* While negotiateNick writes to the connection itself, writeLoop has nothing
\* to write and will get nothing, so the two never write at the same time.
SingleWriter ==
    \A c \in Conns : hpc[c] = "nick" =>
        /\ wpc[c] = "recv" /\ send[c] = 0
        /\ \A d \in Conns : \A p \in pend[d] : p[1] # c

\* Every client is offered the Hub's lines in the order in which the methods
\* took the mutex, so any two clients see their common lines in one order.
InHubOrder == ordered

\* A connection whose peer is gone is cleaned up: its handler and its writer
\* end and its nickname is free, whatever the other peers do or do not read,
\* unless a panic ends the process.
CleanupEnds ==
    \A c \in Conns : (peer[c] = "gone") ~> (hpc[c] = "done" /\ c \notin hubClients) \/ ~Running
-----------------------------------------------------------------------------
(* The inductive invariant behind the safety properties *)

\* Only the holder of the mutex has deliveries left, all of the line it has
\* just numbered, to members that have not been offered it.
Deliveries ==
    /\ \A c \in Conns : pend[c] # {} => mu = c /\ hpc[c] \in {"tell", "bye"}
    /\ \A c \in Conns : \A p \in pend[c] :
          p[1] \in hubClients /\ p[2] = lines /\ offered[p[1]] < lines
    /\ \A c \in Conns : offered[c] <= lines
    /\ \A c \in Conns : mu = c => pend[c] # {}

\* Membership follows the handler, and a channel is closed after it has left.
Membership ==
    \A c \in Conns :
        /\ hpc[c] \in {"serve", "tell"} => c \in hubClients
        /\ hpc[c] \in {"new", "nick", "close", "bye", "wait", "done"} => c \notin hubClients
        /\ closed[c] => hpc[c] \in {"wait", "done"}
        /\ hpc[c] \in {"new", "nick"} => send[c] = 0
        /\ hpc[c] = "nick" => wpc[c] = "recv"
================================================================================

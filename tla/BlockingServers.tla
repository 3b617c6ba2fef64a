--------------------------- MODULE BlockingServers ---------------------------
(* server_sequential.c and server_threaded.c: the same accept() loop around *)
(* serve_blocking_connection, which answers one connection's lines one      *)
(* after another over blocking calls.  The sequential server runs it inline,*)
(* the threaded one in a detached thread; Init picks the program.  Lines    *)
(* are represented by what protocol_handle_line decides about them, as in   *)
(* EpollServer, and replies by the line they answer.                        *)
EXTENDS Naturals, Sequences, FiniteSets

CONSTANTS
    Clients,      \* connections that may be made
    MaxLines      \* bound: lines one connection sends

BlockingAssumption == MaxLines \in Nat

Kinds == {"say", "sleep", "nap", "quit"}

VARIABLES
    threaded,  \* which of the two programs runs
    conn,      \* by client: "none", "backlog", "serving", "sleeping", "closed"
    main,      \* "accept", or the client main() is serving inline
    lb,        \* by client: lines buffered and not yet handled
    asked,     \* by client: lines handled so far
    got,       \* by client: numbers of the lines answered; 0 is READY
    gone       \* clients that will neither send nor receive any more

vars == <<threaded, conn, main, lb, asked, got, gone>>

Init ==
    /\ threaded \in BOOLEAN
    /\ conn = [c \in Clients |-> "none"]
    /\ main = "accept"
    /\ lb = [c \in Clients |-> << >>]
    /\ asked = [c \in Clients |-> << >>]
    /\ got = [c \in Clients |-> << >>]
    /\ gone = {}

-----------------------------------------------------------------------------
(* Clients *)

Connect(c) ==
    /\ conn[c] = "none"
    /\ conn' = [conn EXCEPT ![c] = "backlog"]
    /\ UNCHANGED <<threaded, main, lb, asked, got, gone>>

Leave(c) ==
    /\ conn[c] \notin {"none", "closed"} /\ c \notin gone
    /\ gone' = gone \cup {c}
    /\ UNCHANGED <<threaded, conn, main, lb, asked, got>>

-----------------------------------------------------------------------------
(* The server *)

\* send_all: to a client that is gone it gives up quietly.
Answered(c, n) == IF c \in gone THEN got[c] ELSE Append(got[c], n)

\* As Accept, serving the connection inline on either server.
Accept_Inline(c) ==
    /\ main = "accept" /\ conn[c] = "backlog"
    /\ conn' = [conn EXCEPT ![c] = "serving"]
    /\ main' = c
    /\ got' = [got EXCEPT ![c] = Answered(c, 0)]
    /\ UNCHANGED <<threaded, lb, asked, gone>>

\* The connection is served inline or by a new thread; READY comes first.
Accept(c) ==
    /\ main = "accept" /\ conn[c] = "backlog"
    /\ conn' = [conn EXCEPT ![c] = "serving"]
    /\ main' = IF threaded THEN "accept" ELSE c
    /\ got' = [got EXCEPT ![c] = Answered(c, 0)]
    /\ UNCHANGED <<threaded, lb, asked, gone>>

\* pthread_create fails: the connection is closed.
NoThread(c) ==
    /\ threaded /\ main = "accept" /\ conn[c] = "backlog"
    /\ conn' = [conn EXCEPT ![c] = "closed"]
    /\ UNCHANGED <<threaded, main, lb, asked, got, gone>>

\* serve_blocking_connection returns and the descriptor is closed.
Return(c) ==
    /\ conn' = [conn EXCEPT ![c] = "closed"]
    /\ main' = IF main = c THEN "accept" ELSE main

\* No complete line is left: recv() blocks until some arrive.
Receive(c) ==
    /\ conn[c] = "serving" /\ lb[c] = << >> /\ c \notin gone
    /\ \E n \in 1 .. MaxLines - Len(asked[c]) : \E ls \in [1 .. n -> Kinds] :
         lb' = [lb EXCEPT ![c] = ls]
    /\ UNCHANGED <<threaded, conn, main, asked, got, gone>>

\* recv() answers 0 or an error.
ReceiveEnd(c) ==
    /\ conn[c] = "serving" /\ lb[c] = << >> /\ c \in gone
    /\ Return(c)
    /\ UNCHANGED <<threaded, lb, asked, got, gone>>

Line(c, kind) ==
    /\ conn[c] = "serving" /\ lb[c] # << >> /\ lb[c][1] = kind
    /\ lb' = [lb EXCEPT ![c] = Tail(@)]
    /\ asked' = [asked EXCEPT ![c] = Append(@, kind)]

Say(c) ==
    /\ Line(c, "say")
    /\ got' = [got EXCEPT ![c] = Answered(c, Len(asked'[c]))]
    /\ UNCHANGED <<threaded, conn, main, gone>>

\* SLEEP 0: no delay and no reply.
Nap(c) ==
    /\ Line(c, "nap")
    /\ UNCHANGED <<threaded, conn, main, got, gone>>

\* usleep() in the thread that serves the connection.
Sleep(c) ==
    /\ Line(c, "sleep")
    /\ conn' = [conn EXCEPT ![c] = "sleeping"]
    /\ UNCHANGED <<threaded, main, got, gone>>

Wake(c) ==
    /\ conn[c] = "sleeping"
    /\ conn' = [conn EXCEPT ![c] = "serving"]
    /\ got' = [got EXCEPT ![c] = Answered(c, Len(asked[c]))]
    /\ UNCHANGED <<threaded, main, lb, asked, gone>>

Quit(c) ==
    /\ Line(c, "quit")
    /\ got' = [got EXCEPT ![c] = Answered(c, Len(asked'[c]))]
    /\ Return(c)
    /\ UNCHANGED <<threaded, gone>>

Serve(c) == ReceiveEnd(c) \/ Say(c) \/ Nap(c) \/ Sleep(c) \/ Wake(c) \/ Quit(c)

Next == \E c \in Clients :
    Connect(c) \/ Leave(c) \/ Accept(c) \/ NoThread(c) \/ Receive(c) \/ Serve(c)

Spec == Init /\ [][Next]_vars

\* The kernel runs every thread that can go on; accept() takes whoever waits.
LiveSpec == /\ Spec
            /\ \A c \in Clients : WF_vars(Accept(c)) /\ WF_vars(Serve(c))

-----------------------------------------------------------------------------
(* Properties *)

\* The numbers of the lines among ls that call for a reply, READY first.
Due(ls) == <<0>> \o SelectSeq([n \in DOMAIN ls |-> n], LAMBDA n : ls[n] # "nap")

\* serve_blocking_connection "reads and answers lines until QUIT or disconnect"
\* (common.h:55): a client that stays has every line before the current one
\* answered, in order, with BYE last, and no other connection's lines mix in.
AnsweredInTurn ==
    \A c \in Clients \ gone :
      CASE conn[c] = "serving" -> got[c] = Due(asked[c])
        [] conn[c] = "sleeping" -> Append(got[c], Len(asked[c])) = Due(asked[c])
        [] conn[c] = "closed" /\ got[c] # << >> ->
             got[c] = Due(asked[c]) /\ asked[c][Len(asked[c])] = "quit"
        [] OTHER -> got[c] = << >>

\* "nobody else is served until this returns" (server_sequential.c:26).
OneAtATime ==
    ~threaded => Cardinality({c \in Clients : conn[c] \in {"serving", "sleeping"}}) <= 1

\* "one slow client blocks only itself" (LEARNING.md): on the threaded server
\* a connection is taken up although others sleep, stall or never leave.
TakenUp ==
    \A c \in Clients : (threaded /\ conn[c] = "backlog") ~> conn[c] # "backlog"

=============================================================================

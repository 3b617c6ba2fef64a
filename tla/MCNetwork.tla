----------------------------- MODULE MCNetwork -----------------------------
(* The servers and clients on sockets that are small enough to be checked   *)
(* in one run.  They are separate programs: part says which of them a       *)
(* behaviour is of, and the others rest in an initial state.  The blocking  *)
(* servers are an instance, on v1 to v7, which are Null while another part  *)
(* runs.                                                                    *)
EXTENDS TorrentDownload, EpollServer, MqttTopics, MqttFrames

CONSTANT Null

VARIABLES part, v1, v2, v3, v4, v5, v6, v7

shared == <<v1, v2, v3, v4, v5, v6, v7>>
all == <<part, shared, vars, server, match, framing>>

(* The parts at rest *)
BlockingRest ==
    v1 = Null /\ v2 = Null /\ v3 = Null /\ v4 = Null /\ v5 = Null /\ v6 = Null /\ v7 = Null
TorrentRest == Init /\ work = CHOOSE s \in SetToSeqs(Pieces) : TRUE
TopicsRest == filter = <<Slash>> /\ topic = <<Slash>> /\ TopicsInit
FramesRest == sent = << << >> >> /\ bad = FALSE /\ FramesInit

Clients == {"c1", "c2"}
Blocking == INSTANCE BlockingServers WITH
              MaxLines <- 2,
              threaded <- v1, conn <- v2, main <- v3, lb <- v4, asked <- v5, got <- v6, gone <- v7

ASSUME Blocking!BlockingAssumption

NetInit ==
    \/ part = "frames" /\ BlockingRest /\ TorrentRest /\ EpollInit /\ TopicsRest /\ FramesInit
    \/ part = "topics" /\ BlockingRest /\ TorrentRest /\ EpollInit /\ TopicsInit /\ FramesRest
    \/ part = "blocking" /\ Blocking!Init /\ TorrentRest /\ EpollInit /\ TopicsRest /\ FramesRest
    \/ part = "epoll" /\ BlockingRest /\ TorrentRest /\ EpollInit /\ TopicsRest /\ FramesRest
    \/ part = "torrent" /\ BlockingRest /\ Init /\ EpollInit /\ TopicsRest /\ FramesRest

\* A step of a part leaves the variables of the others alone.
OfFrames(A) == part = "frames" /\ A /\ UNCHANGED <<part, shared, vars, server, match>>
OfTopics(A) == part = "topics" /\ A /\ UNCHANGED <<part, shared, vars, server, framing>>
OfBlocking(A) == part = "blocking" /\ A /\ UNCHANGED <<part, vars, server, match, framing>>
OfEpoll(A) == part = "epoll" /\ A /\ UNCHANGED <<part, shared, vars, match, framing>>
OfTorrent(A) == part = "torrent" /\ A /\ UNCHANGED <<part, shared, server, match, framing>>

NetNext ==
    \/ OfFrames(FramesNext)
    \/ OfTopics(TopicsNext)
    \/ OfBlocking(Blocking!Next)
    \/ OfEpoll(EpollNext)
    \/ OfTorrent(Next)

\* Each part's own fairness.
NetSpec ==
    /\ NetInit /\ [][NetNext]_all
    /\ WF_all(OfFrames(Recv \/ Parse))
    /\ \A c \in Clients : WF_all(OfBlocking(Blocking!Accept(c))) /\ WF_all(OfBlocking(Blocking!Serve(c)))
    /\ WF_all(OfTorrent(Collect)) /\ WF_all(OfTorrent(Finish))
    /\ \A w \in Peers : WF_all(OfTorrent(Works(w))) /\ SF_all(OfTorrent(Take(w)))

-----------------------------------------------------------------------------
(* Properties: those of the parts.  PiecesSound, EpollSound, MatchesByLevel  *)
(* and FramesArePackets are the modules' own.                                *)

\* read_client handles every packet that fits and closes for any other, while
\* the connection lasts.
AllHandled == <>[](part = "frames" => Settled)

\* The sequential and the threaded server answer a connection's lines in their
\* order, and server_threads takes up a connection although others never leave.
ServesInTurn ==
    /\ [](part = "blocking" => Blocking!AnsweredInTurn /\ Blocking!OneAtATime)
    /\ \A c \in Clients : (part = "blocking" /\ v1 /\ v2[c] = "backlog")
                            ~> (part = "blocking" => v2[c] # "backlog")

\* Download returns if one peer answers.
TorrentReturns == <>(part = "torrent" => main = "returned")
=============================================================================

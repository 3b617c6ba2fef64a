--------------------------- MODULE TorrentDownload ---------------------------
(* client/download.go: Download puts every piece on the work channel, runs  *)
(* one downloadWorker goroutine per peer, and collects verified pieces from *)
(* the results channel.  Both channels have room for every piece.  What a   *)
(* peer does is its own choice, unless it is one of the Honest ones.        *)
EXTENDS Naturals, Sequences, FiniteSets, SequencesExt

CONSTANTS
    Peers,
    Pieces,
    Honest       \* peers that answer, have every piece and send what they should

N == Cardinality(Pieces)
NoPiece == "no piece"

ASSUME TorrentAssumption ==
    IsFiniteSet(Pieces) /\ Pieces # {} /\ NoPiece \notin Pieces /\ Honest \subseteq Peers

\* What a peer can announce: nothing, a bitfield of zero bits only (or of bits
\* for pieces that do not exist), or some of the pieces.
Bitfields == (SUBSET Pieces) \cup {{NoPiece}}

VARIABLES
    work,      \* the work channel
    closed,    \* whether it is closed
    results,   \* the results channel
    worker,    \* by peer: where its goroutine is
    holding,   \* by peer: the piece it took from the channel
    bitfield,  \* by peer: the bits it announced; {} is a bitfield of no bytes
    good,      \* by peer: whether the buffer it downloaded has the piece's hash
    file,      \* by piece: what Download's buffer holds: "none", "good", "bad"
    received,  \* Download's counter
    main,      \* "collect" or "returned"
    panic      \* a send on the closed channel

vars == <<work, closed, results, worker, holding, bitfield, good, file, received, main, panic>>

\* The channel is filled in piece order; any order stands for it.
Init ==
    /\ work \in SetToSeqs(Pieces)
    /\ closed = FALSE
    /\ results = << >>
    /\ worker = [w \in Peers |-> "dial"]
    /\ holding = [w \in Peers |-> NoPiece]
    /\ bitfield = [w \in Peers |-> {}]
    /\ good = [w \in Peers |-> FALSE]
    /\ file = [p \in Pieces |-> "none"]
    /\ received = 0
    /\ main = "collect"
    /\ panic = FALSE

-----------------------------------------------------------------------------
(* downloadWorker *)

\* Dial, handshake, read the bitfield, send "interested".
New(w) ==
    /\ worker[w] = "dial"
    /\ worker' = [worker EXCEPT ![w] = "range"]
    /\ \E bf \in IF w \in Honest THEN {Pieces} ELSE Bitfields :
         bitfield' = [bitfield EXCEPT ![w] = bf]
    /\ UNCHANGED <<work, closed, results, holding, good, file, received, main, panic>>

\* One of them fails: the peer is skipped.
NewFails(w) ==
    /\ worker[w] = "dial" /\ w \notin Honest
    /\ worker' = [worker EXCEPT ![w] = "skipped"]
    /\ UNCHANGED <<work, closed, results, holding, bitfield, good, file, received, main, panic>>

\* for pw := range work
Take(w) ==
    /\ worker[w] = "range" /\ work # << >>
    /\ holding' = [holding EXCEPT ![w] = Head(work)]
    /\ work' = Tail(work)
    /\ worker' = [worker EXCEPT ![w] = "download"]
    /\ UNCHANGED <<closed, results, bitfield, good, file, received, main, panic>>

RangeEnds(w) ==
    /\ worker[w] = "range" /\ work = << >> /\ closed
    /\ worker' = [worker EXCEPT ![w] = "exited"]
    /\ UNCHANGED <<work, closed, results, holding, bitfield, good, file, received, main, panic>>

\* As PutBack, with the piece forgotten when the worker gives up.
PutBack_Forgets(w, next) ==
    IF next = "exited"
    THEN /\ holding' = [holding EXCEPT ![w] = NoPiece]
         /\ worker' = [worker EXCEPT ![w] = next]
         /\ UNCHANGED <<work, panic>>
    ELSE /\ Len(work) < N
         /\ work' = Append(work, holding[w])
         /\ panic' = closed
         /\ holding' = [holding EXCEPT ![w] = NoPiece]
         /\ worker' = [worker EXCEPT ![w] = next]

\* work <- pw: waits for room, panics when the channel is closed.
PutBack(w, next) ==
    /\ Len(work) < N
    /\ work' = Append(work, holding[w])
    /\ panic' = closed
    /\ holding' = [holding EXCEPT ![w] = NoPiece]
    /\ worker' = [worker EXCEPT ![w] = next]

\* The peer sent a bitfield, and this piece is not in it.
Lacks(w) ==
    /\ worker[w] = "download"
    /\ bitfield[w] # {} /\ holding[w] \notin bitfield[w]
    /\ PutBack(w, "range")
    /\ UNCHANGED <<closed, results, bitfield, good, file, received, main>>

Tries(w) == worker[w] = "download" /\ (bitfield[w] = {} \/ holding[w] \in bitfield[w])

\* downloadPiece returns a buffer; on the way the peer may announce pieces.
downloadPiece(w) ==
    /\ Tries(w)
    /\ worker' = [worker EXCEPT ![w] = "verify"]
    /\ \E ok \in IF w \in Honest THEN {TRUE} ELSE BOOLEAN : good' = [good EXCEPT ![w] = ok]
    /\ \E have \in Bitfields : bitfield' = [bitfield EXCEPT ![w] = @ \cup have]
    /\ UNCHANGED <<work, closed, results, holding, file, received, main, panic>>

\* downloadPiece returns an error: timeout, bad message, lost connection.
DownloadFails(w) ==
    /\ Tries(w) /\ w \notin Honest
    /\ PutBack(w, "exited")
    /\ UNCHANGED <<closed, results, bitfield, good, file, received, main>>

HashFails(w) ==
    /\ worker[w] = "verify" /\ ~good[w]
    /\ PutBack(w, "range")
    /\ UNCHANGED <<closed, results, bitfield, good, file, received, main>>

\* As Deliver, before the hash is compared.
Deliver_Unverified(w) ==
    /\ worker[w] = "verify"
    /\ Len(results) < N
    /\ results' = Append(results, [piece |-> holding[w], good |-> good[w]])
    /\ holding' = [holding EXCEPT ![w] = NoPiece]
    /\ worker' = [worker EXCEPT ![w] = "range"]
    /\ UNCHANGED <<work, closed, bitfield, good, file, received, main, panic>>

\* results <- pieceResult
Deliver(w) ==
    /\ worker[w] = "verify" /\ good[w]
    /\ Len(results) < N
    /\ results' = Append(results, [piece |-> holding[w], good |-> good[w]])
    /\ holding' = [holding EXCEPT ![w] = NoPiece]
    /\ worker' = [worker EXCEPT ![w] = "range"]
    /\ UNCHANGED <<work, closed, bitfield, good, file, received, main, panic>>

-----------------------------------------------------------------------------
(* Download *)

Collect ==
    /\ main = "collect" /\ received < N /\ results # << >>
    /\ file' = [file EXCEPT ![Head(results).piece] = IF Head(results).good THEN "good" ELSE "bad"]
    /\ results' = Tail(results)
    /\ received' = received + 1
    /\ UNCHANGED <<work, closed, worker, holding, bitfield, good, main, panic>>

Finish ==
    /\ main = "collect" /\ received = N
    /\ closed' = TRUE
    /\ main' = "returned"
    /\ UNCHANGED <<work, results, worker, holding, bitfield, good, file, received, panic>>

-----------------------------------------------------------------------------
Works(w) == New(w) \/ RangeEnds(w) \/ Lacks(w) \/ downloadPiece(w) \/ DownloadFails(w)
            \/ HashFails(w) \/ Deliver(w) \/ NewFails(w)

Next == Collect \/ Finish \/ \E w \in Peers : Take(w) \/ Works(w)

Spec == Init /\ [][Next]_vars

\* Goroutines that can run do; a goroutine waiting on the channel is served in
\* turn (the runtime keeps waiting receivers in a queue), so one that comes
\* back to it again and again gets a piece.
LiveSpec == /\ Spec
            /\ WF_vars(Collect) /\ WF_vars(Finish)
            /\ \A w \in Peers : WF_vars(Works(w)) /\ SF_vars(Take(w))

-----------------------------------------------------------------------------
(* Properties *)

States == {"dial", "skipped", "range", "download", "verify", "exited"}

\* Every variable keeps its type; both channels stay within their capacity.
TypeOK ==
    /\ work \in Seq(Pieces) /\ Len(work) <= N
    /\ results \in Seq([piece : Pieces, good : BOOLEAN]) /\ Len(results) <= N
    /\ worker \in [Peers -> States]
    /\ holding \in [Peers -> Pieces \cup {NoPiece}]
    /\ bitfield \in [Peers -> SUBSET (Pieces \cup {NoPiece})] /\ good \in [Peers -> BOOLEAN]
    /\ file \in [Pieces -> {"none", "good", "bad"}] /\ received \in 0 .. N
    /\ closed \in BOOLEAN /\ panic \in BOOLEAN /\ main \in {"collect", "returned"}

\* The places a piece can be in: queued, in a worker's hands, in a result, in the file.
Places(p) ==
    {<<"work", j>> : j \in {i \in DOMAIN work : work[i] = p}}
    \cup {<<"worker", w>> : w \in {v \in Peers : holding[v] = p}}
    \cup {<<"result", j>> : j \in {i \in DOMAIN results : results[i].piece = p}}
    \cup {<<"file", 0>> : x \in {y \in {0} : file[p] # "none"}}

\* Whatever the peers do, every piece is in exactly one place, so that counting
\* results is counting pieces (download.go:52-57).
OnePlace ==
    /\ \A p \in Pieces : Cardinality(Places(p)) = 1
    /\ received = Cardinality({p \in Pieces : file[p] # "none"})

\* close(work) never meets a worker that still has a piece to put back: a send
\* on the closed channel would panic the process.
NoPanic == ~panic /\ (closed => \A w \in Peers : holding[w] = NoPiece)

\* Download returns "the assembled, hash-verified file contents"
\* (download.go:30-31), although peers may send anything.
Verified ==
    /\ \A p \in Pieces : file[p] # "bad"
    /\ main = "returned" => \A p \in Pieces : file[p] = "good"

\* make(chan ..., len(pieces)) (download.go:40-41) is room enough: whoever holds a
\* piece finds both channels with a free place, so no worker ever waits to send.
NeverBlocks ==
    \A w \in Peers : holding[w] # NoPiece => Len(work) < N /\ Len(results) < N

\* All of them together, about the pieces and where they are.
PiecesSound == TypeOK /\ OnePlace /\ NoPanic /\ Verified /\ NeverBlocks

\* One peer that answers is enough for Download to return, whatever the others
\* send, drop or hold back.
DownloadReturns == <>(main = "returned")

Queued(p) == \E j \in DOMAIN work : work[j] = p

\* A piece "whose peer errors out goes back on the queue for another peer to
\* try" (download.go:33-34): once a worker has put its piece back and ended, a
\* piece on the queue is taken up by somebody.
TriedAgain ==
    \A p \in Pieces : (Queued(p) /\ \E w \in Peers : worker[w] = "exited") ~> ~Queued(p)
=============================================================================

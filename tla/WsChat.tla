------------------------------- MODULE WsChat -------------------------------
(* The WebSocket chat of 2026-09-05-rust-websocket-chat: a thread per       *)
(* client, a registry of write halves behind a mutex that broadcast holds   *)
(* while it writes, and Pongs that a thread writes to its own socket        *)
(* without the mutex.  write_all is a series of write calls, each of which  *)
(* takes some bytes.  Frames are byte sequences with the header of RFC 6455 *)
(* in a smaller base.                                                       *)
EXTENDS Naturals, Sequences, SequencesExt, FiniteSets

CONSTANTS Clients,
          Readers,              \* clients that read what is sent to them
          Literal,              \* the largest length in the 7-bit field: 125
          LenBase,                 \* values of an extended length digit: 2^16
          Lens,                 \* payload lengths that clients send
          Chunk,                \* bytes that one write call takes
          MaxFrames             \* bound: frames that clients send

ASSUME WsAssumption ==
    /\ "free" \notin Clients /\ Readers \subseteq Clients
    /\ Literal \in Nat /\ LenBase \in Nat /\ Literal < LenBase
    /\ Lens \subseteq Nat /\ \A n \in Lens : n < LenBase * LenBase
    /\ Chunk \in Nat \ {0} /\ MaxFrames \in Nat

VARIABLES clients,   \* the registry: ids that broadcast writes to
          lock,      \* the thread that holds its mutex, or "free"
          stage, todo,  \* per thread: where it is; frames it has to write, as [to, bytes]
          out,       \* bytes written to a client's socket
          said,      \* texts in the order their broadcasts took the lock
          count,     \* frames sent so far
          pinged     \* clients that have sent a Ping

chat == <<clients, lock, stage, todo, out, said, count, pinged>>

\* Opcodes, and the 101 answer, as bytes that are no length digit.
Text    == 51
Pong    == 52
Upgrade == <<50>>

\* A length up to Literal is its own field; Literal + 1 and Literal + 2 (126
\* and 127) announce one and two more digits.
encode_frame(op, payload) ==
    LET n == Len(payload)
    IN <<op>> \o (CASE n <= Literal -> <<n>>
                    [] n > Literal /\ n < LenBase -> <<Literal + 1, n>>
                    [] OTHER -> <<Literal + 2, n \div LenBase, n % LenBase>>) \o payload

\* The frame at the front of a byte sequence as [op, payload, rest], or {}
\* when more bytes are needed.  Headers that hold no number do not parse.
read_frame(s) ==
    LET digits == CASE s[2] = Literal + 1 -> 1 [] s[2] = Literal + 2 -> 2 [] OTHER -> 0
        n      == CASE digits = 0 -> s[2] [] digits = 1 -> s[3] [] OTHER -> s[3] * LenBase + s[4]
        first  == 3 + digits
    IN IF /\ Len(s) >= 2 /\ s[2] \in 0 .. Literal + 2 /\ Len(s) >= 2 + digits
          /\ \A d \in 3 .. 2 + digits : s[d] \in 0 .. LenBase - 1
          /\ Len(s) >= first + n - 1
       THEN {[op |-> s[1], payload |-> SubSeq(s, first, first + n - 1),
              rest |-> SubSeq(s, first + n, Len(s))]}
       ELSE {}

\* Payload byte k of the m-th frame sent.  Bytes are 100 and up, so that a
\* reader that has lost its place does not find a header by accident.
Payload(m, n) == [k \in 1 .. n |-> 100 * m + k]

ChatInit ==
    /\ clients = {} /\ lock = "free" /\ said = << >> /\ count = 0 /\ pinged = {}
    /\ stage = [c \in Clients |-> "handshake"]
    /\ todo = [c \in Clients |-> << >>] /\ out = [c \in Clients |-> << >>]

\* Takes the first bytes of what c has to write; a frame that is written
\* leaves the list.
SomeBytes(c) ==
    /\ todo[c] # << >>
    /\ LET w == Head(todo[c])
           n == Min({Chunk, Len(w.bytes)})
       IN /\ out' = [out EXCEPT ![w.to] = @ \o SubSeq(w.bytes, 1, n)]
          /\ todo' = [todo EXCEPT ![c] =
                          IF n = Len(w.bytes) THEN Tail(@)
                          ELSE <<[w EXCEPT !.bytes = SubSeq(@, n + 1, Len(@))]>> \o Tail(@)]

\* read_handshake_key found a key: the thread has the answer to write.
ReadKey(c) ==
    /\ stage[c] = "handshake"
    /\ stage' = [stage EXCEPT ![c] = "upgrade"]
    /\ todo' = [todo EXCEPT ![c] = <<[to |-> c, bytes |-> Upgrade]>>]
    /\ UNCHANGED <<clients, lock, out, said, count, pinged>>

\* The answer is written, the client enters the registry.
Register(c) ==
    /\ stage[c] = "upgrade" /\ todo[c] = << >> /\ lock = "free"
    /\ stage' = [stage EXCEPT ![c] = "serving"] /\ clients' = clients \cup {c}
    /\ UNCHANGED <<lock, todo, out, said, count, pinged>>

\* try_clone fails behind the answer.
RegisterFails(c) ==
    /\ stage[c] = "upgrade" /\ todo[c] = << >> /\ lock = "free"
    /\ stage' = [stage EXCEPT ![c] = "leaving"]
    /\ UNCHANGED <<clients, lock, todo, out, said, count, pinged>>

Frame(c) == stage[c] = "serving" /\ todo[c] = << >> /\ lock # c /\ count < MaxFrames
            /\ count' = count + 1

\* What broadcast writes: the text, to everyone registered but its sender, in
\* the order in which the map is walked.
FanOut(c) ==
    \E n \in Lens, order \in SetToSeqs(clients \ {c}) :
      LET frame == encode_frame(Text, Payload(count', n))
      IN /\ todo' = [todo EXCEPT ![c] = [k \in DOMAIN order |-> [to |-> order[k], bytes |-> frame]]]
         /\ said' = Append(said, Payload(count', n))

\* As ReadText, giving the mutex back before it writes.
ReadText_Unlocked(c) ==
    /\ Frame(c) /\ lock = "free" /\ FanOut(c)
    /\ UNCHANGED <<clients, lock, stage, out, pinged>>

\* A text: broadcast takes the mutex and keeps it while it writes.
ReadText(c) ==
    /\ Frame(c) /\ lock = "free" /\ lock' = c /\ FanOut(c)
    /\ UNCHANGED <<clients, stage, out, pinged>>

\* A Ping is answered on the thread's own handle, mutex or not.
ReadPing(c) ==
    /\ Frame(c)
    /\ \E n \in Lens :
         todo' = [todo EXCEPT ![c] = <<[to |-> c, bytes |-> encode_frame(Pong, Payload(count', n))]>>]
    /\ pinged' = pinged \cup {c}
    /\ UNCHANGED <<clients, lock, stage, out, said>>

write_all(c) == SomeBytes(c) /\ UNCHANGED <<clients, lock, stage, said, count, pinged>>

\* A write to a peer that has hung up fails: broadcast drops it from the
\* registry, a thread that was writing to its own socket ends.
WriteFails(c) ==
    /\ todo[c] # << >>
    /\ LET to == Head(todo[c]).to
       IN \/ /\ lock = c /\ clients' = clients \ {to}
             /\ todo' = [todo EXCEPT ![c] = Tail(@)] /\ UNCHANGED stage
          \/ /\ lock # c /\ to = c
             /\ todo' = [todo EXCEPT ![c] = << >>] /\ stage' = [stage EXCEPT ![c] = "leaving"]
             /\ UNCHANGED clients
    /\ UNCHANGED <<lock, out, said, count, pinged>>

\* broadcast returns and its guard is dropped.
Unlock(c) ==
    /\ lock = c /\ todo[c] = << >> /\ lock' = "free"
    /\ UNCHANGED <<clients, stage, todo, out, said, count, pinged>>

\* The handshake or read_frame fails, or the frame is a Close.
Hangup(c) ==
    /\ stage[c] \in {"handshake", "serving"} /\ todo[c] = << >> /\ lock # c
    /\ stage' = [stage EXCEPT ![c] = "leaving"]
    /\ UNCHANGED <<clients, lock, todo, out, said, count, pinged>>

\* A header with a length that no Vec can have: read_frame panics, the thread
\* unwinds past the remove at its end, and the id stays in the registry.
Panics(c) ==
    /\ stage[c] = "serving" /\ todo[c] = << >> /\ lock # c
    /\ stage' = [stage EXCEPT ![c] = "dead"]
    /\ UNCHANGED <<clients, lock, todo, out, said, count, pinged>>

\* As Depart, trusting the next broadcast to find out.
Depart_KeepsId(c) ==
    /\ stage[c] = "leaving" /\ lock = "free" /\ stage' = [stage EXCEPT ![c] = "gone"]
    /\ UNCHANGED <<clients, lock, todo, out, said, count, pinged>>

\* serve: handle_client has returned, with an error or not, and the thread
\* takes its id out.
Depart(c) ==
    /\ stage[c] = "leaving" /\ lock = "free"
    /\ stage' = [stage EXCEPT ![c] = "gone"] /\ clients' = clients \ {c}
    /\ UNCHANGED <<lock, todo, out, said, count, pinged>>

ChatNext ==
    \E c \in Clients :
      \/ ReadKey(c) \/ Register(c) \/ RegisterFails(c) \/ ReadText(c) \/ ReadPing(c)
      \/ write_all(c) \/ WriteFails(c) \/ Unlock(c) \/ Hangup(c) \/ Panics(c) \/ Depart(c)

\* A thread that has to write to a peer that reads goes on, one that writes to
\* another peer may wait for ever; what needs no peer is done.
WritesOn(c) == (write_all(c) /\ Head(todo[c]).to \in Readers) \/ Unlock(c)

ChatSpec == ChatInit /\ [][ChatNext]_chat
        /\ \A c \in Clients : WF_chat(WritesOn(c)) /\ WF_chat(Depart(c))

-----------------------------------------------------------------------------
(* Properties *)

\* The frames a peer decodes from its stream, whole ones only, and what is left.
Decode(s) ==
    LET step[m \in 0 .. MaxFrames] ==
          IF m = 0 THEN [frames |-> << >>, rest |-> s]
          ELSE IF step[m - 1].rest = << >> \/ read_frame(step[m - 1].rest) = {} THEN step[m - 1]
          ELSE LET f == CHOOSE g \in read_frame(step[m - 1].rest) : TRUE
               IN [frames |-> Append(step[m - 1].frames, f.payload), rest |-> f.rest]
    IN step[MaxFrames]

\* No thread is in the middle of writing to c.
Quiet(c) == \A d \in Clients : \A k \in DOMAIN todo[d] : todo[d][k].to # c

\* The stream of a client that has sent no Ping: the 101 answer, then texts
\* in the order their broadcasts took the mutex, each whole and decoding to
\* what was sent, whatever threads write at the same time.
WholeInOrder ==
    \A c \in Clients \ pinged :
      out[c] # << >> =>
        /\ Head(out[c]) = Head(Upgrade)
        /\ LET got == Decode(Tail(out[c]))
           IN /\ Quiet(c) /\ c \in clients => got.rest = << >>
              /\ \E at \in [DOMAIN got.frames -> DOMAIN said] :
                   /\ \A j, k \in DOMAIN at : j < k => at[j] < at[k]
                   /\ \A k \in DOMAIN at : got.frames[k] = said[at[k]]

\* The mutex is held by a broadcast that waits for a peer that need not read.
Stalled == \E c \in Clients : lock = c /\ todo[c] # << >> /\ Head(todo[c]).to \notin Readers

\* No client is about to leave, and those that left are out of the registry.
NobodyLeaves == \A c \in Clients : stage[c] # "leaving" /\ (stage[c] = "gone" => c \notin clients)

\* A client whose handle_client returned leaves the registry, though others
\* hold the mutex and may drop it first, unless a client that never drains its
\* socket stalls everyone for good (LEARNING.md:96-97).
LeavesRegistry == []<>~Stalled => []<>NobodyLeaves
=============================================================================

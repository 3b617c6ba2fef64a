------------------------------- MODULE MCWeb -------------------------------
(* The four Rust programs that serve browsers or run in one, in one run:    *)
(* part says which of them a behaviour is of, and the others rest in an     *)
(* initial state.  The properties are those of the parts.                   *)
EXTENDS ItemStore, NotesBoard, WsChat, TodoApp

VARIABLE part

all  == <<part, tabs, itemVars, board, chat>>

\* A blank, characters that are encoded, and one that looks encoded.
Typed == {<<" ", "%">>, <<"%", "2", "5">>, <<"+", "&", "=">>, <<" ">>}

\* Texts that begin or end with what trim takes, and look escaped.
TypedTodos == {<<"bs", "t", "cr">>, <<"tab", "t", "nl", "bs", "n">>}

WebInit ==
    /\ part \in {"items", "chat", "notes", "todos"}
    /\ ItemsInit /\ BoardInit /\ ChatInit /\ TodoInit

\* A step of a part leaves the variables of the others alone.
Of(p, A, others) == part = p /\ A /\ UNCHANGED <<part, others>>

OfChat(A) == Of("chat", A, <<itemVars, board, tabs>>)

WebNext ==
    \/ Of("items", ItemsNext, <<board, chat, tabs>>)
    \/ Of("notes", BoardNext, <<itemVars, chat, tabs>>)
    \/ OfChat(ChatNext)
    \/ Of("todos", TodoNext, <<itemVars, board, chat>>)

\* The fairness of the chat's threads (ChatSpec).
WebSpec ==
    /\ WebInit /\ [][WebNext]_all
    /\ \A c \in Clients : WF_all(OfChat(WritesOn(c))) /\ WF_all(OfChat(Depart(c)))
=============================================================================

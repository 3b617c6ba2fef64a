----------------------------- MODULE ItemStore ------------------------------
(* The item service of 2026-08-13-rust-microservice: one thread per         *)
(* connection, one request each, over Store, whose map is behind a lock and *)
(* whose id counter is an atomic of its own.  create and put touch the two  *)
(* in separate steps; everything else is one step under the lock.           *)
EXTENDS Naturals

CONSTANTS Conns,    \* connections, each good for one request
          Values,   \* bodies
          LastId,    \* the largest u64
          PutIds,   \* ids that clients ask for
          Nothing      \* a model value

ItemIds == 0 .. LastId

VARIABLES items, next_id,   \* Store
          phase, req, id,      \* per thread: where it is, its Request, the id it works on
          status            \* the status it answered with, or Nothing

itemVars == <<items, next_id, phase, req, id, status>>

\* The path as route splits it: the collection, an item, an id that is no
\* number, or anything else.
Items == {<<"items", i>> : i \in PutIds}
Requests == [method : {"GET", "POST", "PUT", "DELETE"},
             target : {<<"items">>, <<"garbled">>, <<"elsewhere">>} \cup Items,
             body : Values]

ASSUME IdsAssumption ==
    /\ LastId \in Nat \ {0} /\ PutIds \subseteq ItemIds
    /\ Nothing \notin ItemIds /\ Nothing \notin Requests

ItemsTypeOK ==
    /\ items \in [ItemIds -> Values \cup {Nothing}] /\ next_id \in ItemIds
    /\ phase \in [Conns -> {"new", "parse", "route", "insert", "closed"}]
    /\ req \in [Conns -> Requests \cup {Nothing}]
    /\ id \in [Conns -> ItemIds \cup {Nothing}]
    /\ status \in [Conns -> {Nothing, 200, 201, 204, 400, 404}]

ItemsInit ==
    /\ items = [i \in ItemIds |-> Nothing] /\ next_id = 1
    /\ phase = [c \in Conns |-> "new"] /\ req = [c \in Conns |-> Nothing]
    /\ id = [c \in Conns |-> Nothing] /\ status = [c \in Conns |-> Nothing]

\* The thread writes its response, if any, and ends.
Answer(c, s) ==
    /\ phase' = [phase EXCEPT ![c] = "closed"]
    /\ status' = [status EXCEPT ![c] = s]

serve(c) == phase[c] = "new" /\ phase' = [phase EXCEPT ![c] = "parse"]
            /\ UNCHANGED <<items, next_id, req, id, status>>

\* A client that hangs up or whose socket fails gets nothing, a malformed
\* request gets 400.
NoRequest(c) ==
    /\ phase[c] = "parse"
    /\ \E s \in {Nothing, 400} : Answer(c, s)
    /\ UNCHANGED <<items, next_id, req, id>>

parse(c) ==
    /\ phase[c] = "parse"
    /\ \E r \in Requests : req' = [req EXCEPT ![c] = r]
    /\ phase' = [phase EXCEPT ![c] = "route"]
    /\ UNCHANGED <<items, next_id, id, status>>

Routed(c, methods, targets) ==
    phase[c] = "route" /\ req[c].method \in methods /\ req[c].target \in targets

list_items(c) == Routed(c, {"GET"}, {<<"items">>}) /\ Answer(c, 200)
                 /\ UNCHANGED <<items, next_id, req, id>>

\* with_id: an id that does not parse is 400, an unknown route 404.
Unroutable(c) ==
    /\ \/ Routed(c, {"GET", "PUT", "DELETE"}, {<<"garbled">>}) /\ Answer(c, 400)
       \/ Routed(c, {"GET", "POST", "PUT", "DELETE"}, {<<"elsewhere">>}) /\ Answer(c, 404)
       \/ Routed(c, {"POST"}, {<<"garbled">>} \cup Items) /\ Answer(c, 404)
       \/ Routed(c, {"PUT", "DELETE"}, {<<"items">>}) /\ Answer(c, 404)
    /\ UNCHANGED <<items, next_id, req, id>>

get_item(c) ==
    /\ Routed(c, {"GET"}, Items)
    /\ Answer(c, IF items[req[c].target[2]] = Nothing THEN 404 ELSE 200)
    /\ UNCHANGED <<items, next_id, req, id>>

delete_item(c) ==
    /\ Routed(c, {"DELETE"}, Items)
    /\ Answer(c, IF items[req[c].target[2]] = Nothing THEN 404 ELSE 204)
    /\ items' = [items EXCEPT ![req[c].target[2]] = Nothing]
    /\ UNCHANGED <<next_id, req, id>>

Reserved(c, i, next) ==
    /\ id' = [id EXCEPT ![c] = i] /\ next_id' = next
    /\ phase' = [phase EXCEPT ![c] = "insert"]
    /\ UNCHANGED <<items, req, status>>

\* create, first half: fetch_add, which wraps.
CreateReserve(c) ==
    /\ Routed(c, {"POST"}, {<<"items">>})
    /\ Reserved(c, next_id, (next_id + 1) % (LastId + 1))

\* As PutReserve, leaving the counter alone.
PutReserve_NoBump(c) ==
    /\ Routed(c, {"PUT"}, Items)
    /\ Reserved(c, req[c].target[2], next_id)

\* put, first half: fetch_max(id + 1), where an optimised build wraps.
PutReserve(c) ==
    /\ Routed(c, {"PUT"}, Items)
    /\ LET i    == req[c].target[2]
           bump == (i + 1) % (LastId + 1)
       IN Reserved(c, i, IF bump > next_id THEN bump ELSE next_id)

\* In a debug build id + 1 panics; the thread dies with the store untouched.
PutPanics(c) ==
    /\ Routed(c, {"PUT"}, Items \cap {<<"items", LastId>>}) /\ Answer(c, Nothing)
    /\ UNCHANGED <<items, next_id, req, id>>

\* Both halves end with write().insert(id, value).
Insert(c) ==
    /\ phase[c] = "insert"
    /\ items' = [items EXCEPT ![id[c]] = req[c].body]
    /\ Answer(c, IF req[c].method = "POST" \/ items[id[c]] = Nothing THEN 201 ELSE 200)
    /\ UNCHANGED <<next_id, req, id>>

ItemsNext ==
    \E c \in Conns :
      \/ serve(c) \/ NoRequest(c) \/ parse(c)
      \/ list_items(c) \/ Unroutable(c) \/ get_item(c) \/ delete_item(c)
      \/ CreateReserve(c) \/ PutReserve(c) \/ PutPanics(c) \/ Insert(c)

ItemsSpec == ItemsInit /\ [][ItemsNext]_itemVars

-----------------------------------------------------------------------------
(* Properties *)

\* Ids that requests before this step have taken: a POST from its fetch_add
\* on, a PUT from its fetch_max on, whether or not the item is still there.
Claimed == {id[c] : c \in Conns} \ {Nothing}

\* No POST has drawn the largest id, so the counter has not wrapped.
NoWrap == \A c \in Conns : id[c] = LastId => req[c].method # "POST"

\* What fetch_add and fetch_max promise together (Store::create, Store::put):
\* the id that a POST draws was neither drawn nor put before, even if the
\* item is deleted since, as long as the counter does not wrap: below the
\* largest id, also when a PUT of that one has wrapped its id + 1.
FreshId ==
    NoWrap => \A c \in Conns : CreateReserve(c) /\ next_id < LastId => id'[c] \notin Claimed
FreshIds == [][FreshId]_itemVars

\* Store::put's comment: fetch_max keeps a POST from silently overwriting an
\* item that a client has put.
NoOverwrite ==
    [][\A c \in Conns : Insert(c) /\ req[c].method = "POST" => items[id[c]] = Nothing]_itemVars
=============================================================================

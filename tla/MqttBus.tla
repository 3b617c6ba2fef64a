------------------------------ MODULE MqttBus ------------------------------
(* What an MQTT broker promises to its clients, keyed by client id rather   *)
(* than by socket: at most one session per id, each with a set of filters   *)
(* and a queue of publications, and a publication reaches every session     *)
(* that has a matching filter once, in one step, in publication order.      *)
EXTENDS Naturals, Sequences

CONSTANTS Ids, Filters, Topics, Matches, MaxPubs

VARIABLES session, npub

Down == [up |-> FALSE, subs |-> {}, inbox |-> << >>]

Init == session = [i \in Ids |-> Down] /\ npub = 0

\* A CONNECT starts an empty session, ending the one the id had.
Connect(i) ==
    /\ session' = [session EXCEPT ![i] = [Down EXCEPT !.up = TRUE]]
    /\ UNCHANGED npub

Drop(i) ==
    /\ session' = [session EXCEPT ![i] = Down]
    /\ UNCHANGED npub

Resubscribe(i) ==
    /\ session[i].up
    /\ \E S \in SUBSET Filters : session' = [session EXCEPT ![i].subs = S]
    /\ UNCHANGED npub

\* Every session with a matching filter gets the publication, exactly once.
Publish(t) ==
    /\ npub < MaxPubs
    /\ npub' = npub + 1
    /\ session' = [i \in Ids |->
         IF \E f \in session[i].subs : <<f, t>> \in Matches
         THEN [session[i] EXCEPT !.inbox = Append(@, npub + 1)]
         ELSE session[i]]

\* Some of the publications at the head of the queue go out.
Deliver(i) ==
    /\ \E n \in 1 .. Len(session[i].inbox) :
         session' = [session EXCEPT ![i].inbox = SubSeq(@, n + 1, Len(@))]
    /\ UNCHANGED npub

Next ==
    \/ \E i \in Ids : Connect(i) \/ Drop(i) \/ Resubscribe(i) \/ Deliver(i)
    \/ \E t \in Topics : Publish(t)

Spec == Init /\ [][Next]_<<session, npub>>
=============================================================================

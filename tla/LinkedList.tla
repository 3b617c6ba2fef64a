----------------------------- MODULE LinkedList -----------------------------
(* The singly-linked stack of 2026-07-22-rust-linked-list: boxes on a heap,  *)
(* take() as moving a link out, the three iterators and the iterative Drop.  *)
(* The borrow checker is the guard idle: no operation of the list itself     *)
(* while an iterator holds it.                                               *)
EXTENDS Naturals, Sequences, FiniteSets, Functions

CONSTANTS Elems,     \* values of T
          Mutate(_), \* what a caller does through a &mut T
          MaxNodes   \* bound: boxes at a time

ASSUME MutateAssumption == MaxNodes \in Nat /\ \A e \in Elems : Mutate(e) \in Elems

NoBox == 0
Boxes == 1 .. MaxNodes

VARIABLES heap,      \* live boxes: a function from boxes to [elem, next]
          head,      \* List::head
          holder,    \* who holds the list: "user", "iter", "iter_mut", "into_iter", "drop"
          next,      \* Iter::next, IterMut::next, and drop's cur_link
          seen,      \* what the iterator has yielded
          depth      \* the deepest nesting of box drops so far

listVars == <<heap, head, holder, next, seen, depth>>

\* The boxes of heap h that link p owns, in order.
Owned(h, p) ==
    LET from[n \in 0 .. MaxNodes] == [q \in Boxes \cup {NoBox} |->
            IF n = 0 \/ q \notin DOMAIN h THEN << >> ELSE <<q>> \o from[n - 1][h[q].next]]
    IN from[MaxNodes][p]

ListInit == heap = << >> /\ head = NoBox /\ holder = "user" /\ next = NoBox /\ seen = << >> /\ depth = 0

\* A box that goes out of scope takes with it, one frame deeper each, the
\* boxes that its next link still owns.
Free(h, p) ==
    /\ heap' = [q \in DOMAIN h \ Range(Owned(h, p)) |-> h[q]]
    /\ depth' = IF depth < Len(Owned(h, p)) THEN Len(Owned(h, p)) ELSE depth

push ==
    /\ holder = "user" /\ \E e \in Elems, b \in Boxes \ DOMAIN heap :
         /\ heap' = [q \in DOMAIN heap \cup {b} |-> IF q = b THEN [elem |-> e, next |-> head] ELSE heap[q]]
         /\ head' = b
    /\ UNCHANGED <<holder, next, seen, depth>>

\* pop on a list that is not empty: the node is moved out of its box.
Pop ==
    /\ head # NoBox /\ head' = heap[head].next
    /\ Free([heap EXCEPT ![head].next = NoBox], head)

pop == holder = "user" /\ Pop /\ UNCHANGED <<holder, next, seen>>

peek_mut ==
    /\ holder = "user" /\ head # NoBox
    /\ heap' = [heap EXCEPT ![head].elem = Mutate(@)]
    /\ UNCHANGED <<head, holder, next, seen, depth>>

\* iter and iter_mut borrow the list, into_iter takes it.
Borrow ==
    /\ holder = "user" /\ holder' \in {"iter", "iter_mut", "into_iter"}
    /\ next' = IF holder' = "into_iter" THEN NoBox ELSE head
    /\ seen' = << >> /\ UNCHANGED <<heap, head, depth>>

\* Iter::next and IterMut::next; the caller may write through the latter.
Yield ==
    /\ holder \in {"iter", "iter_mut"} /\ next # NoBox
    /\ next' = heap[next].next /\ seen' = Append(seen, heap[next].elem)
    /\ heap' = IF holder = "iter_mut" THEN [heap EXCEPT ![next].elem = Mutate(@)] ELSE heap
    /\ UNCHANGED <<head, holder, depth>>

\* IntoIter::next
YieldOwned ==
    /\ holder = "into_iter" /\ Pop /\ seen' = Append(seen, heap[head].elem)
    /\ UNCHANGED <<holder, next>>

\* A borrow ends, at the end or before it.
Release ==
    /\ holder \in {"iter", "iter_mut"} /\ holder' = "user" /\ next' = NoBox /\ seen' = << >>
    /\ UNCHANGED <<heap, head, depth>>

\* The list, or the IntoIter with what is left of it, goes out of scope.
StartDrop ==
    /\ holder \in {"user", "into_iter"} /\ holder' = "drop" /\ next' = head /\ head' = NoBox
    /\ seen' = << >> /\ UNCHANGED <<heap, depth>>

\* As DropNode, with the link copied before the box goes, not taken.
DropNode_NoTake ==
    /\ holder = "drop" /\ next # NoBox
    /\ next' = heap[next].next /\ Free(heap, next)
    /\ UNCHANGED <<head, holder, seen>>

\* A turn of drop's loop: the link is taken out of the node, then its box goes.
DropNode ==
    /\ holder = "drop" /\ next # NoBox
    /\ next' = heap[next].next /\ Free([heap EXCEPT ![next].next = NoBox], next)
    /\ UNCHANGED <<head, holder, seen>>

\* drop has returned; the caller makes a new list.
NewList ==
    /\ holder = "drop" /\ next = NoBox /\ holder' = "user"
    /\ UNCHANGED <<heap, head, next, seen, depth>>

ListNext == push \/ pop \/ peek_mut \/ Borrow \/ Yield \/ YieldOwned \/ Release \/ StartDrop \/ DropNode \/ NewList
ListSpec == ListInit /\ [][ListNext]_listVars

-----------------------------------------------------------------------------
(* Properties *)

ElemsFrom(p) == [k \in DOMAIN Owned(heap, p) |-> heap[Owned(heap, p)[k]].elem]

\* Every live box is owned by exactly one chain, so nothing dangles or leaks
\* after any mix of pushes, pops, iterators and drops, also one that stops in
\* the middle; and no drop nests: a list of any length needs one frame.
OwnedOnce ==
    /\ LET live == Owned(heap, head) \o IF holder = "drop" THEN Owned(heap, next) ELSE << >>
       IN Range(live) = DOMAIN heap /\ Len(live) = Cardinality(DOMAIN heap)
    /\ head \in DOMAIN heap \cup {NoBox} /\ next \in DOMAIN heap \cup {NoBox}
    /\ depth <= 1

\* An iterator yields each element once, front to back, and writes through
\* iter_mut change the elements behind it and none before it.
IteratesInOrder ==
    /\ holder = "iter" => seen \o ElemsFrom(next) = ElemsFrom(head)
    /\ holder = "iter_mut" => [k \in DOMAIN seen |-> Mutate(seen[k])] \o ElemsFrom(next) = ElemsFrom(head)

\* Both, whatever iterators and drops are left off in the middle.
ListSound == OwnedOnce /\ IteratesInOrder
=============================================================================

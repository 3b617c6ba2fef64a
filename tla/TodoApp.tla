------------------------------ MODULE TodoApp -------------------------------
(* The todo page of 2026-09-21-rust-wasm-todo: AppState in every open tab,  *)
(* every change written whole to localStorage, which is only read when a    *)
(* tab starts.  The storage holds text: one line per todo, tab-separated,   *)
(* with the todo's text escaped.                                            *)
EXTENDS Naturals, Sequences, SequencesExt, FiniteSets, TLC

CONSTANTS Tabs,      \* browser tabs on the page
          Todos,     \* what users type: sequences of characters, special ones by name
          Filters,   \* the filters they use: all, active, completed
          MaxAdds    \* bound: todos added

Tab == "tab"
Newline  == "nl"
CR  == "cr"
BS  == "bs"
Blank == {" ", Tab, Newline, CR}

\* Numbers are printed differently, flags too, and not as a special character.
ASSUME TodoAssumption ==
    /\ Todos \subseteq Seq(STRING) /\ MaxAdds \in Nat
    /\ \A m, n \in 1 .. MaxAdds : ToString(m) = ToString(n) => m = n
    /\ ToString(TRUE) # ToString(FALSE)
    /\ \A x \in (1 .. MaxAdds) : ToString(x) \notin {Tab, Newline, CR, BS}
    /\ \A x \in BOOLEAN : ToString(x) \notin {Tab, Newline, CR, BS}

VARIABLES state,     \* per tab: its AppState, or a tab that is closed
          hash,      \* per tab: location.hash; "hashchange" comes later
          storage,   \* the text in localStorage
          adds       \* todos added so far

tabs == <<state, hash, storage, adds>>

New == [todos |-> << >>, filter |-> "all", next_id |-> 1]
Closed == [todos |-> << >>, filter |-> "closed", next_id |-> 0]
Open(w) == state[w].filter # "closed"

matches(f, done) == f = "all" \/ (f = "completed" <=> done)
visible(st) == {k \in DOMAIN st.todos : matches(st.filter, st.todos[k].done)}

\* The ids that a rendered page has a checkbox and a button for.
render(st) == {st.todos[k].id : k \in visible(st)}

\* Vec::retain and filter: the elements at the places K, in their order.
retain(s, K) ==
    LET upto[i \in 0 .. Len(s)] ==
          IF i = 0 THEN << >>
          ELSE IF i \in K THEN Append(upto[i - 1], s[i]) ELSE upto[i - 1]
    IN upto[Len(s)]

\* A click on the first todo with that id; all of them go with remove.
toggle(st, id) ==
    LET at == Min({k \in DOMAIN st.todos : st.todos[k].id = id})
    IN [st EXCEPT !.todos[at].done = ~@]
remove(st, id) == [st EXCEPT !.todos = retain(@, {k \in DOMAIN @ : @[k].id # id})]
clear_completed(st) == [st EXCEPT !.todos = retain(@, {k \in DOMAIN @ : ~@[k].done})]

\* str::trim.
Trimmed(s) == LET solid == {i \in DOMAIN s : s[i] \notin Blank}
              IN IF solid = {} THEN << >> ELSE SubSeq(s, Min(solid), Max(solid))

escape(s) == FlattenSeq([k \in DOMAIN s |-> CASE s[k] = BS -> <<BS, BS>>
                                             [] s[k] = Tab -> <<BS, "t">>
                                             [] s[k] = Newline -> <<BS, "n">>
                                             [] OTHER -> <<s[k]>>])

\* The loop over the characters: a backslash takes the next one with it.
unescape(s) ==
    LET from[i \in 1 .. Len(s) + 1] ==
          IF i > Len(s) THEN << >>
          ELSE IF s[i] # BS \/ i = Len(s) THEN <<s[i]>> \o from[i + 1]
          ELSE (CASE s[i + 1] = "t" -> <<Tab>> [] s[i + 1] = "n" -> <<Newline>> [] s[i + 1] = BS -> <<BS>>
                  [] OTHER -> <<BS, s[i + 1]>>) \o from[i + 2]
    IN from[1]

row(t) == <<ToString(t.id), Tab, ToString(t.done), Tab>> \o escape(t.text)

\* A newline behind every row but the last.
serialize(st) ==
    LET rows == FlattenSeq([k \in DOMAIN st.todos |-> row(st.todos[k]) \o <<Newline>>])
    IN SubSeq(rows, 1, Len(rows) - 1)

\* str::lines: a line ends at a newline, which takes a carriage return with
\* it, or where the text ends.
lines(s) ==
    LET end(i) == Min({j \in i .. Len(s) + 1 : j = Len(s) + 1 \/ s[j] = Newline})
        line(i) == SubSeq(s, i, end(i) - (IF end(i) <= Len(s) /\ end(i) > i /\ s[end(i) - 1] = CR
                                          THEN 2 ELSE 1))
        from[i \in 1 .. Len(s) + 2] ==
          IF i > Len(s) THEN << >> ELSE <<line(i)>> \o from[end(i) + 1]
    IN from[1]

\* Lines without two tabs, or whose first fields do not parse, are skipped.
Good(l) == /\ Len(l) >= 4 /\ l[2] = Tab /\ l[4] = Tab
           /\ \E n \in 1 .. MaxAdds : ToString(n) = l[1]
           /\ l[3] \in {ToString(TRUE), ToString(FALSE)}
Parsed(l) == [id |-> CHOOSE n \in 1 .. MaxAdds : ToString(n) = l[1],
              done |-> l[3] = ToString(TRUE), text |-> unescape(SubSeq(l, 5, Len(l)))]
Rows(s) ==
    LET kept == retain(lines(s), {k \in DOMAIN lines(s) : Good(lines(s)[k])})
    IN [k \in DOMAIN kept |-> Parsed(kept[k])]

\* As deserialize, numbering from the length of the list.
deserialize_Count(s) == [New EXCEPT !.todos = Rows(s), !.next_id = Len(Rows(s)) + 1]

deserialize(s) ==
    [New EXCEPT !.todos = Rows(s),
                !.next_id = Max({1} \cup {Rows(s)[k].id + 1 : k \in DOMAIN Rows(s)})]

TodoInit ==
    /\ state = [w \in Tabs |-> Closed] /\ hash = [w \in Tabs |-> "all"]
    /\ storage = << >> /\ adds = 0

\* The page is loaded, with whatever hash its address has, and starts empty
\* when the storage is blocked.
start(w) ==
    /\ ~Open(w)
    /\ \E f \in Filters, initial \in {deserialize(storage), New} :
         /\ hash' = [hash EXCEPT ![w] = f]
         /\ state' = [state EXCEPT ![w] = [initial EXCEPT !.filter = f]]
    /\ UNCHANGED <<storage, adds>>

CloseTab(w) ==
    /\ Open(w) /\ state' = [state EXCEPT ![w] = Closed] /\ hash' = [hash EXCEPT ![w] = "all"]
    /\ UNCHANGED <<storage, adds>>

\* A handler changes the tab's state and persists it; a storage that is full
\* or blocked is ignored.
Change(w, st) ==
    /\ state' = [state EXCEPT ![w] = st]
    /\ storage' \in {storage, serialize(st)}

\* As add, taking the text as typed.
add_Untrimmed(st, text) ==
    [st EXCEPT !.todos = Append(@, [id |-> st.next_id, done |-> FALSE, text |-> text]),
               !.next_id = @ + 1]

add(st, text) ==
    [st EXCEPT !.todos = Append(@, [id |-> st.next_id, done |-> FALSE, text |-> Trimmed(text)]),
               !.next_id = @ + 1]

\* Enter in the input field; blank text adds nothing.
EnterTodo(w) ==
    /\ Open(w) /\ adds < MaxAdds
    /\ \E text \in Todos : Trimmed(text) # << >> /\ Change(w, add(state[w], text))
    /\ adds' = adds + 1 /\ UNCHANGED hash

ClickToggle(w) ==
    /\ Open(w) /\ \E id \in render(state[w]) : Change(w, toggle(state[w], id))
    /\ UNCHANGED <<hash, adds>>

ClickRemove(w) ==
    /\ Open(w) /\ \E id \in render(state[w]) : Change(w, remove(state[w], id))
    /\ UNCHANGED <<hash, adds>>

ClearCompleted(w) ==
    /\ Open(w) /\ Change(w, clear_completed(state[w]))
    /\ UNCHANGED <<hash, adds>>

\* A filter link changes the address now and fires hashchange in a later task.
Navigate(w) ==
    /\ Open(w) /\ \E f \in Filters \ {hash[w]} : hash' = [hash EXCEPT ![w] = f]
    /\ UNCHANGED <<state, storage, adds>>

HashChange(w) ==
    /\ Open(w) /\ state[w].filter # hash[w]
    /\ state' = [state EXCEPT ![w].filter = hash[w]]
    /\ UNCHANGED <<hash, storage, adds>>

TodoNext ==
    \E w \in Tabs :
      \/ start(w) \/ CloseTab(w) \/ EnterTodo(w) \/ ClickToggle(w) \/ ClickRemove(w)
      \/ ClearCompleted(w) \/ Navigate(w) \/ HashChange(w)

TodoSpec == TodoInit /\ [][TodoNext]_tabs

-----------------------------------------------------------------------------
(* Properties *)

\* serialize's format is "round-trippable": whatever a tab holds, and whatever
\* the storage still holds of another tab, comes back unchanged on a reload,
\* with backslashes, tabs, newlines and carriage returns in its texts.
ReloadKeeps == \A w \in Tabs : deserialize(serialize(state[w])).todos = state[w].todos

\* Ids name todos: in every tab they grow along the list and stay below the
\* next one, though tabs number on their own, overwrite each other's list and
\* number again from what they find when they are loaded.
IdsNameTodos ==
    \A w \in Tabs :
      LET ids == [k \in DOMAIN state[w].todos |-> state[w].todos[k].id]
      IN \A k \in DOMAIN ids : /\ ids[k] < state[w].next_id
                               /\ k > 1 => ids[k - 1] < ids[k]
=============================================================================

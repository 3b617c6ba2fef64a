----------------------------- MODULE NotesBoard -----------------------------
(* The notes board of 2026-10-29-rust-simple-web-app: a list behind a mutex *)
(* and a page whose delete buttons name a note by its place in the list at  *)
(* the time the page was rendered.  A note's text arrives as a form field   *)
(* that the browser has percent-encoded.                                    *)
EXTENDS Naturals, Sequences, SequencesExt, FiniteSets

CONSTANTS Users,     \* browsers
          Texts,     \* what users type: sequences of characters
          Limit,     \* characters that a note keeps: 280
          MaxNotes   \* bound: notes ever added

ASSUME BoardAssumption == Texts \subseteq Seq(STRING) /\ Limit \in Nat \ {0}

Pct == "%"    \* the characters that decoding looks at, with a hex digit for
Spc == " "    \* each character that a browser encodes
Plus == "+"
Amp == "&"
Eq == "="
Digits(c) == CASE c = Pct -> <<"2", "5">> [] c = Plus -> <<"2", "B">>
               [] c = Amp -> <<"2", "6">> [] c = Eq -> <<"3", "D">>
Encoded == {Pct, Plus, Amp, Eq}
Hex == {"2", "3", "5", "6", "B", "D"}

\* A form field as browsers send it.
urlencode(s) == FlattenSeq([k \in DOMAIN s |->
                   IF s[k] = Spc THEN <<Plus>>
                   ELSE IF s[k] \in Encoded THEN <<Pct>> \o Digits(s[k]) ELSE <<s[k]>>])

Byte(h, l) == CHOOSE c \in Encoded \cup {"byte"} :
                IF \E e \in Encoded : Digits(e) = <<h, l>> THEN c \in Encoded /\ Digits(c) = <<h, l>>
                ELSE c = "byte"

\* As percent_decode, wanting a byte after the escape.
percent_decode_Short(b) ==
    LET from[i \in 1 .. Len(b) + 1] ==
          IF i > Len(b) THEN << >>
          ELSE CASE b[i] = Plus -> <<Spc>> \o from[i + 1]
                 [] b[i] = Pct /\ i + 3 <= Len(b) /\ b[i + 1] \in Hex /\ b[i + 2] \in Hex ->
                      <<Byte(b[i + 1], b[i + 2])>> \o from[i + 3]
                 [] OTHER -> <<b[i]>> \o from[i + 1]
    IN from[1]

\* The loop over the bytes: '+' is a space, '%' with two hex digits behind it
\* is the byte they name, and anything else is itself.
percent_decode(b) ==
    LET from[i \in 1 .. Len(b) + 1] ==
          IF i > Len(b) THEN << >>
          ELSE CASE b[i] = Plus -> <<Spc>> \o from[i + 1]
                 [] b[i] = Pct /\ i + 2 <= Len(b) /\ b[i + 1] \in Hex /\ b[i + 2] \in Hex ->
                      <<Byte(b[i + 1], b[i + 2])>> \o from[i + 3]
                 [] OTHER -> <<b[i]>> \o from[i + 1]
    IN from[1]

\* The value of a field: fields are cut at '&', a field at its first '=', both
\* sides are decoded after that, and of two equal names the last one counts.
parse_form(body, name) ==
    LET end      == Len(body) + 1
        cuts     == {i \in DOMAIN body : body[i] = Amp}
        field(a) == SubSeq(body, a + 1, Min({i \in cuts \cup {end} : i > a}) - 1)
        cut(f)   == IF Eq \in ToSet(f) THEN Min({i \in DOMAIN f : f[i] = Eq}) ELSE Len(f) + 1
        named    == {a \in cuts \cup {0} : field(a) # << >>
                       /\ percent_decode(SubSeq(field(a), 1, cut(field(a)) - 1)) = name}
    IN IF named = {} THEN << >>
       ELSE LET f == field(Max(named)) IN percent_decode(SubSeq(f, cut(f) + 1, Len(f)))

\* str::trim.
trim(s) == LET solid == {i \in DOMAIN s : s[i] # Spc}
           IN IF solid = {} THEN << >> ELSE SubSeq(s, Min(solid), Max(solid))

VARIABLES notes,     \* App.notes, each [text, n] where n tells notes apart
          added,     \* notes added so far
          page,      \* per user: the list as rendered on the page it looks at
          sent       \* per user: the request on its way, or the last status

board == <<notes, added, page, sent>>

Name == <<"t">>

BoardInit ==
    /\ notes = << >> /\ added = 0
    /\ page = [u \in Users |-> << >>]
    /\ sent = [u \in Users |-> [kind |-> "idle", status |-> 303]]

\* The browser follows a redirect or is reloaded: GET /, render_index.
GetIndex(u) ==
    /\ sent[u].kind = "idle"
    /\ page' = [page EXCEPT ![u] = notes]
    /\ UNCHANGED <<notes, added, sent>>

\* The form is submitted; another user's request may be handled first.
SubmitNote(u) ==
    /\ sent[u].kind = "idle"
    /\ \E t \in Texts :
         sent' = [sent EXCEPT ![u] =
                    [kind |-> "add", typed |-> t, body |-> Name \o <<Eq>> \o urlencode(t)]]
    /\ UNCHANGED <<notes, added, page>>

\* A delete button is pressed; the form holds the note's place on the page.
PressDelete(u) ==
    /\ sent[u].kind = "idle"
    /\ \E i \in DOMAIN page[u] : sent' = [sent EXCEPT ![u] = [kind |-> "delete", i |-> i]]
    /\ UNCHANGED <<notes, added, page>>

Respond(u, s) == sent' = [sent EXCEPT ![u] = [kind |-> "idle", status |-> s]]

\* The note that a form makes.
Note(body) == [text |-> LET t == trim(parse_form(body, Name)) IN SubSeq(t, 1, Min({Limit, Len(t)})),
               n |-> added]

\* As PostNote, with new notes on top.
PostNote_OnTop(u) ==
    /\ sent[u].kind = "add" /\ added < MaxNotes
    /\ IF Note(sent[u].body).text # << >>
       THEN notes' = <<Note(sent[u].body)>> \o notes /\ added' = added + 1 /\ Respond(u, 303)
       ELSE UNCHANGED <<notes, added>> /\ Respond(u, 400)
    /\ UNCHANGED page

\* POST /notes.
PostNote(u) ==
    /\ sent[u].kind = "add" /\ added < MaxNotes
    /\ IF Note(sent[u].body).text # << >>
       THEN notes' = Append(notes, Note(sent[u].body)) /\ added' = added + 1 /\ Respond(u, 303)
       ELSE UNCHANGED <<notes, added>> /\ Respond(u, 400)
    /\ UNCHANGED page

\* parse_request gives up: the request is malformed, cut short, late, or its
\* body too long.  Nothing reaches the board.
Refused(u) ==
    /\ sent[u].kind # "idle"
    /\ \E s \in {400, 413} : Respond(u, s)
    /\ UNCHANGED <<notes, added, page>>

\* POST /notes/delete.
PostDelete(u) ==
    /\ sent[u].kind = "delete"
    /\ IF sent[u].i <= Len(notes)
       THEN notes' = RemoveAt(notes, sent[u].i) /\ Respond(u, 303)
       ELSE UNCHANGED notes /\ Respond(u, 400)
    /\ UNCHANGED <<added, page>>

BoardNext == \E u \in Users :
          \/ GetIndex(u) \/ SubmitNote(u) \/ PressDelete(u)
          \/ PostNote(u) \/ Refused(u) \/ PostDelete(u)

BoardSpec == BoardInit /\ [][BoardNext]_board

-----------------------------------------------------------------------------
(* Properties *)

\* Places are stale names.  A delete that hits another note than the one
\* shown in that place does so only because a note that was on the page has
\* been deleted since; notes added since never shift anything.
DeletesShown ==
    \A u \in Users :
      PostDelete(u) /\ notes' # notes =>
        \/ notes[sent[u].i] = page[u][sent[u].i]
        \/ ~(ToSet(page[u]) \subseteq ToSet(notes))
DeletesWhatWasShown == [][DeletesShown]_board

\* What parse_form and percent_decode make of a form is what the user typed:
\* a note is its text, trimmed and cut, and only a blank text is refused.
StoresTyped ==
    \A u \in Users :
      PostNote(u) => LET text == trim(sent[u].typed)
                     IN IF text = << >> THEN notes' = notes
                        ELSE \E m \in ToSet(notes') :
                               /\ m.n = added
                               /\ m.text = SubSeq(text, 1, Min({Limit, Len(text)}))
StoresWhatWasTyped == [][StoresTyped]_board
=============================================================================

----------------------------- MODULE TextEditor -----------------------------
(* The editor of 2026-08-04-rust-text-editor: Row, Document and the key     *)
(* loop of Editor with its two prompts.  Rows are sequences of characters;  *)
(* cursor and offset count from 0 as in the code.  Drawing is left out.     *)
EXTENDS Naturals, Sequences, SequencesExt, FiniteSetsExt

CONSTANTS Chars,      \* characters that are typed
          Dotted,     \* the ones whose lower case is two characters
          Files,      \* what the file may hold: sequences of rows
          ScreenWidth, ScreenHeight,  \* of the text area
          QuitTimes,  \* QUIT_TIMES
          MaxEdits, MaxQuery  \* bounds: edits, length of a search

ASSUME EditorAssumption ==
    /\ Chars \subseteq STRING /\ Files \subseteq Seq(Seq(STRING))
    /\ ScreenWidth \in Nat \ {0} /\ ScreenHeight \in Nat \ {0} /\ QuitTimes \in Nat

NL == "nl"

VARIABLES rows, named, dirty,   \* Document
          cursor, offset,       \* Editor: cursor_position, offset
          quits, quit,          \* Editor: quit_times, should_quit
          mode,                 \* "edit", or the prompt that is open with its state
          disk, failed,         \* rows in the file; whether the last save failed
          edits, presses        \* edits so far; consecutive presses of Ctrl-Q

editor == <<rows, named, dirty, cursor, offset, quits, quit, mode, disk, failed, edits, presses>>
doc  == <<rows, named, dirty, disk, failed, edits>>

len(y) == IF y < Len(rows) THEN Len(rows[y + 1]) ELSE 0
At(x, y) == [x |-> x, y |-> y]
EditMode == [prompt |-> "none", query |-> << >>, old |-> At(0, 0)]

\* Document::open, or an unnamed empty document when there is no file to read.
EditorInit ==
    /\ disk \in Files /\ named \in BOOLEAN /\ rows = IF named THEN disk ELSE << >>
    /\ dirty = FALSE /\ cursor = At(0, 0) /\ offset = At(0, 0)
    /\ quits = QuitTimes /\ quit = FALSE /\ mode = EditMode /\ edits = 0 /\ presses = 0
    /\ failed = FALSE

lowercase(s) == FlattenSeq([k \in DOMAIN s |-> IF s[k] \in Dotted THEN <<s[k], "dot">> ELSE <<s[k]>>])

\* Row::find on row r: the count of lower-case characters before the first
\* match at or behind from, or none.
RowFind(r, query, from) ==
    IF query = << >> \/ from > Len(r) THEN {}
    ELSE LET hay  == lowercase(SubSeq(r, from + 1, Len(r)))
             q    == lowercase(query)
             hits == {k \in 0 .. Len(hay) : IsPrefix(q, SubSeq(hay, k + 1, Len(hay)))}
         IN IF hits = {} THEN {} ELSE {from + Min(hits)}

\* Document::find: from the cursor down, then from the top.
find(query, from) ==
    LET start(y) == IF y = from.y THEN from.x ELSE 0
        below == {y \in from.y .. Len(rows) - 1 : RowFind(rows[y + 1], query, start(y)) # {}}
        above == {y \in 0 .. Min({from.y, Len(rows)}) - 1 : RowFind(rows[y + 1], query, 0) # {}}
    IN IF below # {} THEN {At(x, Min(below)) : x \in RowFind(rows[Min(below) + 1], query, start(Min(below)))}
       ELSE IF above # {} THEN {At(x, Min(above)) : x \in RowFind(rows[Min(above) + 1], query, 0)}
       ELSE {}

\* Where a key takes the cursor in document rs, clamped to the row it lands on.
Moved(rs, c, key) ==
    LET w(y) == IF y < Len(rs) THEN Len(rs[y + 1]) ELSE 0
        to   == CASE key = "Up" -> At(c.x, IF c.y = 0 THEN 0 ELSE c.y - 1)
                  [] key = "Down" -> At(c.x, Min({c.y + 1, Len(rs)}))
                  [] key = "Left" -> IF c.x > 0 THEN At(c.x - 1, c.y)
                                     ELSE IF c.y > 0 THEN At(w(c.y - 1), c.y - 1) ELSE c
                  [] key = "Right" -> IF c.x < w(c.y) THEN At(c.x + 1, c.y)
                                      ELSE IF c.y < Len(rs) THEN At(0, c.y + 1) ELSE c
                  [] key = "PageUp" -> At(c.x, IF c.y < ScreenHeight THEN 0 ELSE c.y - ScreenHeight)
                  [] key = "PageDown" -> At(c.x, Min({c.y + ScreenHeight, Len(rs)}))
                  [] key = "Home" -> At(0, c.y)
                  [] key = "End" -> At(w(c.y), c.y)
    IN At(Min({to.x, w(to.y)}), to.y)

\* As Scrolled, one column or row too late.
Scrolled_Late(at, off, size) ==
    IF at < off THEN at ELSE IF at > off + size THEN at - size + 1 ELSE off

\* scroll along one axis.
Scrolled(at, off, size) ==
    IF at < off THEN at ELSE IF at >= off + size THEN at - size + 1 ELSE off

\* The cursor is set and the view follows it.
PutCursor(c) ==
    /\ cursor' = c
    /\ offset' = At(Scrolled(c.x, offset.x, ScreenWidth), Scrolled(c.y, offset.y, ScreenHeight))

\* The end of process_keypress: any other key starts the count anew.
KeyDone == presses' = 0 /\ quits' = QuitTimes

Editing == mode = EditMode /\ ~quit

Move ==
    /\ Editing
    /\ \E key \in {"Up", "Down", "Left", "Right", "PageUp", "PageDown", "Home", "End"} :
         PutCursor(Moved(rows, cursor, key))
    /\ KeyDone /\ UNCHANGED <<doc, quit, mode>>

\* A change of the text: rows become rs and the cursor c.
Edit(rs, c) ==
    /\ Editing /\ edits < MaxEdits /\ edits' = edits + 1
    /\ rows' = rs /\ PutCursor(c) /\ KeyDone
    /\ UNCHANGED <<named, quit, mode, disk, failed>>

\* Row::insert and Document::insert; past the last row a new one is pushed.
InsertChar ==
    /\ \E ch \in Chars :
         LET x  == Min({cursor.x, len(cursor.y)})
             rs == IF cursor.y = Len(rows) THEN Append(rows, <<ch>>)
                   ELSE [rows EXCEPT ![cursor.y + 1] = InsertAt(@, x + 1, ch)]
         IN Edit(rs, Moved(rs, cursor, "Right"))
    /\ dirty' = TRUE

\* Row::split, or a new empty row past the last one.
InsertNewline ==
    /\ LET y  == cursor.y
           x  == Min({cursor.x, len(y)})
           rs == IF y = Len(rows) THEN Append(rows, << >>)
                 ELSE SubSeq(rows, 1, y) \o <<SubSeq(rows[y + 1], 1, x), SubSeq(rows[y + 1], x + 1, len(y))>>
                      \o SubSeq(rows, y + 2, Len(rows))
       IN Edit(rs, Moved(rs, cursor, "Right"))
    /\ dirty' = TRUE

\* As Deleted, leaving the next row where it is at the end of a row.
Deleted_NoJoin(c) ==
    IF c.y < Len(rows) /\ c.x < len(c.y) THEN [rows EXCEPT ![c.y + 1] = RemoveAt(@, c.x + 1)] ELSE rows

\* Document::delete: at the end of a row the next one is joined to it.
Deleted(c) ==
    CASE c.y < Len(rows) /\ c.x = len(c.y) /\ c.y + 1 < Len(rows) ->
           SubSeq(rows, 1, c.y) \o <<rows[c.y + 1] \o rows[c.y + 2]>> \o SubSeq(rows, c.y + 3, Len(rows))
      [] c.y < Len(rows) /\ c.x < len(c.y) -> [rows EXCEPT ![c.y + 1] = RemoveAt(@, c.x + 1)]
      [] OTHER -> rows

Delete ==
    /\ Edit(Deleted(cursor), cursor)
    /\ dirty' = (dirty \/ cursor.y < Len(rows))

Backspace ==
    /\ cursor # At(0, 0)
    /\ LET c == Moved(rows, cursor, "Left")
       IN Edit(Deleted(c), c) /\ dirty' = (dirty \/ c.y < Len(rows))

\* Ctrl-Q with unsaved changes only counts down; the rest of the handler is skipped.
QuitWarned ==
    /\ Editing /\ dirty /\ quits > 0
    /\ quits' = quits - 1 /\ presses' = presses + 1
    /\ UNCHANGED <<doc, cursor, offset, quit, mode>>

Quit ==
    /\ Editing /\ ~(dirty /\ quits > 0)
    /\ quit' = TRUE /\ presses' = presses + 1
    /\ quits' = QuitTimes
    /\ UNCHANGED <<doc, cursor, offset, mode>>

\* Document::save: File::create fails and the file stays, or the file is
\* truncated and holds a part of the rows, or all of them.
Saved ==
    \/ disk' = rows /\ dirty' = FALSE /\ failed' = FALSE
    \/ disk' \in {disk} \cup {SubSeq(rows, 1, n) : n \in 0 .. Len(rows)} /\ failed' = TRUE /\ UNCHANGED dirty

Save ==
    /\ Editing /\ named /\ Saved /\ KeyDone
    /\ UNCHANGED <<rows, named, cursor, offset, quit, mode, edits>>

OpenPrompt(p) ==
    /\ Editing /\ mode' = [prompt |-> p, query |-> << >>, old |-> cursor]
    /\ presses' = 0 /\ UNCHANGED <<doc, cursor, offset, quits, quit>>

AskName == ~named /\ OpenPrompt("save")

\* "Save as" is confirmed or given up; a name that was entered stays even if
\* writing fails.
SaveAs ==
    /\ mode.prompt = "save" /\ mode' = EditMode
    /\ \/ named' = TRUE /\ Saved
       \/ UNCHANGED <<named, dirty, disk, failed>>
    /\ KeyDone /\ UNCHANGED <<rows, cursor, offset, quit, edits>>

AskSearch == OpenPrompt("search")

\* A key in the search prompt changes the query; the callback jumps to the
\* next match from where the cursor is.
SearchKey ==
    /\ mode.prompt = "search"
    /\ \E q \in {Append(mode.query, c) : c \in Chars} \cup {mode.query, SubSeq(mode.query, 1, Len(mode.query) - 1)} :
         /\ Len(q) <= MaxQuery /\ mode' = [mode EXCEPT !.query = q]
         /\ PutCursor(IF find(q, cursor) = {} THEN cursor ELSE CHOOSE c \in find(q, cursor) : TRUE)
    /\ UNCHANGED <<doc, quits, quit, presses>>

\* Enter stays at the match, Esc goes back.
SearchDone ==
    /\ mode.prompt = "search" /\ mode' = EditMode
    /\ \E c \in {cursor, mode.old} : PutCursor(c)
    /\ KeyDone /\ UNCHANGED <<doc, quit>>

EditorNext == \/ Move \/ InsertChar \/ InsertNewline \/ Delete \/ Backspace \/ QuitWarned \/ Quit
        \/ Save \/ AskName \/ SaveAs \/ AskSearch \/ SearchKey \/ SearchDone

EditorSpec == EditorInit /\ [][EditorNext]_editor

-----------------------------------------------------------------------------
(* Properties *)

\* The rows as the text that save writes, and the cursor as a place in it.
Flat(rs) == FlattenSeq([k \in DOMAIN rs |-> Append(rs[k], NL)])
Buffer == INSTANCE TextBuffer WITH text <- Flat(rows), point <- Len(Flat(SubSeq(rows, 1, cursor.y))) + cursor.x

\* Rows that split and join, a cursor that may stand past the last row, and
\* jumps of the search behave, key by key, as one text with a point in it.
EditsText ==
    /\ edits' # edits => /\ InsertChar => \E c \in Chars : Buffer!Type(c)
                         /\ InsertNewline => Buffer!Enter
                         /\ Delete => Buffer!Delete
                         /\ Backspace => Buffer!Backspace
    /\ UNCHANGED Buffer!vars \/ Buffer!Next
EditsAsOneText == [][EditsText]_editor

\* A session that ends with fewer presses of Ctrl-Q in a row than QUIT_TIMES,
\* and whose last save did not fail, leaves in the file what is in the buffer.
NothingLost == quit /\ presses < QuitTimes /\ ~failed => rows = IF named THEN disk ELSE << >>

\* The part of the document that is drawn has the cursor in it, after every key
\* and in prompts (in characters of the row: tabs are widened when it is drawn).
CursorOnScreen ==
    /\ cursor.x - offset.x \in 0 .. ScreenWidth - 1 /\ cursor.x >= offset.x
    /\ cursor.y - offset.y \in 0 .. ScreenHeight - 1 /\ cursor.y >= offset.y

\* Both, in the editor and in its prompts.
EditorSound == NothingLost /\ CursorOnScreen

\* LEARNING.md on the guard of unsaved changes: "Ctrl-Q to quit (three presses
\* if there are unsaved changes)".
QuitsAfterPresses == presses >= QuitTimes => quit

\* Row::find's comment: the offset it returns is "correct for any non-ASCII
\* content", so the search jumps to where the query is.
SearchShowsMatch ==
    [][SearchKey /\ find(mode'.query, cursor) # {} =>
         IsPrefix(mode'.query, SubSeq(rows[cursor'.y + 1], cursor'.x + 1, len(cursor'.y)))]_editor
=============================================================================

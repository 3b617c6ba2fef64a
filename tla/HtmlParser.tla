----------------------------- MODULE HtmlParser -----------------------------
(* The HTML parser of 2026-08-26-rust-browser-engine.  The input is a        *)
(* sequence of characters ("<!--", "-->" and "</" count as one); the         *)
(* recursion of parse_nodes and parse_element is the stack of open elements; *)
(* the tree is written down as events in document order.                     *)
EXTENDS Naturals, Sequences, SequencesExt, FiniteSetsExt

CONSTANTS Pieces,     \* what documents are made of: [text, kind, tag]
          Voids,      \* names for which is_void_element holds
          MaxPieces   \* bound: pieces of a document

VARIABLES doc, input, pos,  \* the document, its characters, Parser::pos (from 1)
          stack,            \* names of the elements whose parse_element is active
          out,              \* the nodes: <<"open", n>>, <<"end", n>>, <<"text", t>>
          pc                \* where parse is

vars == <<doc, input, pos, stack, out, pc>>

Letters == {"a", "b", "v"}
Blank == {" "}

At(p) == IF p <= Len(input) THEN input[p] ELSE "eof"

\* consume_while: the position behind the characters from p on that are not,
\* or are, among chars.
Until(p, chars) == Min({q \in p .. Len(input) + 1 : q > Len(input) \/ input[q] \in chars})
While(p, chars) == Until(p, ToSet(input) \ chars)
Space(p) == While(p, Blank)
NameEnd(p) == While(p, Letters)
Name(p) == SubSeq(input, p, NameEnd(p) - 1)

\* Where in evs the nodes without a parent start.
Tops(evs) ==
    LET count(e, n) == Cardinality({j \in 1 .. n : evs[j][1] = e})
    IN {k \in DOMAIN evs : evs[k][1] # "end" /\ count("open", k - 1) = count("end", k - 1)}

\* The end of parse: anything but a single node becomes the children of an <html>.
Root(evs) ==
    IF Cardinality(Tops(evs)) = 1 THEN evs ELSE <<<<"open", <<"html">>>>>> \o evs \o <<<<"end", <<"html">>>>>>

Init ==
    /\ doc \in UNION {[1 .. n -> Pieces] : n \in 1 .. MaxPieces}
    /\ \A k \in DOMAIN doc : doc[k].kind = "cut" => k = Len(doc)    \* it may end inside a tag
    /\ input = FlattenSeq([k \in DOMAIN doc |-> doc[k].text])
    /\ pos = 1 /\ stack = << >> /\ out = << >> /\ pc = "nodes"

\* One turn of the loop of parse_nodes.
Nodes ==
    /\ pc = "nodes"
    /\ LET p == Space(pos)
       IN \/ /\ At(p) \in {"eof", "</"}
             /\ pos' = p /\ pc' = "close" /\ UNCHANGED <<stack, out>>
          \/ /\ At(p) = "<!--"        \* consume_comment
             /\ LET q == Until(p, {"-->"}) IN pos' = IF q > Len(input) THEN q ELSE q + 1
             /\ UNCHANGED <<stack, out, pc>>
          \/ /\ At(p) = "<"
             /\ pos' = NameEnd(p + 1) /\ stack' = Append(stack, Name(p + 1))
             /\ out' = Append(out, <<"open", Name(p + 1)>>) /\ pc' = "attributes"
          \/ /\ ~(At(p) \in {"eof", "</", "<!--", "<"})      \* parse_text
             /\ pos' = Until(p, {"<", "</", "<!--"})
             /\ out' = Append(out, <<"text", SubSeq(input, p, pos' - 1)>>)
             /\ UNCHANGED <<stack, pc>>
    /\ UNCHANGED <<doc, input>>

TagEnds(p) == At(p) \in {">", "eof"} \/ (At(p) = "/" /\ At(p + 1) = ">")

\* parse_attribute_value from p: where it ends.
ValueEnd(p) ==
    IF At(p) # "q" THEN Until(p, Blank \cup {">"})
    ELSE LET e == Until(p + 1, {"q"}) IN IF e > Len(input) THEN e ELSE e + 1

\* parse_attribute from p: where it ends.
AttributeEnd(p) ==
    LET n == Space(Until(p, Blank \cup {"=", ">", "/"}))
    IN IF At(n) = "=" THEN ValueEnd(Space(n + 1)) ELSE n

\* One turn of the loop of parse_attributes.
Attributes ==
    /\ pc = "attributes"
    /\ LET p == Space(pos)
       IN IF TagEnds(p) THEN pos' = p /\ pc' = "tagend" ELSE pos' = AttributeEnd(p) /\ UNCHANGED pc
    /\ UNCHANGED <<doc, input, stack, out>>

\* parse_element returns its node.
Return == stack' = Front(stack) /\ out' = Append(out, <<"end", Last(stack)>>) /\ pc' = "nodes"

\* The rest of the opening tag; at the end of the input consume_char panics.
TagEnd ==
    /\ pc = "tagend"
    /\ \/ At(pos) = "/" /\ pos' = pos + 2 /\ Return
       \/ At(pos) = ">" /\ Last(stack) \in Voids /\ pos' = pos + 1 /\ Return
       \/ At(pos) = ">" /\ ~(Last(stack) \in Voids) /\ pos' = pos + 1 /\ pc' = "nodes" /\ UNCHANGED <<stack, out>>
       \/ At(pos) = "eof" /\ pc' = "panic" /\ UNCHANGED <<pos, stack, out>>
    /\ UNCHANGED <<doc, input>>

\* As AfterClose, going on behind a closing tag that does not match.
AfterClose_NoRestore(p) ==
    LET e == Space(NameEnd(p + 1)) IN IF At(p) = "</" THEN (IF At(e) = ">" THEN e + 1 ELSE e) ELSE p

\* Where the innermost open element leaves the parser, at p behind its children.
AfterClose(p) ==
    LET e == Space(NameEnd(p + 1))
    IN IF At(p) = "</" /\ Name(p + 1) = Last(stack) THEN (IF At(e) = ">" THEN e + 1 ELSE e) ELSE p

\* parse_nodes has returned, to parse_element or to parse.
Close ==
    /\ pc = "close"
    /\ \/ stack # << >> /\ pos' = AfterClose(pos) /\ Return
       \/ stack = << >> /\ pc' = "done" /\ out' = Root(out) /\ UNCHANGED <<pos, stack>>
    /\ UNCHANGED <<doc, input>>

Next == Nodes \/ Attributes \/ TagEnd \/ Close
Spec == Init /\ [][Next]_vars

-----------------------------------------------------------------------------
(* Properties *)

\* The tree the tags say, read once from left to right: a closing tag ends
\* everything up to the innermost open element of its name and is ignored if
\* there is none.  s is [open, out, run, tops, stray]: the names of the open
\* elements, the events, whether the last piece was text, the number of nodes
\* without a parent, and whether a closing tag was ignored.
Read(s, piece) ==
    LET ends(n) == [k \in 1 .. n |-> <<"end", s.open[Len(s.open) - k + 1]>>]
        same == {k \in DOMAIN s.open : s.open[k] = piece.tag}
        put(ev) == [s EXCEPT !.out = @ \o ev, !.run = piece.kind = "text"]
        node(ev) == [put(ev) EXCEPT !.tops = IF s.open = << >> THEN @ + 1 ELSE @]
    IN CASE piece.kind \in {"skip", "cut"} -> put(<< >>)
         [] piece.kind = "text" /\ s.run -> [s EXCEPT !.out[Len(s.out)][2] = @ \o piece.text]
         [] piece.kind = "text" /\ ~s.run -> node(<<<<"text", piece.text>>>>)
         [] piece.kind = "single" -> node(<<<<"open", piece.tag>>, <<"end", piece.tag>>>>)
         [] piece.kind = "open" -> [node(<<<<"open", piece.tag>>>>) EXCEPT !.open = Append(@, piece.tag)]
         [] piece.kind = "close" /\ same = {} -> [put(<< >>) EXCEPT !.stray = TRUE]
         [] piece.kind = "close" /\ same # {} ->
              [put(ends(Len(s.open) - Max(same) + 1)) EXCEPT !.open = SubSeq(@, 1, Max(same) - 1)]

AllRead == FoldLeft(Read, [open |-> << >>, out |-> << >>, run |-> FALSE, tops |-> 0, stray |-> FALSE], doc)

\* With what is left open ended, under one root.
Tree ==
    LET s == AllRead
        evs == s.out \o [k \in DOMAIN s.open |-> <<"end", s.open[Len(s.open) - k + 1]>>]
        html == <<"html">>
    IN IF s.tops = 1 THEN evs ELSE <<<<"open", html>>>> \o evs \o <<<<"end", html>>>>

\* The parser that reads a closing tag again at every level until an element
\* takes it builds the tree that the tags say, whatever is left open, closed
\* out of order, commented out or written with attributes, in a document each
\* of whose closing tags has an open element to close.
ParsesByTags == pc = "done" /\ ~AllRead.stray => out = Tree

\* The same of every document: the header of html_parser.rs says that a closing
\* tag "is ignored if there is no ancestor to close".
StrayIgnored == pc = "done" => out = Tree
=============================================================================

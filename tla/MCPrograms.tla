----------------------------- MODULE MCPrograms -----------------------------
(* The programs that serve nobody, in one run: part says which of them a     *)
(* behaviour is of.  The store with the faults that cost it nothing, the      *)
(* linked list, the editor and the roguelike are extended and rest in an      *)
(* initial state while another part runs; the store with every fault there   *)
(* is and the others are instances and share v1 to v11, of which a part      *)
(* leaves those it does not use at Null.                                      *)
EXTENDS LsmStore, LinkedList, TextEditor, Roguelike, Integers, TLC

CONSTANTS MaxIdFaulty,      \* bound: as MaxId, for the store with every fault
          Null, Auto, OtherWord

VARIABLES part, v1, v2, v3, v4, v5, v6, v7, v8, v9, v10, v11

shared == <<v1, v2, v3, v4, v5, v6, v7, v8, v9, v10, v11>>
own    == <<vars, listVars, editor, game>>
all    == <<part, shared, own>>

\* The shared variables from the seventh on, from the sixth on, and all.
Unused7 == v7 = Null /\ v8 = Null /\ v9 = Null /\ v10 = Null /\ v11 = Null
Unused6 == v6 = Null /\ Unused7
Unused  == v1 = Null /\ v2 = Null /\ v3 = Null /\ v4 = Null /\ v5 = Null /\ Unused6
tail7   == <<v7, v8, v9, v10, v11>>
tail6   == <<v6, tail7>>

Faulty == INSTANCE LsmFaults WITH
            MaxId <- MaxIdFaulty, Faults <- AllFaults,
            wal <- v1, ondisk <- v2, data <- v3, torn <- v4, mt <- v5, tables <- v6, lost <- v7,
            nextId <- v8, nolog <- v9, pc <- v10, acked <- v11

\* The file that the editor opens: two rows.
File == {<<<<"a">>, <<"b", "a">>>>}

Cpu == INSTANCE Cpu6502 WITH
         Bytes <- {0, 127, 128, 255}, Indexes <- {0, 255}, Stacks <- {0, 253}, MaxSteps <- 4,
         cpu <- v1, ran <- v2, frames <- v3, steps <- v4, halted <- v5

\* What the list's callers write through a &mut T.
NextOf3(e) == (e + 1) % 3

\* Pieces of documents: tags with attributes, quotes and blanks, void and
\* self-closing ones, a comment with a tag in it, and one cut short.
P(text, kind, tag) == [text |-> text, kind |-> kind, tag |-> tag]
Html == INSTANCE HtmlParser WITH
          Pieces <- {P(<<"<", "a", ">">>, "open", <<"a">>),
                     P(<<"<", "b", " ", "a", " ", "=", "q", "b", " ", ">", "q", " ", ">">>, "open", <<"b">>),
                     P(<<"<", "v", "=", "a", ">">>, "single", <<"v">>),
                     P(<<"<", "a", " ", "a", "/", ">">>, "single", <<"a">>),
                     P(<<"</", "a", " ", ">">>, "close", <<"a">>), P(<<"</", "b", ">">>, "close", <<"b">>),
                     P(<<"a">>, "text", << >>), P(<<"<!--", "<", "a", "-->">>, "skip", << >>),
                     P(<<"<", "a">>, "cut", << >>)},
          Voids <- {<<"v">>}, MaxPieces <- 4,
          doc <- v1, input <- v2, pos <- v3, stack <- v4, out <- v5, pc <- v6

S(tag, id, class) == [tag |-> tag, id |-> id, class |-> class]
Style == INSTANCE StyleCascade WITH
           Selectors <- {S({}, {}, << >>), S({"p"}, {}, << >>), S({}, {}, <<"c">>),
                         S({"p"}, {}, <<"c", "d">>), S({}, {"i"}, << >>), S({"q"}, {"i"}, << >>)},
           Elements <- {[tag |-> "p", id |-> {"i"}, classes |-> {"c", "d"}],
                        [tag |-> "p", id |-> {}, classes |-> {"c"}]},
           Names <- {"m"}, MaxRules <- 2,
           rules <- v1, elem <- v2, todo <- v3, values <- v4, pc <- v5

\* Blocks in a block, with or without a width, with margins that are auto or
\* another keyword, with a background, a border or both, and inline boxes before
\* and behind them; Tall has a child that sticks out, over what comes next.
NoStyle == [n \in {} |-> Auto]
Block == "display" :> "block"
Red == "background" :> "red"
Frame == ("border-width" :> 2) @@ ("border-color" :> "blue")
Node(style, kids) == [style |-> style, kids |-> kids]
Opt(n, vals) == {NoStyle} \cup {n :> x : x \in vals}
Blocks == {Node(Block @@ w @@ l @@ r @@ o, << >>) :
             w \in Opt("width", {4, 12, OtherWord}), l \in Opt("margin-left", {Auto, 2}), r \in Opt("margin-right", {Auto, OtherWord}),
             o \in {("height" :> 2) @@ Red @@ Frame, "margin" :> Auto, ("padding" :> 2) @@ Frame}}
Tall == Node(Block @@ Red @@ Frame @@ ("height" :> 2), <<Node(Block @@ ("height" :> 8) @@ ("background" :> "green"), << >>)>>)
Behind == {Node(Block @@ ("height" :> 2) @@ ("background" :> "yellow") @@ l, << >>) : l \in Opt("margin-left", {Auto, 2})}
Inline == Node(NoStyle, << >>)
Gone == Node("display" :> "none", << >>)
Kids == {<<a>> : a \in Blocks} \cup {<<Inline, a, Inline, Inline>> : a \in Blocks}
        \cup {<<a, Inline, Gone, Inline, b>> : a \in Blocks \cup {Tall}, b \in Behind}
Roots == {NoStyle, Red @@ ("height" :> 2) @@ Frame,
          ("background" :> "grey") @@ ("margin-left" :> 2) @@ ("padding-top" :> 2)}
Layout == INSTANCE BlockLayout WITH
            Trees <- {Node(Block @@ s, k) : s \in Roots, k \in Kids},
            Width <- 4, Height <- 3,
            root <- v1, box <- v2, list <- v3, canvas <- v4, pc <- v5

Evo == INSTANCE Evolution WITH
         N <- 2, Foods <- 1, Places <- 2, Cells <- 1, Length <- 2, Coins <- {{1, 4, 6}, {2}}, Mutated <- {{3}, {}},
         MaxGenerations <- 2,
         animals <- v1, foods <- v2, age <- v3, stats <- v4, meals <- v5, generation <- v6

ASSUME Evo!SizesAssumption

\* The parts that are extended, at rest.
RestsButEditor == Init /\ ListInit /\ RogueInit
Rests == RestsButEditor /\ EditorInit /\ named

ProgramsInit ==
    \/ part = "editor" /\ Unused /\ EditorInit /\ RestsButEditor
    \/ part \in {"store", "rogue", "list"} /\ Unused /\ Rests
    \/ part = "faulty" /\ Faulty!Init /\ Rests
    \/ part = "cpu" /\ Cpu!Init /\ Unused6 /\ Rests
    \/ part = "html" /\ Html!Init /\ Unused7 /\ Rests
    \/ part = "style" /\ Style!Init /\ Unused6 /\ Rests
    \/ part = "layout" /\ Layout!Init /\ Unused6 /\ Rests
    \/ part = "evolution" /\ Evo!Init /\ Unused7 /\ Rests

\* A step of a part leaves the variables of the others alone.
Of(p, A) == part = p /\ A /\ UNCHANGED <<part, own>>
OfOwn(p, A) == part = p /\ A /\ UNCHANGED <<part, shared>>

ProgramsNext ==
    \/ OfOwn("store", Next /\ UNCHANGED <<listVars, editor, game>>)
    \/ OfOwn("editor", EditorNext /\ UNCHANGED <<vars, listVars, game>>)
    \/ OfOwn("rogue", RogueNext /\ UNCHANGED <<vars, listVars, editor>>)
    \/ OfOwn("list", ListNext /\ UNCHANGED <<vars, editor, game>>)
    \/ Of("faulty", Faulty!Next)
    \/ Of("cpu", Cpu!Next /\ UNCHANGED tail6)
    \/ Of("html", Html!Next /\ UNCHANGED tail7)
    \/ Of("style", Style!Next /\ UNCHANGED tail6)
    \/ Of("layout", Layout!Next /\ UNCHANGED tail6)
    \/ Of("evolution", Evo!Next /\ UNCHANGED tail7)

ProgramsSpec == ProgramsInit /\ [][ProgramsNext]_all

-----------------------------------------------------------------------------
(* Properties: those of the parts; the store has its own Durable, ReadsLatest *)
(* and ImplementsMap, the list its own ListSound, the editor its own          *)
(* EditorSound and EditsAsOneText, the roguelike its own Connected and        *)
(* ActorsApart                                                                *)

\* On the store with every fault: torn log records, torn tables and failing
\* writes, truncations and removals cost no acknowledged value, unless a record
\* is appended behind a torn one or a table is cut short unnoticed (the
\* guarantee that the comment in wal_replay speaks of, wal.c:48).
FaultsCostNoValue == [][part = "faulty" => Faulty!CostsNoValue]_all

\* add_with_carry sets carry, overflow and sign of ADC and SBC as the true
\* signed and unsigned results say.
ArithmeticFlags == [][part = "cpu" => Cpu!FlagsAfter]_all

\* What JSR, BRK, PHA and PHP push comes back from the matching pull.
StackGivesBack == [][part = "cpu" => Cpu!GivesBack]_all

\* html_parser: the tree of a document without stray closing tags is the one
\* that the tags say.
ParsesByTags == part = "html" => Html!ParsesByTags

\* specified_values: of all declarations that reach an element the most
\* specific one decides, and of those the last.
CascadeWins == part = "style" => Style!CascadeWins

\* layout: margin boxes fill their container, one below the other.
FlowsDown == part = "layout" => Layout!FlowsDown

\* paint: each pixel shows the last box in document order that covers it.
PaintedAsLaid == part = "layout" => Layout!PaintedAsLaid

\* Network::weights, crossover, mutate and from_weights keep every weight at
\* the spot of the network it was made for, and a generation's Statistics
\* count its meals.
GenerationsSound == part = "evolution" => Evo!GenesKeepPlace /\ Evo!StatsCountMeals
=============================================================================

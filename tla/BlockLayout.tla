---------------------------- MODULE BlockLayout ----------------------------
(* Layout and painting of 2026-08-26-rust-browser-engine on small trees of   *)
(* styled nodes.  Lengths count half pixels, so that the code's underflow /  *)
(* 2.0 is exact; a style is a function on the properties that have a value,  *)
(* a length, a keyword (Auto, or OtherWord for any other) or a colour.      *)
EXTENDS Integers, Sequences, SequencesExt, FiniteSetsExt

CONSTANTS Trees,          \* styled nodes: [style, kids]
          Width, Height,  \* of the viewport
          Auto, OtherWord      \* keywords: model values

VARIABLES root,    \* StyledNode
          box,     \* LayoutBox: [type, style, dim, kids]
          list,    \* DisplayList: commands <<colour, rect>> that are left to paint
          canvas, pc

vars == <<root, box, list, canvas, pc>>

value(s, name, default) == IF name \in DOMAIN s THEN s[name] ELSE default
lookup(s, name, fallback) == value(s, name, value(s, fallback, 0))
to_px(v) == IF v \in {Auto, OtherWord} THEN 0 ELSE v
display(n) == LET d == value(n.style, "display", "inline") IN IF d \in {"block", "none"} THEN d ELSE "inline"

Edge0 == [left |-> 0, right |-> 0, top |-> 0, bottom |-> 0]
Dim0 == [x |-> 0, y |-> 0, width |-> 0, height |-> 0, padding |-> Edge0, border |-> Edge0, margin |-> Edge0]

\* Rect::expanded_by and the three boxes of Dimensions
expanded_by(r, e) == [x |-> r.x - e.left, y |-> r.y - e.top,
                      width |-> r.width + e.left + e.right, height |-> r.height + e.top + e.bottom]
border_box(d) == expanded_by(expanded_by(d, d.padding), d.border)
margin_box(d) == expanded_by(border_box(d), d.margin)

NoStyle == [p \in {} |-> Auto]
NewBox(type, style, kids) == [type |-> type, style |-> style, dim |-> Dim0, kids |-> kids]

\* get_inline_container: an inline box takes b itself, a block box in the
\* anonymous block at its end.
AddInline(type, kids, b) ==
    IF type # "block" THEN Append(kids, b)
    ELSE IF kids # << >> /\ Last(kids).type = "anonymous" THEN [kids EXCEPT ![Len(kids)].kids = Append(@, b)]
    ELSE Append(kids, NewBox("anonymous", NoStyle, <<b>>))

RECURSIVE build_layout_tree(_)
build_layout_tree(n) ==
    LET add(kids, c) == CASE display(c) = "block" -> Append(kids, build_layout_tree(c))
                          [] display(c) = "inline" -> AddInline(display(n), kids, build_layout_tree(c))
                          [] OTHER -> kids
    IN NewBox(display(n), n.style, FoldLeft(add, << >>, n.kids))

\* The match of calculate_block_width: width, left and right margin in pixels,
\* of which the ones that are auto share what the others leave of room.
Shared(width, ml, mr, under) ==
    CASE width = Auto /\ under >= 0 -> <<under, to_px(ml), to_px(mr)>>
      [] width = Auto /\ under < 0 -> <<0, to_px(ml), to_px(mr) + under>>
      [] width # Auto /\ ml # Auto /\ mr # Auto -> <<to_px(width), to_px(ml), to_px(mr) + under>>
      [] width # Auto /\ ml # Auto /\ mr = Auto -> <<to_px(width), to_px(ml), under>>
      [] width # Auto /\ ml = Auto /\ mr # Auto -> <<to_px(width), under, to_px(mr)>>
      [] width # Auto /\ ml = Auto /\ mr = Auto -> <<to_px(width), under \div 2, under \div 2>>

\* As Solve, with the auto margins of a box that is too wide kept.
Solve_KeepsAuto(width, ml, mr, total, room) == Shared(width, ml, mr, room - total)

\* The heart of calculate_block_width from the specified values; total is the
\* sum of all seven with keywords as 0.  A box that is too wide has no auto margins.
Solve(width, ml, mr, total, room) ==
    LET fixed(m) == IF width # Auto /\ total > room /\ m = Auto THEN 0 ELSE m
    IN Shared(width, fixed(ml), fixed(mr), room - total)

\* calculate_block_width and calculate_block_position for a styled box in c;
\* c.height is what c's earlier children take.
Placed(s, c) ==
    LET bd(e) == to_px(lookup(s, "border-" \o e \o "-width", "border-width"))
        pd(e) == to_px(lookup(s, "padding-" \o e, "padding"))
        mg(e) == lookup(s, "margin-" \o e, "margin")
        w  == value(s, "width", Auto)
        total == to_px(mg("left")) + to_px(mg("right")) + bd("left") + bd("right") + pd("left") + pd("right") + to_px(w)
        sol == Solve(w, mg("left"), mg("right"), total, c.width)
        edges(f(_)) == [e \in DOMAIN Edge0 |-> f(e)]
        m == [edges(LAMBDA e : to_px(mg(e))) EXCEPT !.left = sol[2], !.right = sol[3]]
    IN [x |-> c.x + m.left + bd("left") + pd("left"), y |-> c.height + c.y + m.top + bd("top") + pd("top"),
        width |-> sol[1], height |-> 0, padding |-> edges(pd), border |-> edges(bd), margin |-> m]

\* layout: inline boxes stay as they are; a block is placed, its children are
\* laid out one below the other, and an explicit height has the last word.
RECURSIVE layout(_, _)
layout(b, c) ==
    LET d0 == IF b.type = "anonymous" THEN [Dim0 EXCEPT !.x = c.x, !.y = c.height + c.y, !.width = c.width] ELSE Placed(b.style, c)
        step(acc, k) == LET lk == layout(k, acc.dim)
                        IN [dim |-> [acc.dim EXCEPT !.height = @ + margin_box(lk.dim).height], kids |-> Append(acc.kids, lk)]
        done == FoldLeft(step, [dim |-> d0, kids |-> << >>], b.kids)
        h == value(b.style, "height", Auto)
    IN IF b.type = "inline" THEN b
       ELSE [b EXCEPT !.dim = [done.dim EXCEPT !.height = IF h \in {Auto, OtherWord} THEN @ ELSE h], !.kids = done.kids]

\* render_background and render_borders of one box
Commands(b) ==
    LET d  == b.dim
        bb == border_box(d)
        bg == value(b.style, "background", "none")
        bc == value(b.style, "border-color", "none")
    IN (IF bg = "none" THEN << >> ELSE <<<<bg, bb>>>>)
       \o IF bc = "none" THEN << >>
          ELSE <<<<bc, [bb EXCEPT !.width = d.border.left]>>,
                 <<bc, [bb EXCEPT !.x = @ + bb.width - d.border.right, !.width = d.border.right]>>,
                 <<bc, [bb EXCEPT !.height = d.border.top]>>,
                 <<bc, [bb EXCEPT !.y = @ + bb.height - d.border.bottom, !.height = d.border.bottom]>>>>

\* As render_layout_box, with the last child first.
RECURSIVE render_layout_box_LastFirst(_)
render_layout_box_LastFirst(b) ==
    Commands(b) \o FlattenSeq(Reverse([k \in DOMAIN b.kids |-> render_layout_box_LastFirst(b.kids[k])]))

\* build_display_list: a box, then its children in order.
RECURSIVE render_layout_box(_)
render_layout_box(b) == Commands(b) \o FlattenSeq([k \in DOMAIN b.kids |-> render_layout_box(b.kids[k])])

\* Pixels from a to b (in half pixels) on an axis of n pixels, clamped.
Span(a, b, n) ==
    LET clamp(v) == IF v < 0 THEN 0 ELSE IF v > 2 * n THEN n ELSE v \div 2
    IN clamp(a) .. clamp(b) - 1

Init ==
    /\ root \in Trees /\ box = << >> /\ list = << >> /\ canvas = << >> /\ pc = "style"

Build == pc = "style" /\ box' = build_layout_tree(root) /\ pc' = "build" /\ UNCHANGED <<root, list, canvas>>

\* layout_tree in the viewport, whose height starts at 0
Layout ==
    /\ pc = "build" /\ pc' = "layout"
    /\ box' = layout(box, [Dim0 EXCEPT !.width = 2 * Width])
    /\ UNCHANGED <<root, list, canvas>>

\* main's page_bounds
Page == Max({Height, margin_box(box.dim).height \div 2})

\* main and paint: the canvas is as high as the page; the commands are painted in order.
Render ==
    /\ pc = "layout" /\ pc' = "paint" /\ list' = render_layout_box(box)
    /\ canvas' = [p \in (0 .. Width - 1) \X (0 .. Page - 1) |-> "white"]
    /\ UNCHANGED <<root, box>>

paint_item ==
    /\ pc = "paint" /\ list # << >> /\ list' = Tail(list)
    /\ LET r == Head(list)[2]
           hit == Span(r.x, r.x + r.width, Width) \X Span(r.y, r.y + r.height, Page)
       IN canvas' = [p \in DOMAIN canvas |-> IF p \in hit THEN Head(list)[1] ELSE canvas[p]]
    /\ UNCHANGED <<root, box, pc>>

Next == Build \/ Layout \/ Render \/ paint_item
Spec == Init /\ [][Next]_vars

-----------------------------------------------------------------------------
(* Properties *)

RECURSIVE Pairs(_)
Pairs(b) == UNION {{<<b, k>>} \cup Pairs(b.kids[k]) : k \in DOMAIN b.kids}

\* The CSS 2.1 width equation, for whichever of width and margins are auto and
\* however narrow the container: the margin box of every block is as wide as
\* its container and starts where it starts, no box that is too wide is pushed
\* out to the left, and blocks lie one below the other in document order.
FlowsDown ==
    pc \in {"layout", "paint"} =>
      /\ root.style["display"] = "block" => margin_box(box.dim).width = 2 * Width
      /\ \A p \in Pairs(box) :
           LET b == p[1]
               kids == b.kids
               mb(k) == margin_box(kids[k].dim)
           IN b.type # "inline" /\ kids[p[2]].type # "inline" =>
                /\ mb(p[2]).width = b.dim.width /\ mb(p[2]).x = b.dim.x
                /\ kids[p[2]].dim.margin.left >= 0
                /\ p[2] = 1 => mb(1).y = b.dim.y
                /\ p[2] > 1 /\ kids[p[2] - 1].type # "inline" => mb(p[2]).y = mb(p[2] - 1).y + mb(p[2] - 1).height

RECURSIVE Boxes(_)
Boxes(b) == <<b>> \o FlattenSeq([k \in DOMAIN b.kids |-> Boxes(b.kids[k])])

Covers(r, p) == p[1] \in Span(r.x, r.x + r.width, Width) /\ p[2] \in Span(r.y, r.y + r.height, Page)

\* What box b puts on pixel p: its border colour outside its padding box, its
\* background inside, nothing where it has no such colour.
Shows(b, p) ==
    LET bc == value(b.style, "border-color", "none")
    IN IF ~Covers(border_box(b.dim), p) THEN "none"
       ELSE IF bc # "none" /\ ~Covers(expanded_by(b.dim, b.dim.padding), p) THEN bc
       ELSE value(b.style, "background", "none")

\* When all commands are painted, every pixel of the page has the colour that
\* the last box in document order shows there, also where boxes leave the
\* viewport, borders meet in corners or content sticks out of its box.
PaintedAsLaid ==
    pc = "paint" /\ list = << >> => \A p \in DOMAIN canvas :
        LET bs == Boxes(box)
            on == {k \in DOMAIN bs : Shows(bs[k], p) # "none"}
        IN canvas[p] = IF on = {} THEN "white" ELSE Shows(bs[Max(on)], p)
=============================================================================

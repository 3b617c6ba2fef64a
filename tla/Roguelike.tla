----------------------------- MODULE Roguelike -----------------------------
(* The engine of 2026-10-02-rust-roguelike: Map::generate attempt by attempt *)
(* with any outcome of the generator, then Game with player_move and the     *)
(* monsters' answer.  Rendering and the log are left out.                    *)
EXTENDS Integers, Sequences, SequencesExt, FiniteSetsExt, TLC

CONSTANTS Width, Height,        \* of the map
          RoomW, RoomH,         \* the sizes rng.range gives a room
          Attempts,             \* 30 in the code
          PlayerHp, PlayerPower, OrcHp, OrcPower, Sight,
          MaxTurns              \* bound: moves of the player

ASSUME RogueAssumption ==
    /\ Width \in Nat /\ Height \in Nat /\ Attempts \in Nat \ {0}
    /\ RoomW \subseteq Nat \ {0} /\ RoomH \subseteq Nat \ {0}
    /\ \A w \in RoomW, h \in RoomH : w + 3 <= Width /\ h + 3 <= Height
    /\ {PlayerHp, PlayerPower, OrcHp, OrcPower, Sight} \subseteq Int

VARIABLES rooms, floor,         \* Map: rooms, and the tiles that are Floor
          tries,                \* turns of generate's loop that are left
          player, monsters,     \* Game
          turns

game == <<rooms, floor, tries, player, monsters, turns>>

Abs(n) == IF n < 0 THEN -n ELSE n
signum(n) == IF n < 0 THEN -1 ELSE IF n > 0 THEN 1 ELSE 0

center(r) == <<r.x + r.w \div 2, r.y + r.h \div 2>>

intersects(r, o) == r.x <= o.x + o.w /\ r.x + r.w >= o.x /\ r.y <= o.y + o.h /\ r.y + r.h >= o.y

carve_room(r) == (r.x .. r.x + r.w - 1) \X (r.y .. r.y + r.h - 1)
carve_h(x1, x2, y) == (Min({x1, x2}) .. Max({x1, x2})) \X {y}
carve_v(y1, y2, x) == {x} \X (Min({y1, y2}) .. Max({y1, y2}))

\* As Corridor, with the second arm in the column it came from.
Corridor_SameColumn(p, n, first) ==
    IF first = "h" THEN carve_h(p[1], n[1], p[2]) \cup carve_v(p[2], n[2], p[1])
    ELSE carve_v(p[2], n[2], p[1]) \cup carve_h(p[1], n[1], n[2])

\* The L from centre p to centre n.
Corridor(p, n, first) ==
    IF first = "h" THEN carve_h(p[1], n[1], p[2]) \cup carve_v(p[2], n[2], n[1])
    ELSE carve_v(p[2], n[2], p[1]) \cup carve_h(p[1], n[1], n[2])

NoActor == [pos |-> <<0, 0>>, hp |-> 0]

RogueInit == rooms = << >> /\ floor = {} /\ tries = Attempts /\ player = NoActor /\ monsters = << >> /\ turns = 0

\* One turn of the loop of generate; an overlapping room is given up.
Place ==
    /\ tries > 0 /\ tries' = tries - 1
    /\ \E w \in RoomW, h \in RoomH : \E x \in 1 .. Width - w - 2, y \in 1 .. Height - h - 2 :
         LET room == [x |-> x, y |-> y, w |-> w, h |-> h]
         IN \/ /\ \E k \in DOMAIN rooms : intersects(rooms[k], room)
               /\ UNCHANGED <<rooms, floor>>
            \/ /\ \A k \in DOMAIN rooms : ~intersects(rooms[k], room)
               /\ rooms' = Append(rooms, room)
               /\ \E first \in {"h", "v"} :
                    floor' = floor \cup carve_room(room)
                               \cup IF rooms = << >> THEN {} ELSE Corridor(center(Last(rooms)), center(room), first)
    /\ UNCHANGED <<player, monsters, turns>>

\* As Start, with an orc in the first room too.
Start_NoSkip ==
    /\ tries = 0 /\ tries' = -1
    /\ player' = [pos |-> center(rooms[1]), hp |-> PlayerHp]
    /\ \E at \in [1 .. Len(rooms) -> floor] :
         /\ \A k \in 1 .. Len(rooms) : at[k] \in carve_room(rooms[k])
         /\ monsters' = [k \in 1 .. Len(rooms) |-> [pos |-> at[k], hp |-> OrcHp]]
    /\ UNCHANGED <<rooms, floor, turns>>

\* Game::new: the player in the first room, an orc somewhere in each other.
Start ==
    /\ tries = 0 /\ tries' = -1
    /\ player' = [pos |-> center(rooms[1]), hp |-> PlayerHp]
    /\ \E at \in [2 .. Len(rooms) -> floor] :
         /\ \A k \in 2 .. Len(rooms) : at[k] \in carve_room(rooms[k])
         /\ monsters' = [k \in 1 .. Len(rooms) - 1 |-> [pos |-> at[k + 1], hp |-> OrcHp]]
    /\ UNCHANGED <<rooms, floor, turns>>

walkable(p) == p \in floor

\* monster_at: the first living monster at p, as a set of at most one index.
monster_at(ms, p) ==
    LET hit == {k \in DOMAIN ms : ms[k].pos = p /\ ms[k].hp > 0}
    IN IF hit = {} THEN {} ELSE {Min(hit)}

\* Monster k's step towards the player at p: the first of the two axes that is free.
Chase(ms, k, p) ==
    LET m  == ms[k].pos
        d  == <<p[1] - m[1], p[2] - m[2]>>
        h  == <<m[1] + signum(d[1]), m[2]>>
        v  == <<m[1], m[2] + signum(d[2])>>
        tr == IF Abs(d[1]) >= Abs(d[2]) THEN <<h, v>> ELSE <<v, h>>
        ok == {n \in 1 .. 2 : tr[n] # m /\ walkable(tr[n]) /\ tr[n] # p /\ monster_at(ms, tr[n]) = {}}
    IN IF ok = {} THEN ms ELSE [ms EXCEPT ![k].pos = tr[Min(ok)]]

\* One turn of the loop of monsters_act, for monster k; s is <<player, monsters>>.
Act(s, k) ==
    LET dist == Max({Abs(s[1].pos[1] - s[2][k].pos[1]), Abs(s[1].pos[2] - s[2][k].pos[2])})
    IN CASE s[2][k].hp <= 0 \/ dist > Sight -> s
         [] s[2][k].hp > 0 /\ dist <= Sight /\ dist <= 1 -> <<[s[1] EXCEPT !.hp = @ - OrcPower], s[2]>>
         [] OTHER -> <<s[1], Chase(s[2], k, s[1].pos)>>

\* monsters_act, in the order of the vector.
monsters_act(g) ==
    LET after[k \in 0 .. Len(g[2])] == IF k = 0 THEN g ELSE Act(after[k - 1], k)
    IN after[Len(g[2])]

\* player_move: hit the monster there, or go there; a blocked move costs no turn.
player_move ==
    /\ tries = -1 /\ turns < MaxTurns
    /\ \E d \in (-1 .. 1) \X (-1 .. 1) :
         LET n   == <<player.pos[1] + d[1], player.pos[2] + d[2]>>
             hit == monster_at(monsters, n)
             g   == IF hit # {} THEN <<player, [monsters EXCEPT ![Min(hit)].hp = @ - PlayerPower]>>
                    ELSE <<[player EXCEPT !.pos = n], monsters>>
         IN /\ hit # {} \/ walkable(n)
            /\ player' = monsters_act(g)[1] /\ monsters' = monsters_act(g)[2]
    /\ turns' = turns + 1
    /\ UNCHANGED <<rooms, floor, tries>>

RogueNext == Place \/ Start \/ player_move
RogueSpec == RogueInit /\ [][RogueNext]_game

-----------------------------------------------------------------------------
(* Properties *)

Near(p) == {<<p[1] + 1, p[2]>>, <<p[1] - 1, p[2]>>, <<p[1], p[2] + 1>>, <<p[1], p[2] - 1>>} \cap floor

\* Tiles within n steps of the first room's centre, for an n that no walk
\* without a tile visited twice exceeds.
Reach ==
    LET f[n \in 0 .. Width * Height] ==
          IF n = 0 THEN {center(rooms[1])} ELSE LET g == f[n - 1] IN g \cup UNION {Near(p) : p \in g}
    IN f[Width * Height]

\* However rooms fall, every floor tile can be walked to from the first room,
\* and the outer wall is never opened.
Connected ==
    /\ rooms # << >> => floor \subseteq Reach
    /\ \A p \in floor : p[1] \in 1 .. Width - 2 /\ p[2] \in 1 .. Height - 2

\* After any moves and answers, in the order the monsters act, the player and
\* the living monsters stand on floor tiles and never on the same one.
ActorsApart ==
    tries = -1 =>
      LET alive == {k \in DOMAIN monsters : monsters[k].hp > 0}
      IN /\ player.pos \in floor /\ \A k \in alive : monsters[k].pos \in floor \ {player.pos}
         /\ \A j, k \in alive : j # k => monsters[j].pos # monsters[k].pos
=============================================================================

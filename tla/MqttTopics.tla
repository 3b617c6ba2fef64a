----------------------------- MODULE MqttTopics -----------------------------
(* Topic filters of mqtt.c: mqtt_valid_filter, mqtt_valid_topic and the     *)
(* iterative matcher mqtt_topic_match, one action per turn of its loop,     *)
(* against the level-by-level definition of the protocol.  A string is a    *)
(* sequence of characters; reading past its end gives Nul, as in C.         *)
EXTENDS Naturals, Sequences, FiniteSets, FiniteSetsExt

CONSTANTS Letters,          \* ordinary characters
          MaxFilter, MaxTopic  \* bounds: lengths

Slash == "/"
Plus  == "+"
Hash  == "#"
Dollar == "$"
Nul   == "nul"

ASSUME TopicsAssumption == Nul \notin Letters /\ MaxFilter \in Nat /\ MaxTopic \in Nat

Chars == Letters \cup {Slash, Plus, Hash, Dollar}

\* s[n], or the terminator.
At(s, n) == IF n \in DOMAIN s THEN s[n] ELSE Nul

mqtt_valid_filter(s) ==
    /\ s # << >>
    /\ \A n \in DOMAIN s :
         LET starts == n = 1 \/ s[n - 1] = Slash
             ends   == At(s, n + 1) \in {Nul, Slash}
         IN /\ s[n] = Plus => starts /\ ends
            /\ s[n] = Hash => starts /\ At(s, n + 1) = Nul

mqtt_valid_topic(s) == s # << >> /\ \A n \in DOMAIN s : s[n] \notin {Plus, Hash}

\* Where the level that position i is in ends: at a slash or at the terminator.
LevelEnd(s, i) == CHOOSE n \in i .. Len(s) + 1 :
                    /\ At(s, n) \in {Slash, Nul}
                    /\ \A m \in i .. n - 1 : s[m] # Slash

VARIABLES filter, topic,   \* the arguments f and t
          fp, tp,          \* how far the two pointers have advanced
          result           \* "running", or what the function returned

match == <<filter, topic, fp, tp, result>>

Strings(n) == UNION {[1 .. m -> Chars] : m \in 1 .. n}

\* The broker matches filters it has accepted against topics it has accepted,
\* and, to see whether a full table already covers it, against a new filter.
TopicsInit ==
    /\ filter \in {s \in Strings(MaxFilter) : mqtt_valid_filter(s)}
    /\ topic \in {s \in Strings(MaxTopic) : mqtt_valid_topic(s) \/ mqtt_valid_filter(s)}
    /\ fp = 1 /\ tp = 1
    /\ result = IF At(topic, 1) = Dollar /\ At(filter, 1) \in {Plus, Hash} THEN "no" ELSE "running"

Return(b) == result' = (IF b THEN "yes" ELSE "no") /\ UNCHANGED <<filter, topic, fp, tp>>

\* As AfterLevel, without the case of "a/#" and "a".
AfterLevel_NoParent(p, q) ==
    \/ At(topic, q) = Nul /\ Return(At(filter, p) = Nul)
    \/ At(topic, q) # Nul /\ At(filter, p) # Slash /\ Return(FALSE)
    \/ /\ At(topic, q) # Nul /\ At(filter, p) = Slash
       /\ fp' = p + 1 /\ tp' = q + 1 /\ UNCHANGED <<filter, topic, result>>

\* Both pointers stand at the end of a level: decide, or step over the slashes.
AfterLevel(p, q) ==
    \/ At(topic, q) = Nul /\ Return(At(filter, p) = Nul \/ SubSeq(filter, p, Len(filter)) = <<Slash, Hash>>)
    \/ At(topic, q) # Nul /\ At(filter, p) # Slash /\ Return(FALSE)
    \/ /\ At(topic, q) # Nul /\ At(filter, p) = Slash
       /\ fp' = p + 1 /\ tp' = q + 1 /\ UNCHANGED <<filter, topic, result>>

\* '#' takes the rest.
MatchRest == result = "running" /\ At(filter, fp) = Hash /\ Return(TRUE)

\* '+' takes one level, possibly empty.
MatchOne == result = "running" /\ At(filter, fp) = Plus /\ AfterLevel(fp + 1, LevelEnd(topic, tp))

\* Otherwise the two levels are compared character by character.
Level(s, i) == SubSeq(s, i, LevelEnd(s, i) - 1)
MatchLiteral ==
    /\ result = "running" /\ At(filter, fp) \notin {Plus, Hash}
    /\ \/ Level(filter, fp) = Level(topic, tp) /\ AfterLevel(LevelEnd(filter, fp), LevelEnd(topic, tp))
       \/ Level(filter, fp) # Level(topic, tp) /\ Return(FALSE)

Returned == result # "running" /\ UNCHANGED match

TopicsNext == MatchRest \/ MatchOne \/ MatchLiteral \/ Returned

TopicsSpec == TopicsInit /\ [][TopicsNext]_match

-----------------------------------------------------------------------------
(* The protocol's definition, on levels *)

\* The level of a place is one more than the slashes in front of it; a slash,
\* or the terminator, is the last place of its level.
LevelOf(s, n) == 1 + Cardinality({m \in 1 .. n - 1 : s[m] = Slash})
PlacesIn(s, k) == {n \in 1 .. Len(s) + 1 : LevelOf(s, n) = k}
Levels(s) == [k \in 1 .. LevelOf(s, Len(s) + 1) |-> SubSeq(s, Min(PlacesIn(s, k)), Max(PlacesIn(s, k)) - 1)]

LevelwiseMatch(fs, ts) ==
    LET open == fs[Len(fs)] = <<Hash>>
        n    == IF open THEN Len(fs) - 1 ELSE Len(fs)
    IN /\ ts[1] # << >> /\ ts[1][1] = Dollar => fs[1] \notin {<<Plus>>, <<Hash>>}
       /\ IF open THEN Len(ts) >= n ELSE Len(ts) = n
       /\ \A m \in 1 .. n : fs[m] \in {<<Plus>>, ts[m]}

-----------------------------------------------------------------------------
(* Properties *)

\* mqtt_valid_filter looks at neighbouring characters only, and yet accepts
\* only filters whose wildcards fill a level, with '#' in the last one.
WholeLevels(fs) ==
    \A n \in DOMAIN fs :
      /\ (\E m \in DOMAIN fs[n] : fs[n][m] = Plus) => fs[n] = <<Plus>>
      /\ (\E m \in DOMAIN fs[n] : fs[n][m] = Hash) => fs[n] = <<Hash>> /\ n = Len(fs)

\* mqtt_topic_match decides what the protocol says, level by level: '+' is one
\* level, "a/#" covers "a" too, and wildcards in front spare '$' topics; the
\* filters it gets from mqtt_valid_filter have their wildcards to themselves,
\* and no turn of the loop reads past a terminator.
MatchesByLevel ==
    /\ result # "running" => (result = "yes" <=> LevelwiseMatch(Levels(filter), Levels(topic)))
    /\ WholeLevels(Levels(filter))
    /\ fp \in 1 .. Len(filter) + 1 /\ tp \in 1 .. Len(topic) + 1
=============================================================================

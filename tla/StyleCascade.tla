---------------------------- MODULE StyleCascade ----------------------------
(* Selectors and the cascade of 2026-08-26-rust-browser-engine: the part of  *)
(* css.rs that builds rules and all of style.rs.  A stylesheet is parsed     *)
(* rule by rule; then the element's matching rules are applied one by one.   *)
EXTENDS Naturals, Sequences, SequencesExt, FiniteSetsExt

CONSTANTS Selectors,   \* simple selectors [tag, id, class]: sets, class as a sequence
          Elements,    \* elements [tag, id, classes]
          Names,       \* properties that rules declare
          MaxRules     \* bound: rules of a stylesheet

VARIABLES rules,    \* Stylesheet::rules: [selectors, declarations]
          elem,     \* the element that is styled
          todo,     \* matching rules, in the order in which they are applied
          values,   \* specified_values so far: a function on the names that have one
          pc

vars == <<rules, elem, todo, values, pc>>

\* (#ids, .classes, tag names), compared as a tuple
specificity(s) == <<Cardinality(s.id), Len(s.class), Cardinality(s.tag)>>
Less(a, b) == \E k \in 1 .. 3 : a[k] < b[k] /\ \A j \in 1 .. k - 1 : a[j] = b[j]

\* sort_by_key: s in the stable order in which s[j] comes before s[k] when
\* <<j, k>> is in before.
StableSort(s, before) ==
    LET rank(k) == Cardinality({j \in DOMAIN s : <<j, k>> \in before \/ (<<k, j>> \notin before /\ j <= k)})
    IN [n \in DOMAIN s |-> s[CHOOSE k \in DOMAIN s : rank(k) = n]]

\* The pairs of places at which the keys, a sequence, increase.
Increasing(keys) == {p \in (DOMAIN keys) \X (DOMAIN keys) : Less(keys[p[1]], keys[p[2]])}

\* As parse_selectors, leaving the list as it is written.
parse_selectors_AsWritten(list) == list

\* parse_selectors: the most specific first.
parse_selectors(list) ==
    LET keys == [k \in DOMAIN list |-> specificity(list[k])]
    IN StableSort(list, {<<p[2], p[1]>> : p \in Increasing(keys)})

Init == rules = << >> /\ elem \in Elements /\ todo = << >> /\ values = << >> /\ pc = "parse"

\* parse_rule: one or two selectors, a value of its own for one or two names.
parse_rule ==
    /\ pc = "parse" /\ Len(rules) < MaxRules
    /\ \E list \in UNION {[1 .. n -> Selectors] : n \in 1 .. 2}, decl \in UNION {[1 .. n -> Names] : n \in 1 .. 2} :
         rules' = Append(rules, [selectors |-> parse_selectors(list), written |-> list,
                                 declarations |-> [k \in DOMAIN decl |-> <<decl[k], <<Len(rules) + 1, k>>>>]])
    /\ UNCHANGED <<elem, todo, values, pc>>

matches(e, s) == s.tag \subseteq {e.tag} /\ s.id \subseteq e.id /\ ToSet(s.class) \subseteq e.classes

\* match_rule: the rule with the specificity of its first selector that matches.
match_rule(e, r) ==
    LET hit == {k \in DOMAIN r.selectors : matches(e, r.selectors[k])}
    IN IF hit = {} THEN << >> ELSE <<[spec |-> specificity(r.selectors[Min(hit)]), rule |-> r]>>

matching_rules(e) == FlattenSeq([k \in DOMAIN rules |-> match_rule(e, rules[k])])

\* specified_values: collect and sort, then its loop.
Match ==
    /\ pc = "parse" /\ pc' = "apply"
    /\ LET hits == matching_rules(elem)
       IN todo' = StableSort(hits, Increasing([k \in DOMAIN hits |-> hits[k].spec]))
    /\ UNCHANGED <<rules, elem, values>>

\* The declarations of a rule are inserted in order; a later one overwrites.
Insert(map, decls) ==
    FoldLeft(LAMBDA m, d : [n \in DOMAIN m \cup {d[1]} |-> IF n = d[1] THEN d[2] ELSE m[n]], map, decls)

Apply ==
    /\ pc = "apply" /\ todo # << >> /\ todo' = Tail(todo)
    /\ values' = Insert(values, Head(todo).rule.declarations)
    /\ UNCHANGED <<rules, elem, pc>>

Done == pc = "apply" /\ todo = << >> /\ pc' = "done" /\ UNCHANGED <<rules, elem, todo, values>>

Next == parse_rule \/ Match \/ Apply \/ Done
Spec == Init /\ [][Next]_vars

-----------------------------------------------------------------------------
(* Properties *)

\* Every declaration of name n that reaches the element, with each selector
\* as it is written.
Candidates(n) ==
    UNION {{<<specificity(rules[r].written[s]), r, d>> :
              s \in {x \in DOMAIN rules[r].written : matches(elem, rules[r].written[x])},
              d \in {x \in DOMAIN rules[r].declarations : rules[r].declarations[x][1] = n}} : r \in DOMAIN rules}

Wins(c, o) == Less(o[1], c[1]) \/ (o[1] = c[1] /\ (o[2] < c[2] \/ (o[2] = c[2] /\ o[3] <= c[3])))

\* Of all declarations that reach the element through any selector of any
\* rule, the most specific one decides, and of those the last: though only one
\* selector of a rule is looked at and rules overwrite one another in turn.
CascadeWins ==
    pc = "done" => \A n \in Names :
        IF Candidates(n) = {} THEN n \notin DOMAIN values
        ELSE \E c \in Candidates(n) : values[n] = <<c[2], c[3]>> /\ \A o \in Candidates(n) : Wins(c, o)
=============================================================================

----------------------------- MODULE Evolution -----------------------------
(* The simulation of 2026-09-13-rust-neuroevolution: its tick, the genetic   *)
(* algorithm at the end of a generation, and the way of a brain's weights    *)
(* through a chromosome.  Places are points of a ring; what a brain makes of *)
(* what the eye sees is any walk; a weight is named by the founder it comes  *)
(* from (0 when mutated) and the spot of the network it was made for.        *)
EXTENDS Naturals, Sequences, SequencesExt, FiniteSetsExt

CONSTANTS N, Foods,      \* animals, pieces of food
          Places,        \* the ring is 0 .. Places - 1
          Cells,         \* of an eye: the inputs of a brain
          Length,        \* GENERATION_LENGTH
          Coins,         \* sample outcomes of the coin per gene: sets of genes
          Mutated,       \* sample outcomes of mutation: sets of genes
          MaxGenerations \* bound

SizesAssumption == N > 0 /\ Length > 0 /\ Cells > 0

VARIABLES animals,   \* World::animals: [pos, sat, brain]; a brain is [layer][neuron] -> [bias, weights]
          foods,     \* World::foods
          age,       \* Simulation::age
          stats,     \* what step returned: << >> or <<[min, max, total]>>
          meals,     \* meals of every generation so far
          generation

vars == <<animals, foods, age, stats, meals, generation>>

\* Brain::topology
topology == <<Cells, 2 * Cells, 2>>

\* Network::random for founder f
random(f) ==
    [l \in 1 .. 2 |-> [n \in 1 .. topology[l + 1] |->
        [bias |-> <<f, l, n, 0>>, weights |-> [w \in 1 .. topology[l] |-> <<f, l, n, w>>]]]]

\* Network::weights, Neuron by neuron: the bias first.
weights(net) == FlattenSeq([l \in DOMAIN net |->
                    FlattenSeq([n \in DOMAIN net[l] |-> <<net[l][n].bias>> \o net[l][n].weights])])

\* Where in the stream neuron n of layer l starts.
Start(l, n) == (IF l = 1 THEN 0 ELSE topology[2] * (topology[1] + 1)) + (n - 1) * (topology[l] + 1)

\* As Neuron, with the bias behind a neuron's inputs.
Neuron_BiasLast(ws, l, n) ==
    [bias |-> ws[Start(l, n) + topology[l] + 1],
     weights |-> [w \in 1 .. topology[l] |-> ws[Start(l, n) + w]]]

\* Neuron::from_weights, on the part of the stream that is left for it
Neuron(ws, l, n) ==
    [bias |-> ws[Start(l, n) + 1],
     weights |-> [w \in 1 .. topology[l] |-> ws[Start(l, n) + 1 + w]]]

\* Network::from_weights, with Layer::from_weights; << >> stands for the panic
\* on a stream that is too short or not used up.
from_weights(ws) ==
    IF Len(ws) # topology[2] * (topology[1] + 1) + topology[3] * (topology[2] + 1) THEN << >>
    ELSE [l \in 1 .. 2 |-> [n \in 1 .. topology[l + 1] |-> Neuron(ws, l, n)]]

\* AnimalIndividual: what the genetic algorithm sees of an animal
from_animal(animal) == weights(animal.brain)

\* UniformCrossover and GaussianMutation
crossover(a, b, coins) == [k \in DOMAIN a |-> IF k \in coins THEN a[k] ELSE b[k]]
mutate(c, genes) == [k \in DOMAIN c |-> IF k \in genes THEN <<0>> \o SubSeq(c[k], 2, 4) ELSE c[k]]

\* RouletteWheelSelection: the floor under the weights lets every animal be a parent.
select == 1 .. N

\* GeneticAlgorithm::evolve: the children of population c, one by one.
evolve(c, a, b, coins, genes) == [i \in 1 .. N |-> mutate(crossover(c[a[i]], c[b[i]], coins[i]), genes[i])]

Spots == 0 .. Places - 1

\* Animal::from_chromosome
Born(chromosome, pos) == [pos |-> pos, sat |-> 0, brain |-> from_weights(chromosome)]

Init ==
    /\ \E pos \in [1 .. N -> Spots] : animals = [i \in 1 .. N |-> [pos |-> pos[i], sat |-> 0, brain |-> random(i)]]
    /\ foods \in [1 .. Foods -> Spots] /\ age = 0 /\ stats = << >> /\ meals = <<0>> /\ generation = 1

\* process_brains and process_movement: every animal stays, or goes one place on or back.
Walked(moves) == [i \in 1 .. N |-> [animals[i] EXCEPT !.pos = (@ + moves[i]) % Places]]

\* process_collisions: animal by animal, food by food; what is eaten comes
\* back somewhere else, where a later animal may find it.
Collide(as, fresh) ==
    LET meet(s, p) == IF s.as[p[1]].pos # s.fs[p[2]] THEN s
                      ELSE [s EXCEPT !.as[p[1]].sat = @ + 1, !.fs[p[2]] = fresh[p], !.meals[generation] = @ + 1]
        pairs == FlattenSeq([i \in 1 .. N |-> [f \in 1 .. Foods |-> <<i, f>>]])
    IN FoldLeft(meet, [as |-> as, fs |-> foods, meals |-> meals], pairs)

\* Statistics::new, from what each animal has eaten
Statistics(sat) ==
    LET sats == {sat[i] : i \in 1 .. N}
    IN [min |-> Min(sats), max |-> Max(sats), total |-> MapThenSumSet(LAMBDA i : sat[i], 1 .. N)]

\* The first half of step, for every outcome of its random choices.
Worlds == {Collide(Walked(m), f) : m \in [1 .. N -> {0, 1, Places - 1}], f \in [(1 .. N) \X (1 .. Foods) -> Spots]}

\* step, when the generation goes on
Tick ==
    /\ age + 1 < Length /\ age' = age + 1 /\ stats' = << >>
    /\ \E s \in Worlds : animals' = s.as /\ foods' = s.fs /\ meals' = s.meals
    /\ UNCHANGED generation

\* step, when it ends, and Simulation::evolve
Evolve ==
    /\ age + 1 >= Length /\ generation < MaxGenerations /\ generation' = generation + 1
    /\ age' = 0
    /\ \E last \in {[sat |-> [i \in 1 .. N |-> s.as[i].sat], meals |-> s.meals] : s \in Worlds} :
         /\ meals' = Append(last.meals, 0) /\ stats' = <<Statistics(last.sat)>>
         /\ LET c == [i \in 1 .. N |-> from_animal(animals[i])]
            IN \E a, b \in [1 .. N -> select], coins \in [1 .. N -> Coins], genes \in [1 .. N -> Mutated],
                  pos \in [1 .. N -> Spots] :
                 animals' = [i \in 1 .. N |-> Born(evolve(c, a, b, coins, genes)[i], pos[i])]
    /\ foods' \in [1 .. Foods -> Spots]

Next == Tick \/ Evolve
Spec == Init /\ [][Next]_vars

-----------------------------------------------------------------------------
(* Properties *)

\* The statistics of a generation count each of its meals once, also those of
\* the tick in which it ended and none of the generation before.
StatsCountMeals ==
    /\ MapThenSumSet(LAMBDA i : animals[i].sat, 1 .. N) = meals[generation]
    /\ stats # << >> => stats[1].total = meals[generation - 1]
                      /\ stats[1].min * N <= stats[1].total /\ stats[1].total <= stats[1].max * N

\* Through any number of generations of flattening, crossing, mutating and
\* rebuilding, every brain can be rebuilt and a weight stays at the spot of the
\* network it was made for.
GenesKeepPlace ==
    \A i \in 1 .. N : animals[i].brain # << >> /\ \A l \in 1 .. 2 : \A n \in 1 .. topology[l + 1] :
        LET neuron == animals[i].brain[l][n]
        IN /\ SubSeq(neuron.bias, 2, 4) = <<l, n, 0>>
           /\ Len(neuron.weights) = topology[l]
           /\ \A w \in 1 .. topology[l] : SubSeq(neuron.weights[w], 2, 4) = <<l, n, w>>
=============================================================================

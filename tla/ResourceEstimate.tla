-------------------------- MODULE ResourceEstimate --------------------------
(***************************************************************************)
(* The resource estimator (js/estimator.js) and the section that asks it     *)
(* (js/sections/estimator.js): the reader's form, the validation's cases and *)
(* the grid of the simple model.  An estimate walks the odd distances up to  *)
(* the first that meets the budget, and stops early where it holds that no   *)
(* larger one can.                                                         *)
(*                                                                         *)
(* Numbers are whole.  Times are in cycles, error rates and budgets in one   *)
(* unit, and both sides of a comparison with the budget are multiplied by    *)
(* the Toffolis in flight, which the code divides by.                       *)
(***************************************************************************)
EXTENDS Integers, FiniteSets, FiniteSetsExt

CONSTANTS
    MaxD,        \* the largest distance tried
    Noises,      \* the noise settings a form offers
    Epsilon,     \* error per patch and cycle: noise -> distance -> error
    Improves,    \* the noises whose suppression factor is above one
    Measured,    \* the measured decoding latencies: distance -> cycles
    Beyond,      \* their power law: distance -> cycles
    Presets,     \* the named algorithms: name -> [qubits, hot, toffolis, typed]
    Default,     \* the form as the page has it
    TypedCounts, \* what is typed as a count of qubits, 0 where it is no number
    TypedToffolis, \* what is typed as a number of Toffolis
    Parallels,   \* Toffolis in flight
    Budgets,
    Control,     \* the control delay in cycles
    Cultivation, \* [noises, error]: where it is characterized, and its error
    Protocols,   \* distillation: a set of [noise, states, error, cost]
    YokedRate,   \* a yoked qubit's error per cycle
    GrossRate,   \* a gross module's, by noise, 0 where it was not measured
    GrossLogical \* the logical qubits of a gross module

VARIABLES
    fields,      \* the form, as the reader left it
    stage,       \* of the section: "loading", "unavailable", "form", "validation", "grid"
    question,    \* what is being estimated
    distance,    \* the distance being tried
    answer       \* "pending", the distance found, or why there is none

estimateVars == <<fields, stage, question, distance, answer>>

-----------------------------------------------------------------------------
OddDistances == {d \in 3..MaxD : d % 2 = 1}
Larger(a, b)  == IF a >= b THEN a ELSE b
Smaller(a, b) == IF a <= b THEN a ELSE b
CeilDiv(a, b) == (a + b - 1) \div b

(* The measured latency at the next larger measured distance, never less    *)
(* than at a smaller one, and the power law beyond them.                    *)
LatencyAt(d) ==
    LET above == {x \in DOMAIN Measured : x >= d}
    IN  IF above = {} THEN Beyond[d]
        ELSE Max({Measured[x] : x \in {y \in DOMAIN Measured : y <= Min(above)}})

(* What a reader can ask for, whichever way it came about.                  *)
Questions ==
    [kind : {"full", "simple"}, qubits : Nat \ {0}, hot : Nat, toffolis : Nat \ {0}, noise : Noises,
     factory : {"cultivation", "distillation"}, block : {"compact", "intermediate", "fast"},
     storage : {"surface", "yoked", "gross"}, budget : Nat, decoder : Nat \cup {-1}, parallel : Nat \ {0}]

(* The form: the decoder is -1 for the measured one, or its latency.        *)
Custom == "custom"
Forms ==
    [preset : DOMAIN Presets \cup {Custom}, qubits : Nat, hot : Nat, toffolis : Nat \ {0}, noise : Noises,
     factory : {"cultivation", "distillation"}, block : {"compact", "intermediate", "fast"},
     storage : {"surface", "yoked", "gross"}, budget : Nat, decoder : Nat \cup {-1}, parallel : Nat \ {0}]

ASSUME DataAssumption ==
    /\ MaxD \in Nat
    /\ Epsilon \in [Noises -> [1..MaxD -> Nat]]
    /\ \A d \in 1..MaxD : LatencyAt(d) \in Nat
    /\ Control \in Nat /\ YokedRate \in Nat /\ GrossRate \in [Noises -> Nat] /\ GrossLogical \in Nat \ {0}
    /\ Cultivation.error \in Nat /\ Protocols \subseteq [noise : Noises, states : Nat \ {0}, error : Nat, cost : Nat]
    /\ \A P \in SUBSET Protocols : P # {} => \E p \in P : \A r \in P : p.cost * p.states <= r.cost * r.states
    /\ Presets \in [DOMAIN Presets -> [qubits : Nat \ {0}, hot : Nat, toffolis : Nat \ {0}, typed : Nat \ {0}]]
    /\ Custom \notin DOMAIN Presets /\ Default \in Forms
    /\ TypedCounts \subseteq Nat /\ TypedToffolis \subseteq Nat \ {0}
    /\ Parallels \subseteq Nat \ {0} /\ Budgets \subseteq Nat

(* The early end of the walk rests on the data: the latencies rise, also     *)
(* where the power law takes over from the largest measured one.            *)
ASSUME LatencyRises == \A a, b \in 1..MaxD : a <= b => LatencyAt(a) <= LatencyAt(b)

-----------------------------------------------------------------------------
(***************************************************************************)
(* The fuller model.                                                       *)
(***************************************************************************)
Cold(q) == IF q.storage = "surface" THEN 0 ELSE Larger(0, q.qubits - q.hot)
Hot(q)  == q.qubits - Cold(q)

CeilRoot(n) == Cardinality({k \in 0..n : k * k < n})
Tiles(q) ==
    CASE q.block = "compact"      -> CeilDiv(3 * Hot(q) + 6, 2)
      [] q.block = "intermediate" -> 2 * Hot(q) + 4
      [] q.block = "fast"         -> 2 * Hot(q) + 1 + CeilRoot(8 * Hot(q))
Steps(q) == CASE q.block = "compact" -> 9 [] q.block = "intermediate" -> 5 [] q.block = "fast" -> 1

(* Half of the budget is the magic states', shared by the Toffolis.          *)
Affords(q, error) == 2 * q.toffolis * error <= q.budget

NoFactory == [states |-> 0, error |-> 0]
Fitting(q) == {p \in Protocols : p.noise = q.noise /\ Affords(q, p.states * p.error)}
FactoryFor(q) ==
    IF q.factory = "cultivation"
    THEN IF q.noise \in Cultivation.noises /\ Affords(q, Cultivation.error)
         THEN [states |-> 1, error |-> Cultivation.error] ELSE NoFactory
    ELSE IF Fitting(q) = {} THEN NoFactory
         ELSE LET best == CHOOSE p \in Fitting(q) : \A r \in Fitting(q) : p.cost * p.states <= r.cost * r.states
              IN  [states |-> best.states, error |-> best.states * best.error]

Clifford(q, d) == Steps(q) * FactoryFor(q).states * d
Reaction(q, d) == (IF q.decoder = -1 THEN LatencyAt(d) ELSE q.decoder) + Control

(* The cycles of the run, times the Toffolis in flight.                     *)
Cycles(q, d) == q.toffolis * Larger(Clifford(q, d), Reaction(q, d))

StorageRate(q) ==
    CASE q.storage = "surface" -> 0
      [] q.storage = "yoked"   -> Cold(q) * YokedRate
      [] q.storage = "gross"   -> CeilDiv(Cold(q), GrossLogical) * GrossRate[q.noise]

StorageFailure(q, d) == StorageRate(q) * Cycles(q, d)
MemoryFailure(q, d)  == Tiles(q) * Epsilon[q.noise][d] * Cycles(q, d)
MagicFailure(q)      == q.toffolis * FactoryFor(q).error * q.parallel
Budget(q)            == q.budget * q.parallel

Unmeasured(q) == q.storage = "gross" /\ Cold(q) > 0 /\ GrossRate[q.noise] = 0

(* The simple model: every operation is d rounds of every patch.            *)
SimpleFailure(q, d) == q.toffolis * q.qubits * d * Epsilon[q.noise][d]

(* What the estimate promises of a distance.                                *)
Meets(q, d) ==
    IF q.kind = "simple" THEN q.noise \in Improves /\ SimpleFailure(q, d) <= q.budget
    ELSE /\ ~Unmeasured(q) /\ FactoryFor(q) # NoFactory
         /\ MemoryFailure(q, d) + StorageFailure(q, d) + MagicFailure(q) <= Budget(q)

-----------------------------------------------------------------------------
(***************************************************************************)
(* The walk over the distances, one to a step.                              *)
(***************************************************************************)
Asks(q) == question' = q /\ distance' = 3 /\ answer' = "pending"

(* Mutant of Hopeless: the memory's share is counted as if it stayed.       *)
HopelessNow(q, d) == MemoryFailure(q, d) + StorageFailure(q, d) + MagicFailure(q) > Budget(q)

Hopeless(q, d) == StorageFailure(q, d) + MagicFailure(q) > Budget(q)

Refusal(q, d) ==
    IF q.kind = "simple" /\ q.noise \notin Improves THEN "nothing helps"
    ELSE IF q.kind = "full" /\ Unmeasured(q) THEN "not measured"
    ELSE IF d > MaxD THEN "no distance"
    ELSE IF q.kind = "full" /\ FactoryFor(q) = NoFactory THEN "no factory"
    ELSE IF q.kind = "full" /\ Hopeless(q, d) THEN "hopeless"
    ELSE "none"

Within(q, d) ==
    IF q.kind = "simple" THEN SimpleFailure(q, d) <= q.budget
    ELSE MemoryFailure(q, d) + StorageFailure(q, d) + MagicFailure(q) <= Budget(q)

Try ==
    /\ answer = "pending"
    /\ IF Refusal(question, distance) # "none"
       THEN answer' = Refusal(question, distance) /\ UNCHANGED distance
       ELSE IF Within(question, distance)
       THEN answer' = "found" /\ UNCHANGED distance
       ELSE distance' = distance + 2 /\ UNCHANGED answer
    /\ UNCHANGED <<fields, stage, question>>

-----------------------------------------------------------------------------
(***************************************************************************)
(* The section.  A preset writes its numbers into the fields, the Toffolis   *)
(* rounded, and is computed with its own; typing into one of them makes the  *)
(* algorithm a custom one, read from the fields.                            *)
(***************************************************************************)
Algorithm(f) ==
    IF f.preset \in DOMAIN Presets
    THEN LET p == Presets[f.preset] IN [qubits |-> p.qubits, hot |-> p.hot, toffolis |-> p.toffolis]
    ELSE LET qubits == Larger(1, f.qubits)
         IN  [qubits |-> qubits, hot |-> Smaller(qubits, IF f.hot = 0 THEN qubits ELSE f.hot), toffolis |-> f.toffolis]

Shown(f) ==
    IF f.preset \notin DOMAIN Presets THEN f
    ELSE LET p == Presets[f.preset] IN [f EXCEPT !.qubits = p.qubits, !.hot = p.hot, !.toffolis = p.typed]

FullQuestion(a, f) ==
    [kind |-> "full", qubits |-> a.qubits, hot |-> a.hot, toffolis |-> a.toffolis, noise |-> f.noise,
     factory |-> f.factory, block |-> f.block, storage |-> f.storage, budget |-> f.budget,
     decoder |-> f.decoder, parallel |-> f.parallel]

Renders(f) == fields' = Shown(f) /\ Asks(FullQuestion(Algorithm(f), f))

Loads ==
    /\ stage = "loading"
    /\ \/ stage' = "unavailable" /\ UNCHANGED <<fields, question, distance, answer>>
       \/ stage' = "form" /\ Renders(fields)

(* After the form's first estimate come the cases it is checked by: published *)
(* settings of one noise and schedule, then each switched to the page's, and   *)
(* the page's with either factory.  Then the grid of the simple model.        *)
Theirs(n, k, b) == [Default EXCEPT !.noise = n, !.budget = b, !.storage = "yoked", !.decoder = 0, !.parallel = k]
Ours(x)         == [Default EXCEPT !.decoder = 0, !.factory = x]
Switches(f)     == {[f EXCEPT !.noise = Default.noise], [f EXCEPT !.parallel = 1],
                    [f EXCEPT !.storage = "surface"], [f EXCEPT !.decoder = -1]}

Published == {Theirs(n, k, b) : n \in Noises, k \in Parallels, b \in Budgets}
Switched  == UNION {Switches(f) : f \in Published}
Compared  == Published \cup Switched \cup {Ours(x) : x \in {"cultivation", "distillation"}}

Cases == {FullQuestion(Presets[p], f) : p \in DOMAIN Presets, f \in Compared}

Validates ==
    /\ stage = "form" /\ answer # "pending"
    /\ \E q \in Cases : Asks(q)
    /\ stage' = "validation" /\ UNCHANGED fields

Grid ==
    /\ stage = "validation" /\ answer # "pending"
    /\ \E p \in DOMAIN Presets, n \in Noises :
          Asks([FullQuestion(Presets[p], fields) EXCEPT !.kind = "simple", !.noise = n])
    /\ stage' = "grid" /\ UNCHANGED fields

Changes ==
    {[fields EXCEPT !.preset = p] : p \in DOMAIN Presets \cup {Custom}}
    \cup {[fields EXCEPT !.qubits = n, !.preset = Custom] : n \in TypedCounts}
    \cup {[fields EXCEPT !.hot = n, !.preset = Custom] : n \in TypedCounts}
    \cup {[fields EXCEPT !.toffolis = n, !.preset = Custom] : n \in TypedToffolis}
    \cup {[fields EXCEPT !.noise = n] : n \in Noises}
    \cup {[fields EXCEPT !.factory = x] : x \in {"cultivation", "distillation"}}
    \cup {[fields EXCEPT !.block = x] : x \in {"compact", "intermediate", "fast"}}
    \cup {[fields EXCEPT !.storage = x] : x \in {"surface", "yoked", "gross"}}
    \cup {[fields EXCEPT !.budget = b] : b \in Budgets}
    \cup {[fields EXCEPT !.decoder = l] : l \in {-1, 0}}
    \cup {[fields EXCEPT !.parallel = k] : k \in Parallels}

Input ==
    /\ stage = "grid" /\ answer # "pending"
    /\ \E f \in Changes : Renders(f)
    /\ UNCHANGED stage

-----------------------------------------------------------------------------
EstimateInit ==
    /\ fields = Default /\ stage = "loading"
    /\ question = FullQuestion(Algorithm(Default), Default) /\ distance = 3 /\ answer = "unasked"

EstimateNext == Try \/ Loads \/ Validates \/ Grid \/ Input

EstimateSpec == EstimateInit /\ [][EstimateNext]_estimateVars

-----------------------------------------------------------------------------
(* What is shown is right: a distance that is found meets the budget and no  *)
(* smaller odd one does; where none is found, for whatever reason, also the  *)
(* early ones, no distance up to the largest would have met it.             *)
CheapestDistance ==
    /\ answer = "found" =>
         /\ distance \in OddDistances /\ Meets(question, distance)
         /\ \A d \in OddDistances : d < distance => ~Meets(question, d)
    /\ answer \notin {"unasked", "pending", "found"} =>
         \A d \in OddDistances : ~Meets(question, d)

(* Parts of the invariant behind it.                                        *)
TypeOK ==
    /\ fields \in Forms /\ question \in Questions
    /\ distance \in Nat /\ distance >= 3 /\ distance % 2 = 1
    /\ answer \in {"unasked", "pending", "found", "nothing helps", "not measured", "no distance", "no factory", "hopeless"}

NoneBefore == answer = "pending" => \A d \in OddDistances : d < distance => ~Meets(question, d)
=============================================================================

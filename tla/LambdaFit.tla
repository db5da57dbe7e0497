----------------------------- MODULE LambdaFit -----------------------------
(***************************************************************************)
(* Error per cycle and Lambda from memory experiments (js/lambda-fit.js):     *)
(* the estimate from the recorded counts of one decoder, and the redrawn      *)
(* counts its intervals come from.                                          *)
(*                                                                         *)
(* Of a count is kept how far its fidelity is from zero, which decides what   *)
(* is fitted: "clear" of it by three standard errors, "faint" above it, or    *)
(* "gone".  The fitted numbers are left out.                                *)
(***************************************************************************)
EXTENDS Integers, FiniteSets, FiniteSetsExt

CONSTANTS
    Experiments,  \* a set of [d, patch, rounds]; patch stands for patch and basis
    MinRounds,    \* shorter experiments are left out
    MaxLost,      \* bound: the experiments the decoder has no result for
    MaxDraws      \* bound: the draws (400 in the code)

ASSUME ExperimentsAssumption == IsFiniteSet(Experiments) /\ MaxDraws \in Nat

VARIABLES
    counts,       \* experiment -> the fidelity its recorded count gives
    used,         \* the points the estimate uses
    draws,        \* the draws made
    logged,       \* the experiments whose last drawn count has a logarithm
    drawnUsed,    \* the points its fits use
    epsDraws,     \* the distances whose intervals have draws
    lambdaDraws   \* how many draws Lambda's interval has

lambdaVars == <<counts, used, draws, logged, drawnUsed, epsDraws, lambdaDraws>>

-----------------------------------------------------------------------------
Fidelity == {"clear", "faint", "gone"}

(* The points a fit uses: long enough, kept, and with a logarithm.           *)
Uses(levels, keep) ==
    {e \in DOMAIN levels : e.rounds >= MinRounds /\ e \in keep /\ levels[e] # "gone"}

(* A patch and basis is fitted from two points of different rounds at least. *)
Group(e) == <<e.d, e.patch>>
Fitted(points) ==
    {g \in {Group(e) : e \in points} : Cardinality({e.rounds : e \in {x \in points : Group(x) = g}}) >= 2}

(* The distances with a fit, over whose patches and bases it is averaged,     *)
(* and whether a line through them has a slope.                             *)
ByDistance(points) == {g[1] : g \in Fitted(points)}
HasLambda(points)  == Cardinality(ByDistance(points)) >= 2

(* What is kept when counts decide it for themselves.                       *)
Decided(levels) == {e \in DOMAIN levels : levels[e] = "clear"}

(* Mutant of KeepOf: every draw decides again.                              *)
KeepOfDraw(levels) == Decided(levels)

(* In a draw it is decided by the recorded counts.                          *)
KeepOf(levels) == Decided(counts)

-----------------------------------------------------------------------------
LambdaInit ==
    /\ \E lost \in SUBSET Experiments :
          Cardinality(lost) <= MaxLost /\ counts \in [Experiments \ lost -> Fidelity]
    /\ used = {} /\ draws = -1 /\ logged = {} /\ drawnUsed = {} /\ epsDraws = {} /\ lambdaDraws = 0

Estimate ==
    /\ draws = -1
    /\ used' = Uses(counts, Decided(counts)) /\ draws' = 0
    /\ UNCHANGED <<counts, logged, drawnUsed, epsDraws, lambdaDraws>>

(* Every recorded count is redrawn and everything fitted again.  A Lambda     *)
(* that is no number, as an error below zero makes it, is not counted.       *)
Draw ==
    /\ draws \in 0..(MaxDraws - 1)
    /\ draws' = draws + 1
    /\ \E levels \in [DOMAIN counts -> Fidelity] :
          /\ logged' = {e \in DOMAIN counts : levels[e] # "gone"}
          /\ drawnUsed' = Uses(levels, KeepOf(levels))
    /\ epsDraws' = epsDraws \cup ByDistance(drawnUsed')
    /\ lambdaDraws' \in IF HasLambda(drawnUsed') THEN {lambdaDraws, lambdaDraws + 1} ELSE {lambdaDraws}
    /\ UNCHANGED <<counts, used>>

LambdaNext == Estimate \/ Draw
LambdaSpec == LambdaInit /\ [][LambdaNext]_lambdaVars

-----------------------------------------------------------------------------
(* "Which points each fit uses is decided once, from the observed counts, as  *)
(* the estimate itself decided it": a draw uses the estimate's points, all    *)
(* but those it drew with no logarithm, so an interval belongs to a distance  *)
(* the estimate has and Lambda has none where the estimate has no Lambda.     *)
DrawsUseItsPoints ==
    /\ draws > 0 => drawnUsed = used \cap logged
    /\ draws >= 0 => epsDraws \subseteq ByDistance(used)
    /\ lambdaDraws > 0 => HasLambda(used)
=============================================================================

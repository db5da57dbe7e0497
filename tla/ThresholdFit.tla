---------------------------- MODULE ThresholdFit ----------------------------
(***************************************************************************)
(* What the threshold figure makes of its sweep (fitThreshold and crossings  *)
(* in js/compute.js): the reasons for which no threshold is reported, the     *)
(* fit without and with the correction to scaling, the bootstrap, and the     *)
(* crossings shown beside it.                                               *)
(*                                                                         *)
(* Rates are whole multiples of a shot's share.  The numbers a search        *)
(* returns are left out: a fit is the distances of its window, whether the    *)
(* scaling form was accepted there and whether it ran into its box's edge.   *)
(***************************************************************************)
EXTENDS Integers, FiniteSets, FiniteSetsExt

CONSTANTS
    SweptDistances,  \* the distances swept
    SweptRates,      \* the physical error rates swept
    RatesAt,         \* distance -> the logical error rates it may measure
    MaxMissing,      \* bound: the points a sweep has lost
    MinPoints,       \* fewer points are not fitted (8 in the code)
    MinCorrected,    \* distances a correction needs (4 in the code)
    Replicas         \* the bootstrap's replicas

(* The rates of a sweep are several, in order, and what they measure are      *)
(* counts.                                                                 *)
ASSUME SweepAssumption ==
    /\ SweptDistances \subseteq Nat /\ IsFiniteSet(SweptDistances)
    /\ SweptRates \subseteq Nat /\ IsFiniteSet(SweptRates) /\ Cardinality(SweptRates) > 1
    /\ \A d \in SweptDistances : RatesAt[d] \subseteq Nat

VARIABLES
    sweep,           \* the measured points: <<d, p>> -> logical error rate
    step,            \* where the fit stands
    leading,         \* the fit without the correction, or NoFit
    corrected,       \* the fit with it, or NoFit
    crossed,         \* the crossings shown
    report           \* what is said of the fit beside its numbers

fitVars == <<sweep, step, leading, corrected, crossed, report>>

-----------------------------------------------------------------------------
PointsOf(s) == DOMAIN s
DistancesOf(s) == {x[1] : x \in DOMAIN s}
At(s, p) == {x[1] : x \in {y \in DOMAIN s : y[2] = p}}
LogicalRates(s) == {s[x] : x \in DOMAIN s}

(* The rates at which at least two distances were measured, and by how much  *)
(* the largest of them is ahead (below zero) or behind there.               *)
ComparedRates(s) == {p \in SweptRates : Cardinality(At(s, p)) >= 2}
Gap(s, p)   == s[<<Max(At(s, p)), p>>] - s[<<Min(At(s, p)), p>>]

(* The larger patch is ahead at some rate and behind at a later one; with    *)
(* fewer than two rates to compare nothing is asked.                        *)
AheadAt(s)  == {p \in ComparedRates(s) : Gap(s, p) < 0}
BehindAt(s) == {p \in ComparedRates(s) : Gap(s, p) > 0}

(* Mutant of Bracketed: in whichever order they do.                         *)
BracketedEitherWay(s) == Cardinality(ComparedRates(s)) >= 2 => AheadAt(s) # {} /\ BehindAt(s) # {}

Bracketed(s) ==
    Cardinality(ComparedRates(s)) >= 2 =>
        /\ AheadAt(s) # {} /\ BehindAt(s) # {}
        /\ Min(AheadAt(s)) < Max(BehindAt(s))

(* Where a pair's curves cross: between neighbouring shared rates the larger *)
(* goes from ahead to behind; only the first such place counts.             *)
Shared(s, a, b) == {p \in SweptRates : {<<a, p>>, <<b, p>>} \subseteq DOMAIN s}
Neighbours(P, p, q) == p \in P /\ q \in P /\ p < q /\ \A r \in P : ~(p < r /\ r < q)
CrossesAt(s, a, b) ==
    LET P == Shared(s, a, b)
    IN  {p \in P : \E q \in P : /\ Neighbours(P, p, q)
                                /\ s[<<b, p>>] < s[<<a, p>>] /\ s[<<b, q>>] > s[<<a, q>>]}
Crossings(s) ==
    LET crossing == {x \in DistancesOf(s) \X DistancesOf(s) : x[1] < x[2] /\ CrossesAt(s, x[1], x[2]) # {}}
    IN  {<<x[1], x[2], Min(CrossesAt(s, x[1], x[2]))>> : x \in crossing}

-----------------------------------------------------------------------------
(***************************************************************************)
(* The fits.  A search is the cheapest cell of a box within the swept rates,  *)
(* so its answer may lie on the box's edge.  A window keeps the points near   *)
(* the critical one, from at least as many distances as the form needs; the  *)
(* widest that the form describes is chosen, or else the least bad.          *)
(***************************************************************************)
NoFit == [distances |-> 0, accepted |-> FALSE, atEdge |-> FALSE]
NoReport == [interval |-> FALSE, exponent |-> FALSE, corrected |-> FALSE, accepted |-> FALSE]
Searched(n) == [distances : {n}, accepted : BOOLEAN, atEdge : BOOLEAN]
Needs(correction) == IF correction THEN MinCorrected ELSE 2
Windows(correction) ==
    UNION {Searched(n) : n \in Needs(correction)..Cardinality(DistancesOf(sweep))}
Converged(correction) == {NoFit} \cup Windows(correction)

-----------------------------------------------------------------------------
(* The sweep's points come in any order, and a change of the noise model     *)
(* clears those that came before it.                                        *)
FitInit ==
    /\ \E missing \in SUBSET (SweptDistances \X SweptRates) :
          /\ Cardinality(missing) <= MaxMissing
          /\ sweep \in {f \in [(SweptDistances \X SweptRates) \ missing -> UNION {RatesAt[d] : d \in SweptDistances}] :
                           \A x \in DOMAIN f : f[x] \in RatesAt[x[1]]}
    /\ step = "screen" /\ leading = NoFit /\ corrected = NoFit
    /\ crossed = {} /\ report = NoReport

(* What refuses a sweep before anything is fitted.                          *)
SweepRefused ==
    \/ Cardinality(PointsOf(sweep)) < MinPoints
    \/ Cardinality(DistancesOf(sweep)) < 2
    \/ Max(LogicalRates(sweep)) - Min(LogicalRates(sweep)) <= 1
    \/ ~Bracketed(sweep)

Screen ==
    /\ step = "screen"
    /\ step' = IF SweepRefused THEN "refused" ELSE "fit"
    /\ UNCHANGED <<sweep, leading, corrected, crossed, report>>

(* Both are fitted, the second if there are distances enough, and it is the  *)
(* one that counts if it converged.                                        *)
Fit ==
    /\ step = "fit"
    /\ leading' \in Converged(FALSE)
    /\ corrected' \in IF Cardinality(DistancesOf(sweep)) >= MinCorrected THEN Converged(TRUE) ELSE {NoFit}
    /\ LET best == IF corrected' # NoFit THEN corrected' ELSE leading'
       IN  step' = IF best = NoFit \/ best.atEdge THEN "refused" ELSE "draws"
    /\ UNCHANGED <<sweep, crossed, report>>

(* Replicas of the sweep are searched around the fit, in the window chosen    *)
(* and its neighbours in size; any of them may find nothing.                 *)
Best     == IF corrected # NoFit THEN corrected ELSE leading
Refitted == 0..Replicas

(* An interval needs three fifths of them, and the exponent an interval that  *)
(* is narrow and shots enough.                                              *)
Reported(refitted, narrow, enough) ==
    LET interval == 5 * refitted >= 3 * Replicas
    IN  [interval |-> interval, exponent |-> interval /\ narrow /\ enough,
         corrected |-> corrected # NoFit, accepted |-> Best.accepted]

Draws ==
    /\ step = "draws"
    /\ crossed' = Crossings(sweep)
    /\ \E n \in Refitted, narrow, enough \in BOOLEAN : report' = Reported(n, narrow, enough)
    /\ step' = "reported"
    /\ UNCHANGED <<sweep, leading, corrected>>

FitNext == Screen \/ Fit \/ Draws
FitSpec == FitInit /\ [][FitNext]_fitVars

-----------------------------------------------------------------------------
(* A threshold that is reported for a whole sweep is one the curves show:    *)
(* if the smallest and the largest distance never measure the same, their     *)
(* crossing is among those listed beside it, and between two swept rates.    *)
Whole == DOMAIN sweep = SweptDistances \X SweptRates
ReportedCrosses ==
    step = "reported" /\ Whole /\ (\A p \in SweptRates : Gap(sweep, p) # 0) =>
        \E x \in crossed : /\ x[1] = Min(SweptDistances) /\ x[2] = Max(SweptDistances)
                           /\ x[3] < Max(SweptRates)
=============================================================================

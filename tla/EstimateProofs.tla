--------------------------- MODULE EstimateProofs ---------------------------
(***************************************************************************)
(* The page's fits and estimates.  For any experiments and any number of     *)
(* draws: the intervals' draws of Lambda use the points that the estimate     *)
(* uses, and no others.  For any distances and rates: a threshold reported    *)
(* for a whole sweep lies where the curves shown beside it cross.  For every   *)
(* table of error rates, latencies and factories that the assumptions of      *)
(* ResourceEstimate allow: the distance that is found is the smallest that    *)
(* meets the budget, and where the estimator gives up, early or at the end,   *)
(* none would have.  That it may give up early rests on the run's cycles      *)
(* rising with the distance (CyclesRise), and this on the measured latencies  *)
(* doing so (LatencyRises).                                                *)
(***************************************************************************)
EXTENDS LambdaFit, ThresholdFit, ResourceEstimate, FiniteSetTheorems, WellFoundedInduction, TLAPS

-----------------------------------------------------------------------------
(* Of fewer points no more is fitted.                                       *)
LEMMA RoundsFinite ==
    ASSUME NEW P, IsFiniteSet(P)
    PROVE  IsFiniteSet({e.rounds : e \in P})
<1> DEFINE f == [e \in P |-> e.rounds]
<1>1. f \in Surjection(P, {e.rounds : e \in P})
      BY DEF Surjection
<1> QED BY <1>1, FS_Surjection DEF ExistsSurjection

LEMMA FittedMonotone ==
    ASSUME NEW Q, IsFiniteSet(Q), NEW P \in SUBSET Q
    PROVE  Fitted(P) \subseteq Fitted(Q)
<1> DEFINE Of(S, g) == {e.rounds : e \in {x \in S : Group(x) = g}}
<1>1. ASSUME NEW g PROVE Cardinality(Of(P, g)) \in Nat /\ Cardinality(Of(P, g)) <= Cardinality(Of(Q, g)) /\ Cardinality(Of(Q, g)) \in Nat
      <2>1. IsFiniteSet({x \in Q : Group(x) = g})
            BY FS_Subset
      <2>2. IsFiniteSet(Of(Q, g))
            BY <2>1, RoundsFinite
      <2>3. Of(P, g) \in SUBSET Of(Q, g)
            OBVIOUS
      <2> QED BY <2>2, <2>3, FS_Subset, FS_CardinalityType
<1>2. ASSUME NEW g, g \in Fitted(P) PROVE g \in Fitted(Q)
      <2> DEFINE few == {e.rounds : e \in {x \in P : Group(x) = g}}
                 all == {e.rounds : e \in {x \in Q : Group(x) = g}}
      <2>1. g \in {Group(e) : e \in Q} /\ Cardinality(few) >= 2
            BY <1>2 DEF Fitted
      <2>2. Cardinality(few) \in Nat /\ Cardinality(few) <= Cardinality(all) /\ Cardinality(all) \in Nat
            BY <1>1
      <2> HIDE DEF few, all
      <2>3. Cardinality(all) >= 2
            BY <2>1, <2>2
      <2> QED BY <2>1, <2>3 DEF Fitted, all
<1> QED BY <1>2

LEMMA DistancesFinite ==
    ASSUME NEW Q, IsFiniteSet(Q)
    PROVE  IsFiniteSet(ByDistance(Q))
<1> DEFINE f == [e \in Q |-> Group(e)[1]]
           all == {Group(e)[1] : e \in Q}
<1>1. f \in Surjection(Q, all)
      BY DEF Surjection
<1>2. IsFiniteSet(all)
      BY <1>1, FS_Surjection DEF ExistsSurjection
<1>3. ByDistance(Q) \in SUBSET all
      BY DEF ByDistance, Fitted
<1> QED BY <1>2, <1>3, FS_Subset

LEMMA LambdaMonotone ==
    ASSUME NEW Q, IsFiniteSet(Q), NEW P \in SUBSET Q
    PROVE  ByDistance(P) \subseteq ByDistance(Q) /\ (HasLambda(P) => HasLambda(Q))
<1>1. ByDistance(P) \in SUBSET ByDistance(Q)
      BY FittedMonotone DEF ByDistance
<1>2. /\ Cardinality(ByDistance(P)) \in Nat /\ Cardinality(ByDistance(Q)) \in Nat
      /\ Cardinality(ByDistance(P)) <= Cardinality(ByDistance(Q))
      BY <1>1, DistancesFinite, FS_Subset, FS_CardinalityType
<1> QED BY <1>1, <1>2 DEF HasLambda

-----------------------------------------------------------------------------
(* Once the estimate is made, its points are those that decide for           *)
(* themselves; before, nothing was drawn.                                   *)
Recorded == \E lost \in SUBSET Experiments : counts \in [Experiments \ lost -> Fidelity]
Counted  == draws \in -1..MaxDraws /\ lambdaDraws \in Nat
Before   == draws = -1 => epsDraws = {} /\ lambdaDraws = 0
Made     == draws >= 0 => used = Uses(counts, Decided(counts))

LambdaTypeOK == Recorded /\ Counted /\ logged \subseteq Experiments /\ drawnUsed \subseteq Experiments /\ used \subseteq Experiments
LambdaInv == LambdaTypeOK /\ Before /\ Made /\ DrawsUseItsPoints

LEMMA LambdaStarts ==
    ASSUME LambdaInit
    PROVE  LambdaInv
<1>1. LambdaTypeOK /\ Before /\ Made
      BY ExperimentsAssumption DEF LambdaInit, LambdaTypeOK, Recorded, Counted, Before, Made
<1>2. DrawsUseItsPoints
      BY DEF LambdaInit, DrawsUseItsPoints
<1> QED BY <1>1, <1>2 DEF LambdaInv

LEMMA EstimateInv ==
    ASSUME LambdaInv, Estimate
    PROVE  LambdaInv'
<1>1. /\ draws = -1 /\ draws' = 0 /\ used' = Uses(counts, Decided(counts))
      /\ UNCHANGED <<counts, logged, drawnUsed, epsDraws, lambdaDraws>> /\ epsDraws = {} /\ lambdaDraws = 0
      BY DEF LambdaInv, Before, Estimate
<1>2. DOMAIN counts \subseteq Experiments
      BY DEF LambdaInv, LambdaTypeOK, Recorded
<1>3. LambdaTypeOK'
      BY <1>1, <1>2, ExperimentsAssumption DEF LambdaInv, LambdaTypeOK, Recorded, Counted, Uses
<1>4. Before' /\ Made' /\ DrawsUseItsPoints'
      BY <1>1 DEF Before, Made, DrawsUseItsPoints, Uses, Decided
<1> QED BY <1>3, <1>4 DEF LambdaInv

LEMMA DrawInv ==
    ASSUME LambdaInv, Draw
    PROVE  LambdaInv'
<1>1. /\ draws \in 0..(MaxDraws - 1) /\ draws' = draws + 1 /\ UNCHANGED <<counts, used>>
      /\ used = Uses(counts, Decided(counts)) /\ lambdaDraws \in Nat /\ MaxDraws \in Nat
      BY ExperimentsAssumption DEF LambdaInv, Made, LambdaTypeOK, Counted, Draw
<1>2. PICK levels \in [DOMAIN counts -> Fidelity] :
         logged' = {e \in DOMAIN counts : levels[e] # "gone"} /\ drawnUsed' = Uses(levels, KeepOf(levels))
      BY DEF Draw
<1>3. DOMAIN levels = DOMAIN counts /\ DOMAIN counts \subseteq Experiments
      BY DEF LambdaInv, LambdaTypeOK, Recorded
<1>4. drawnUsed' = used \cap logged'
      BY <1>1, <1>2, <1>3 DEF Uses, KeepOf, Decided
<1>5. IsFiniteSet(used) /\ used \subseteq Experiments
      BY ExperimentsAssumption, FS_Subset DEF LambdaInv, LambdaTypeOK
<1>6. ByDistance(drawnUsed') \subseteq ByDistance(used) /\ (HasLambda(drawnUsed') => HasLambda(used))
      BY <1>4, <1>5, LambdaMonotone
<1>7. /\ epsDraws' = epsDraws \cup ByDistance(drawnUsed')
      /\ lambdaDraws' \in {lambdaDraws, lambdaDraws + 1} /\ (lambdaDraws' # lambdaDraws => HasLambda(drawnUsed'))
      BY <1>1 DEF Draw
<1>8. LambdaTypeOK'
      BY <1>1, <1>2, <1>3, <1>4, <1>5, <1>7 DEF LambdaInv, LambdaTypeOK, Recorded, Counted
<1>9. Before' /\ Made' /\ DrawsUseItsPoints'
      BY <1>1, <1>4, <1>6, <1>7 DEF LambdaInv, Before, Made, DrawsUseItsPoints
<1> QED BY <1>8, <1>9 DEF LambdaInv

LEMMA LambdaSteps ==
    ASSUME LambdaInv, [LambdaNext]_lambdaVars
    PROVE  LambdaInv'
<1>1. CASE UNCHANGED lambdaVars
      BY <1>1 DEF lambdaVars, LambdaInv, LambdaTypeOK, Recorded, Counted, Before, Made, DrawsUseItsPoints, Uses, Decided
<1> QED BY <1>1, EstimateInv, DrawInv DEF LambdaNext

(* An interval's draws use the estimate's points, all but those drawn with    *)
(* no logarithm (fitLambda of lambda-fit.js).                               *)
THEOREM IntervalsUseItsPoints == LambdaSpec => []DrawsUseItsPoints
<1>1. LambdaInit => LambdaInv
      BY LambdaStarts
<1>2. LambdaInv /\ [LambdaNext]_lambdaVars => LambdaInv'
      BY LambdaSteps
<1>3. LambdaInv => DrawsUseItsPoints
      BY DEF LambdaInv
<1> QED BY <1>1, <1>2, <1>3, PTL DEF LambdaSpec

-----------------------------------------------------------------------------
(* The least and the largest of a set of naturals.                          *)
LEMMA LeastOf ==
    ASSUME NEW S \in SUBSET Nat, S # {}
    PROVE  Min(S) \in S /\ \A x \in S : Min(S) <= x
<1> DEFINE less == {x \in Nat \X Nat : x[1] < x[2]}
<1>1. IsWellFoundedOn(less, Nat)
      BY NatLessThanWellFounded DEF OpToRel
<1>2. PICK n \in S : \A m \in S : <<m, n>> \notin less
      <2> HIDE DEF less
      <2> QED BY <1>1, WFMin
<1>3. ASSUME NEW m \in S PROVE n <= m
      <2>1. m \in Nat /\ n \in Nat /\ <<m, n>> \notin less
            BY <1>2
      <2> QED BY <2>1
<1> QED BY <1>3 DEF Min

(* A set of naturals below a bound has a largest one.                        *)
LEMMA BoundedMost ==
    ASSUME NEW T \in Nat, NEW S \in SUBSET Nat, S # {}, \A x \in S : x <= T
    PROVE  Max(S) \in S /\ \A x \in S : x <= Max(S)
<1> DEFINE D == {T - x : x \in S}
<1>1. D \in SUBSET Nat /\ D # {}
      <2>1. ASSUME NEW x \in S PROVE T - x \in Nat
            <3>1. x \in Nat /\ x <= T
                  OBVIOUS
            <3> QED BY <3>1
      <2> QED BY <2>1
<1>2. Min(D) \in D /\ \A x \in D : Min(D) <= x
      <2> HIDE DEF D
      <2> QED BY <1>1, LeastOf
<1>3. PICK y \in S : Min(D) = T - y
      BY <1>2
<1>4. ASSUME NEW x \in S PROVE x <= y
      <2>1. T - x \in D
            OBVIOUS
      <2>2. T - y <= T - x
            BY <1>2, <1>3, <2>1
      <2>3. x \in Nat /\ y \in Nat
            BY <1>3
      <2> HIDE DEF D
      <2> QED BY <2>2, <2>3
<1> QED BY <1>4 DEF Max

(* What holds of a set if it holds of its proper subsets holds of all.       *)
LEMMA BySubsets ==
    ASSUME NEW S, IsFiniteSet(S), NEW good,
           \A T \in SUBSET S : (\A U \in SUBSET T : U # T => U \in good) => T \in good
    PROVE  S \in good
<1> DEFINE bad == {T \in SUBSET S : T \notin good}
<1>1. IsWellFoundedOn(StrictSubsetOrdering(S), SUBSET S)
      BY FS_StrictSubsetOrderingWellFounded, FS_FiniteSubsetsOfFinite
<1> SUFFICES ASSUME bad # {} PROVE FALSE
      OBVIOUS
<1>2. PICK T \in bad : \A U \in bad : <<U, T>> \notin StrictSubsetOrdering(S)
      <2>1. bad \subseteq SUBSET S
            OBVIOUS
      <2> HIDE DEF bad
      <2> QED BY <1>1, <2>1, WFMin
<1>3. ASSUME NEW U \in SUBSET T, U # T PROVE U \in good
      <2>1. <<U, T>> \in StrictSubsetOrdering(S)
            BY <1>3 DEF StrictSubsetOrdering
      <2> QED BY <1>2, <2>1
<1> QED BY <1>3

(* So has a finite one.                                                     *)
LEMMA MostOf ==
    ASSUME NEW S \in SUBSET Nat, IsFiniteSet(S), S # {}
    PROVE  Max(S) \in S /\ \A x \in S : x <= Max(S)
<1> DEFINE good == {T \in SUBSET S : \E t \in Nat : \A x \in T : x <= t}
<1>1. ASSUME NEW T \in SUBSET S, \A U \in SUBSET T : U # T => U \in good
      PROVE  T \in good
      <2>1. CASE T = {}
            BY <2>1
      <2>2. CASE T # {}
            <3>1. PICK y : y \in T
                  BY <2>2
            <3>2. PICK t \in Nat : \A x \in T \ {y} : x <= t
                  <4>1. T \ {y} \in SUBSET T /\ T \ {y} # T
                        BY <3>1
                  <4>2. T \ {y} \in good
                        BY <1>1, <4>1
                  <4> QED BY <4>2
            <3>3. y \in Nat
                  BY <3>1
            <3>4. CASE t <= y
                  <4>1. ASSUME NEW x \in T PROVE x <= y
                        BY <3>2, <3>3, <3>4
                  <4> QED BY <3>3, <4>1
            <3>5. CASE y <= t
                  <4>1. ASSUME NEW x \in T PROVE x <= t
                        BY <3>2, <3>3, <3>5
                  <4> QED BY <4>1
            <3> QED BY <3>3, <3>4, <3>5
      <2> QED BY <2>1, <2>2
<1>2. S \in good
      <2> HIDE DEF good
      <2> QED BY <1>1, BySubsets
<1> QED BY <1>2, BoundedMost

-----------------------------------------------------------------------------
(* Where the gap goes from below to above zero, at two rates that are next   *)
(* to each other.                                                          *)
LEMMA GapTurns ==
    ASSUME NEW P \in SUBSET Nat, NEW gap, \A p \in P : gap[p] \in Int /\ gap[p] # 0,
           NEW p0 \in P, NEW q0 \in P, p0 < q0, gap[p0] < 0, gap[q0] > 0
    PROVE  \E p, q \in P : Neighbours(P, p, q) /\ gap[p] < 0 /\ gap[q] > 0
<1> DEFINE B == {x \in P : x > p0 /\ gap[x] > 0}
           q == Min(B)
           A == {x \in P : x < q /\ gap[x] < 0}
           p == Max(A)
<1>1. B \in SUBSET Nat /\ q0 \in B
      OBVIOUS
<1>2. q \in B /\ \A x \in B : q <= x
      <2> HIDE DEF B
      <2> QED BY <1>1, LeastOf
<1>3. q \in P /\ q > p0 /\ gap[q] > 0 /\ q \in Nat
      BY <1>2
<1>4. \A x \in P : x > p0 /\ gap[x] > 0 => q <= x
      BY <1>2
<1> HIDE DEF q, B
<1>5. A \in SUBSET Nat /\ p0 \in A /\ \A x \in A : x <= q
      <2>1. p0 \in Nat /\ p0 < q
            BY <1>3
      <2>2. ASSUME NEW x \in P, x < q PROVE x <= q
            <3>1. x \in Nat
                  OBVIOUS
            <3> QED BY <1>3, <2>2, <3>1
      <2> QED BY <2>1, <2>2
<1>6. p \in A /\ \A x \in A : x <= p
      <2> HIDE DEF A
      <2> QED BY <1>3, <1>5, BoundedMost
<1>7. p \in P /\ p < q /\ gap[p] < 0 /\ p0 <= p
      BY <1>5, <1>6
<1>8. \A x \in P : x < q /\ gap[x] < 0 => x <= p
      BY <1>6
<1> HIDE DEF p, A
<1>9. ASSUME NEW r \in P, p < r, r < q PROVE FALSE
      <2>1. p \in Nat /\ r \in Nat /\ q \in Nat /\ p0 \in Nat
            BY <1>3, <1>7
      <2>2. gap[r] \in Int /\ gap[r] # 0
            OBVIOUS
      <2>3. ~(gap[r] < 0)
            BY <1>8, <1>9, <2>1
      <2>4. ~(gap[r] > 0)
            BY <1>4, <1>7, <1>9, <2>1
      <2> QED BY <2>2, <2>3, <2>4
<1> QED BY <1>3, <1>7, <1>9 DEF Neighbours

(* A whole sweep that is bracketed has a crossing of its extremes.           *)
LEMMA BracketsCross ==
    ASSUME SweepAssumption, NEW s, DOMAIN s = SweptDistances \X SweptRates, \A x \in DOMAIN s : s[x] \in Nat,
           Cardinality(DistancesOf(s)) >= 2, Bracketed(s), \A p \in SweptRates : Gap(s, p) # 0
    PROVE  \E x \in Crossings(s) : /\ x[1] = Min(SweptDistances) /\ x[2] = Max(SweptDistances)
                                   /\ x[3] < Max(SweptRates)
<1> DEFINE D == SweptDistances
           P == SweptRates
           lo == Min(D)
           hi == Max(D)
<1>1. /\ D \in SUBSET Nat /\ IsFiniteSet(D) /\ P \in SUBSET Nat /\ IsFiniteSet(P)
      /\ Cardinality(P) \in Nat /\ Cardinality(P) >= 2
      BY FS_CardinalityType DEF SweepAssumption
<1>2. P # {}
      <2>1. Cardinality({}) = 0
            BY FS_EmptySet
      <2>2. ASSUME P = {} PROVE FALSE
            BY <1>1, <2>1, <2>2
      <2> QED BY <2>2
<1>3. DistancesOf(s) = D
      <2>1. PICK p : p \in P
            BY <1>2
      <2>2. ASSUME NEW d \in D PROVE d \in DistancesOf(s)
            <3>1. <<d, p>> \in DOMAIN s /\ <<d, p>>[1] = d
                  BY <2>1
            <3> QED BY <3>1 DEF DistancesOf
      <2>3. ASSUME NEW d \in DistancesOf(s) PROVE d \in D
            BY <2>3 DEF DistancesOf
      <2> QED BY <2>2, <2>3
<1>4. D # {} /\ lo \in D /\ hi \in D /\ lo < hi
      <2>1. D # {}
            <3>1. Cardinality({}) = 0 /\ Cardinality(D) >= 2
                  BY <1>3, FS_EmptySet
            <3>2. ASSUME D = {} PROVE FALSE
                  BY <3>1, <3>2
            <3> QED BY <3>2
      <2>2. lo \in D /\ (\A x \in D : lo <= x) /\ hi \in D /\ (\A x \in D : x <= hi)
            BY <1>1, <2>1, LeastOf, MostOf
      <2>3. lo # hi
            <3> SUFFICES ASSUME lo = hi PROVE FALSE
                OBVIOUS
            <3>1. ASSUME NEW x \in D PROVE x = lo
                  <4>1. lo <= x /\ x <= hi /\ x \in Nat /\ lo \in Nat /\ hi \in Nat
                        BY <1>1, <2>2
                  <4> HIDE DEF lo, hi, D
                  <4> QED BY <4>1
            <3>2. D = {lo}
                  BY <2>2, <3>1
            <3>3. Cardinality({lo}) = 1 /\ Cardinality(D) >= 2
                  BY <1>3, FS_Singleton
            <3> HIDE DEF lo
            <3> QED BY <3>2, <3>3
      <2>4. lo \in Nat /\ hi \in Nat /\ lo <= hi
            BY <1>1, <2>2
      <2>5. lo < hi
            <3> HIDE DEF lo, hi
            <3> QED BY <2>3, <2>4
      <2> QED BY <2>1, <2>2, <2>5
<1>5. ASSUME NEW p \in P PROVE At(s, p) = D
      <2>1. ASSUME NEW d \in D PROVE d \in At(s, p)
            <3>1. <<d, p>> \in DOMAIN s /\ <<d, p>>[1] = d /\ <<d, p>>[2] = p
                  OBVIOUS
            <3> QED BY <3>1 DEF At
      <2>2. ASSUME NEW d \in At(s, p) PROVE d \in D
            BY <2>2 DEF At
      <2> QED BY <2>1, <2>2
<1>6. ASSUME NEW p \in P
      PROVE  /\ Gap(s, p) = s[<<hi, p>>] - s[<<lo, p>>]
             /\ s[<<hi, p>>] \in Nat /\ s[<<lo, p>>] \in Nat /\ Gap(s, p) \in Int
      <2>1. Gap(s, p) = s[<<hi, p>>] - s[<<lo, p>>]
            BY <1>5 DEF Gap
      <2>2. s[<<hi, p>>] \in Nat /\ s[<<lo, p>>] \in Nat
            BY <1>4
      <2> QED BY <2>1, <2>2
<1>7. ComparedRates(s) = P
      BY <1>3, <1>5 DEF ComparedRates
<1>8. AheadAt(s) # {} /\ BehindAt(s) # {} /\ Min(AheadAt(s)) < Max(BehindAt(s))
      BY <1>1, <1>7 DEF Bracketed
<1> DEFINE p0 == Min(AheadAt(s))
           q0 == Max(BehindAt(s))
<1>9. p0 \in P /\ Gap(s, p0) < 0 /\ q0 \in P /\ Gap(s, q0) > 0
      <2>1. AheadAt(s) \in SUBSET P /\ BehindAt(s) \in SUBSET P
            BY <1>7 DEF AheadAt, BehindAt
      <2>2. AheadAt(s) \in SUBSET Nat /\ BehindAt(s) \in SUBSET Nat /\ IsFiniteSet(BehindAt(s))
            BY <1>1, <2>1, FS_Subset
      <2>3. p0 \in AheadAt(s) /\ q0 \in BehindAt(s)
            BY <1>8, <2>2, LeastOf, MostOf
      <2> QED BY <1>7, <2>3 DEF AheadAt, BehindAt
<1> HIDE DEF p0, q0
<1>10. PICK p, q \in P : Neighbours(P, p, q) /\ Gap(s, p) < 0 /\ Gap(s, q) > 0
       <2> DEFINE gap == [p \in P |-> Gap(s, p)]
       <2>1. \A p \in P : gap[p] = Gap(s, p)
             OBVIOUS
       <2> HIDE DEF gap
       <2>2. \A p \in P : gap[p] \in Int /\ gap[p] # 0
             BY <1>6, <2>1
       <2>3. p0 < q0
             BY <1>8 DEF p0, q0
       <2>4. gap[p0] < 0 /\ gap[q0] > 0
             BY <1>9, <2>1
       <2>5. \E p, q \in P : Neighbours(P, p, q) /\ gap[p] < 0 /\ gap[q] > 0
             BY <1>1, <1>9, <2>2, <2>3, <2>4, GapTurns
       <2> QED BY <2>1, <2>5
<1>11. Shared(s, lo, hi) = P
       BY <1>4 DEF Shared
<1>12. p \in CrossesAt(s, lo, hi)
       <2>1. s[<<hi, p>>] < s[<<lo, p>>] /\ s[<<hi, q>>] > s[<<lo, q>>]
             BY <1>6, <1>10
       <2> QED BY <1>10, <1>11, <2>1 DEF CrossesAt
<1> DEFINE C == CrossesAt(s, lo, hi)
           x == <<lo, hi, Min(C)>>
<1>13. C \in SUBSET Nat /\ C # {}
       BY <1>1, <1>11, <1>12 DEF CrossesAt
<1>14. Min(C) \in C
       <2> HIDE DEF C
       <2> QED BY <1>13, LeastOf
<1>15. Min(C) \in P /\ \E r \in P : Min(C) < r
       <2> DEFINE m == Min(C)
       <2>1. m \in CrossesAt(s, lo, hi)
             BY <1>14
       <2> HIDE DEF m
       <2>2. m \in P /\ \E r \in P : m < r
             BY <1>11, <2>1 DEF CrossesAt, Neighbours
       <2> QED BY <2>2 DEF m
<1>16. Min(C) < Max(P)
       <2>1. PICK r \in P : Min(C) < r
             BY <1>15
       <2>2. Max(P) \in P /\ r <= Max(P)
             BY <1>1, <1>2, MostOf
       <2>3. Min(C) \in Nat /\ r \in Nat /\ Max(P) \in Nat
             BY <1>1, <1>15, <2>2
       <2> HIDE DEF C
       <2> QED BY <2>1, <2>2, <2>3
<1>17. x \in Crossings(s)
       <2> DEFINE y == <<lo, hi>>
       <2>1. y \in DistancesOf(s) \X DistancesOf(s) /\ y[1] = lo /\ y[2] = hi
             BY <1>3, <1>4
       <2>2. y[1] < y[2] /\ CrossesAt(s, y[1], y[2]) # {}
             BY <1>4, <1>12, <2>1
       <2>3. x = <<y[1], y[2], Min(CrossesAt(s, y[1], y[2]))>>
             BY <2>1
       <2> HIDE DEF y, x
       <2> QED BY <2>1, <2>2, <2>3 DEF Crossings
<1> HIDE DEF C
<1> QED BY <1>16, <1>17

-----------------------------------------------------------------------------
(* What is fitted has passed the screen, and what is shown are its crossings. *)
FitInv ==
    /\ DistancesOf(sweep) \subseteq SweptDistances
    /\ \A x \in DOMAIN sweep : sweep[x] \in Nat
    /\ step \in {"fit", "draws", "reported"} => Bracketed(sweep) /\ Cardinality(DistancesOf(sweep)) >= 2
    /\ step = "reported" => crossed = Crossings(sweep)

LEMMA FitStarts == FitInit => FitInv
<1> SUFFICES ASSUME FitInit PROVE FitInv
    OBVIOUS
<1>1. PICK missing \in SUBSET (SweptDistances \X SweptRates) :
         /\ DOMAIN sweep = (SweptDistances \X SweptRates) \ missing
         /\ \A x \in DOMAIN sweep : sweep[x] \in RatesAt[x[1]]
      BY DEF FitInit
<1>2. ASSUME NEW x \in DOMAIN sweep PROVE sweep[x] \in Nat
      <2>1. x[1] \in SweptDistances /\ sweep[x] \in RatesAt[x[1]]
            BY <1>1
      <2> QED BY <2>1, SweepAssumption
<1>3. DistancesOf(sweep) \subseteq SweptDistances
      BY <1>1 DEF DistancesOf
<1> QED BY <1>2, <1>3 DEF FitInit, FitInv

LEMMA FitSteps == FitInv /\ [FitNext]_fitVars => FitInv'
<1> SUFFICES ASSUME FitInv, [FitNext]_fitVars PROVE FitInv'
    OBVIOUS
<1>1. sweep' = sweep
      BY DEF FitNext, Screen, Fit, Draws, fitVars
<1>2. Bracketed(sweep)' = Bracketed(sweep) /\ DistancesOf(sweep)' = DistancesOf(sweep) /\ Crossings(sweep)' = Crossings(sweep)
      BY <1>1
<1>3. CASE Screen
      <2>1. SweepRefused \/ (Bracketed(sweep) /\ Cardinality(DistancesOf(sweep)) >= 2)
            <3>1. Cardinality(DistancesOf(sweep)) \in Nat
                  BY SweepAssumption, FS_Subset, FS_CardinalityType DEF FitInv
            <3> QED BY <3>1 DEF SweepRefused
      <2> QED BY <1>1, <1>2, <1>3, <2>1 DEF Screen, FitInv
<1>4. CASE Fit
      BY <1>1, <1>2, <1>4 DEF Fit, FitInv
<1>5. CASE Draws
      BY <1>1, <1>2, <1>5 DEF Draws, FitInv
<1>6. CASE UNCHANGED fitVars
      BY <1>1, <1>2, <1>6 DEF fitVars, FitInv
<1> QED BY <1>3, <1>4, <1>5, <1>6 DEF FitNext

(* ReportedCrosses for any distances, rates, counts and limits: a threshold   *)
(* reported for a whole sweep lies where the curves of the smallest and the   *)
(* largest distance are shown to cross (fitThreshold, crossings).            *)
THEOREM ReportsWhatCrosses == FitSpec => []ReportedCrosses
<1>1. FitInv => ReportedCrosses
      <2> SUFFICES ASSUME FitInv, step = "reported", Whole, \A p \in SweptRates : Gap(sweep, p) # 0
                   PROVE  \E x \in crossed : /\ x[1] = Min(SweptDistances) /\ x[2] = Max(SweptDistances)
                                             /\ x[3] < Max(SweptRates)
          BY DEF ReportedCrosses
      <2> QED BY BracketsCross, SweepAssumption DEF FitInv, Whole
<1> QED BY <1>1, FitStarts, FitSteps, PTL DEF FitSpec

-----------------------------------------------------------------------------
(* Arithmetic that the provers do not find by themselves.                   *)
LEMMA TimesRises ==
    ASSUME NEW a \in Nat, NEW b \in Nat, NEW c \in Nat, a <= b
    PROVE  c * a <= c * b
<1>1. PICK k \in Nat : b = a + k
      <2>1. b - a \in Nat /\ b = a + (b - a)
            OBVIOUS
      <2> QED BY <2>1
<1>2. c * b = c * a + c * k
      BY <1>1
<1>3. c * k \in Nat /\ c * a \in Nat
      OBVIOUS
<1> QED BY <1>2, <1>3

LEMMA CeilDivType ==
    ASSUME NEW a \in Nat, NEW b \in Nat \ {0}
    PROVE  CeilDiv(a, b) \in Nat
<1>1. a + b - 1 \in Nat
      OBVIOUS
<1>2. ASSUME NEW n \in Nat PROVE n \div b \in Nat
      OBVIOUS
<1> QED BY <1>1, <1>2 DEF CeilDiv

LEMMA CeilRootType ==
    ASSUME NEW n \in Nat
    PROVE  CeilRoot(n) \in Nat
<1>1. IsFiniteSet(0..n)
      BY FS_Interval
<1>2. {k \in 0..n : k * k < n} \subseteq 0..n
      OBVIOUS
<1> QED BY <1>1, <1>2, FS_Subset, FS_CardinalityType DEF CeilRoot

-----------------------------------------------------------------------------
(* What a question's shares of the failure are made of.                     *)
LEMMA ColdType ==
    ASSUME NEW q \in Questions
    PROVE  Cold(q) \in Nat /\ Hot(q) \in Nat
BY DEF Questions, Cold, Hot, Larger

LEMMA TilesType ==
    ASSUME NEW q \in Questions
    PROVE  Tiles(q) \in Nat /\ Steps(q) \in Nat
<1>1. q.block \in {"compact", "intermediate", "fast"}
      BY DEF Questions
<1>2. Hot(q) \in Nat
      BY ColdType
<1>3. CeilDiv(3 * Hot(q) + 6, 2) \in Nat
      BY <1>2, CeilDivType
<1>4. CeilRoot(8 * Hot(q)) \in Nat
      BY <1>2, CeilRootType
<1>5. Tiles(q) \in Nat
      BY <1>1, <1>2, <1>3, <1>4 DEF Tiles
<1>6. Steps(q) \in Nat
      BY <1>1 DEF Steps
<1> QED BY <1>5, <1>6

LEMMA FactoryType ==
    ASSUME NEW q \in Questions
    PROVE  FactoryFor(q).states \in Nat /\ FactoryFor(q).error \in Nat
<1>1. CASE q.factory = "cultivation"
      BY <1>1, DataAssumption DEF FactoryFor, NoFactory
<1>2. CASE q.factory # "cultivation" /\ Fitting(q) = {}
      BY <1>2 DEF FactoryFor, NoFactory
<1>3. CASE q.factory # "cultivation" /\ Fitting(q) # {}
      <2> DEFINE best == CHOOSE p \in Fitting(q) : \A r \in Fitting(q) : p.cost * p.states <= r.cost * r.states
      <2>1. Fitting(q) \in SUBSET Protocols
            BY DEF Fitting
      <2>2. \E p \in Fitting(q) : \A r \in Fitting(q) : p.cost * p.states <= r.cost * r.states
            BY <1>3, <2>1, DataAssumption
      <2>3. best \in Fitting(q)
            BY <2>2
      <2>4. best.states \in Nat /\ best.error \in Nat
            BY <2>1, <2>3, DataAssumption
      <2>5. FactoryFor(q) = [states |-> best.states, error |-> best.states * best.error]
            BY <1>3 DEF FactoryFor
      <2> HIDE DEF best
      <2>6. best.states * best.error \in Nat
            BY <2>4
      <2> QED BY <2>4, <2>5, <2>6
<1> QED BY <1>1, <1>2, <1>3

LEMMA StorageRateType ==
    ASSUME NEW q \in Questions
    PROVE  StorageRate(q) \in Nat
<1>1. Cold(q) \in Nat /\ q.storage \in {"surface", "yoked", "gross"} /\ q.noise \in Noises
      BY ColdType DEF Questions
<1>2. CeilDiv(Cold(q), GrossLogical) \in Nat
      BY <1>1, CeilDivType, DataAssumption
<1>3. GrossRate[q.noise] \in Nat /\ YokedRate \in Nat
      BY <1>1, DataAssumption
<1> DEFINE modules == CeilDiv(Cold(q), GrossLogical)
           rate == GrossRate[q.noise]
           cold == Cold(q)
<1>4. CASE q.storage = "surface"
      BY <1>4 DEF StorageRate
<1>5. CASE q.storage = "yoked"
      <2>1. StorageRate(q) = cold * YokedRate
            BY <1>5 DEF StorageRate
      <2>2. cold \in Nat
            BY <1>1
      <2> HIDE DEF cold
      <2> QED BY <1>3, <2>1, <2>2
<1>6. CASE q.storage = "gross"
      <2>1. StorageRate(q) = modules * rate
            BY <1>6 DEF StorageRate
      <2>2. modules \in Nat /\ rate \in Nat
            BY <1>2, <1>3
      <2> HIDE DEF modules, rate
      <2> QED BY <2>1, <2>2
<1> QED BY <1>1, <1>4, <1>5, <1>6

-----------------------------------------------------------------------------
(* A run takes the longer, the larger the distance.                         *)
LEMMA CyclesRise ==
    ASSUME NEW q \in Questions, NEW a \in 1..MaxD, NEW b \in 1..MaxD, a <= b
    PROVE  /\ Cycles(q, a) \in Nat /\ Cycles(q, b) \in Nat
           /\ Cycles(q, a) <= Cycles(q, b)
<1>0. a \in Nat /\ b \in Nat
      BY DataAssumption
<1> DEFINE perStep == Steps(q) * FactoryFor(q).states
<1>1. perStep \in Nat
      <2>1. Steps(q) \in Nat /\ FactoryFor(q).states \in Nat
            BY TilesType, FactoryType
      <2> QED BY <2>1
<1>2. /\ Clifford(q, a) = perStep * a
      /\ Clifford(q, b) = perStep * b
      BY DEF Clifford
<1>3. /\ perStep * a <= perStep * b
      /\ perStep * a \in Nat
      /\ perStep * b \in Nat
      <2> HIDE DEF perStep
      <2> QED BY <1>0, <1>1, TimesRises
<1>4. /\ Clifford(q, a) \in Nat
      /\ Clifford(q, b) \in Nat
      /\ Clifford(q, a) <= Clifford(q, b)
      BY <1>2, <1>3
<1>5. /\ LatencyAt(a) \in Nat
      /\ LatencyAt(b) \in Nat
      /\ LatencyAt(a) <= LatencyAt(b)
      BY DataAssumption, LatencyRises
<1>6. q.decoder \in Nat \cup {-1} /\ q.toffolis \in Nat /\ Control \in Nat
      BY DataAssumption DEF Questions
<1>7. /\ Reaction(q, a) \in Nat
      /\ Reaction(q, b) \in Nat
      /\ Reaction(q, a) <= Reaction(q, b)
      BY <1>5, <1>6 DEF Reaction
<1> DEFINE la == Larger(Clifford(q, a), Reaction(q, a))
           lb == Larger(Clifford(q, b), Reaction(q, b))
<1>8. la \in Nat /\ lb \in Nat /\ la <= lb
      BY <1>4, <1>7 DEF Larger
<1>9. Cycles(q, a) = q.toffolis * la /\ Cycles(q, b) = q.toffolis * lb
      BY DEF Cycles
<1> HIDE DEF la, lb
<1>10. q.toffolis * la <= q.toffolis * lb /\ q.toffolis * la \in Nat /\ q.toffolis * lb \in Nat
      BY <1>6, <1>8, TimesRises
<1> QED BY <1>9, <1>10

(* So what it stores fails the more, and its patches never fail negatively.  *)
LEMMA SharesRise ==
    ASSUME NEW q \in Questions, NEW a \in 1..MaxD, NEW b \in 1..MaxD, a <= b
    PROVE  /\ StorageFailure(q, a) \in Nat /\ StorageFailure(q, b) \in Nat
           /\ StorageFailure(q, a) <= StorageFailure(q, b)
           /\ MemoryFailure(q, b) \in Nat
           /\ MagicFailure(q) \in Nat
           /\ Budget(q) \in Nat
<1>1. Cycles(q, a) \in Nat /\ Cycles(q, b) \in Nat /\ Cycles(q, a) <= Cycles(q, b)
      BY CyclesRise
<1>2. StorageRate(q) \in Nat
      BY StorageRateType
<1> DEFINE ca == Cycles(q, a)
           cb == Cycles(q, b)
           rate == StorageRate(q)
           tiles == Tiles(q)
           eps == Epsilon[q.noise][b]
           bad == FactoryFor(q).error
<1>3. tiles \in Nat /\ bad \in Nat
      BY TilesType, FactoryType
<1>4. eps \in Nat
      <2>1. q.noise \in Noises
            BY DEF Questions
      <2> QED BY <2>1, DataAssumption
<1>5. q.toffolis \in Nat /\ q.parallel \in Nat /\ q.budget \in Nat
      BY DEF Questions
<1>6. /\ StorageFailure(q, a) = rate * ca
      /\ StorageFailure(q, b) = rate * cb
      /\ MemoryFailure(q, b) = (tiles * eps) * cb
      /\ MagicFailure(q) = (q.toffolis * bad) * q.parallel
      /\ Budget(q) = q.budget * q.parallel
      BY DEF StorageFailure, MemoryFailure, MagicFailure, Budget
<1>7. ca \in Nat /\ cb \in Nat /\ rate \in Nat /\ ca <= cb
      BY <1>1, <1>2
<1> HIDE DEF ca, cb, rate, tiles, eps, bad
<1>8. rate * ca <= rate * cb /\ rate * ca \in Nat /\ rate * cb \in Nat
      BY <1>7, TimesRises
<1>9. tiles * eps \in Nat /\ q.toffolis * bad \in Nat
      BY <1>3, <1>4, <1>5
<1>10. (tiles * eps) * cb \in Nat
      BY <1>7, <1>9
<1>11. (q.toffolis * bad) * q.parallel \in Nat /\ q.budget * q.parallel \in Nat
      BY <1>5, <1>9
<1> QED BY <1>6, <1>8, <1>10, <1>11
-----------------------------------------------------------------------------
(* Where even the largest share is over the budget at a distance, it is at    *)
(* every larger one.                                                        *)
LEMMA HopelessForGood ==
    ASSUME NEW q \in Questions, q.kind = "full",
           NEW a \in 1..MaxD, NEW b \in 1..MaxD, a <= b, Hopeless(q, a)
    PROVE  ~Meets(q, b)
<1>1. /\ StorageFailure(q, a) \in Nat /\ StorageFailure(q, b) \in Nat
      /\ StorageFailure(q, a) <= StorageFailure(q, b)
      /\ MemoryFailure(q, b) \in Nat /\ MagicFailure(q) \in Nat /\ Budget(q) \in Nat
      BY SharesRise
<1>2. StorageFailure(q, a) + MagicFailure(q) > Budget(q)
      BY DEF Hopeless
<1>3. ~(MemoryFailure(q, b) + StorageFailure(q, b) + MagicFailure(q) <= Budget(q))
      BY <1>1, <1>2
<1> QED BY <1>3 DEF Meets

-----------------------------------------------------------------------------
(* What the reader's form asks is a question, and stays a form.              *)
LEMMA AlgorithmType ==
    ASSUME NEW f \in Forms
    PROVE  /\ Algorithm(f).qubits \in Nat \ {0}
           /\ Algorithm(f).hot \in Nat
           /\ Algorithm(f).toffolis \in Nat \ {0}
<1>1. CASE f.preset \in DOMAIN Presets
      BY <1>1, DataAssumption DEF Algorithm
<1>2. CASE f.preset \notin DOMAIN Presets
      BY <1>2 DEF Algorithm, Forms, Larger, Smaller
<1> QED BY <1>1, <1>2

LEMMA QuestionType ==
    ASSUME NEW f \in Forms, NEW a, a.qubits \in Nat \ {0}, a.hot \in Nat, a.toffolis \in Nat \ {0}
    PROVE  FullQuestion(a, f) \in Questions
BY DEF FullQuestion, Questions, Forms

LEMMA PresetType ==
    ASSUME NEW p \in DOMAIN Presets
    PROVE  Presets[p].qubits \in Nat \ {0} /\ Presets[p].hot \in Nat /\ Presets[p].toffolis \in Nat \ {0}
BY DataAssumption

LEMMA ShownType ==
    ASSUME NEW f \in Forms
    PROVE  Shown(f) \in Forms
<1>1. CASE f.preset \notin DOMAIN Presets
      BY <1>1 DEF Shown
<1>2. CASE f.preset \in DOMAIN Presets
      <2>1. Presets[f.preset].qubits \in Nat /\ Presets[f.preset].hot \in Nat /\ Presets[f.preset].typed \in Nat \ {0}
            BY <1>2, DataAssumption
      <2> QED BY <1>2, <2>1 DEF Shown, Forms
<1> QED BY <1>1, <1>2

LEMMA ChangesType ==
    ASSUME fields \in Forms, NEW f \in Changes
    PROVE  f \in Forms
<1>1. /\ TypedCounts \subseteq Nat /\ TypedToffolis \subseteq Nat \ {0}
      /\ Parallels \subseteq Nat \ {0} /\ Budgets \subseteq Nat
      BY DataAssumption
<1>2. CASE \E p \in DOMAIN Presets \cup {Custom} : f = [fields EXCEPT !.preset = p]
      BY <1>2 DEF Forms
<1>3. CASE \E n \in TypedCounts : f = [fields EXCEPT !.qubits = n, !.preset = Custom]
      BY <1>1, <1>3 DEF Forms
<1>4. CASE \E n \in TypedCounts : f = [fields EXCEPT !.hot = n, !.preset = Custom]
      BY <1>1, <1>4 DEF Forms
<1>5. CASE \E n \in TypedToffolis : f = [fields EXCEPT !.toffolis = n, !.preset = Custom]
      BY <1>1, <1>5 DEF Forms
<1>6. CASE \E n \in Noises : f = [fields EXCEPT !.noise = n]
      BY <1>6 DEF Forms
<1>7. CASE \E x \in {"cultivation", "distillation"} : f = [fields EXCEPT !.factory = x]
      BY <1>7 DEF Forms
<1>8. CASE \E x \in {"compact", "intermediate", "fast"} : f = [fields EXCEPT !.block = x]
      BY <1>8 DEF Forms
<1>9. CASE \E x \in {"surface", "yoked", "gross"} : f = [fields EXCEPT !.storage = x]
      BY <1>9 DEF Forms
<1>10. CASE \E b \in Budgets : f = [fields EXCEPT !.budget = b]
       BY <1>1, <1>10 DEF Forms
<1>11. CASE \E l \in {-1, 0} : f = [fields EXCEPT !.decoder = l]
       BY <1>11 DEF Forms
<1>12. CASE \E k \in Parallels : f = [fields EXCEPT !.parallel = k]
       BY <1>1, <1>12 DEF Forms
<1> QED BY <1>2, <1>3, <1>4, <1>5, <1>6, <1>7, <1>8, <1>9, <1>10, <1>11, <1>12 DEF Changes

LEMMA ComparedType ==
    ASSUME NEW f \in Compared
    PROVE  f \in Forms
<1>1. /\ Default \in Forms /\ Default.noise \in Noises
      /\ Parallels \subseteq Nat \ {0} /\ Budgets \subseteq Nat
      BY DataAssumption DEF Forms
<1>2. ASSUME NEW n \in Noises, NEW k \in Parallels, NEW b \in Budgets
      PROVE  Theirs(n, k, b) \in Forms
      BY <1>1 DEF Forms, Theirs
<1>3. Published \subseteq Forms
      BY <1>2 DEF Published
<1>4. ASSUME NEW x \in {"cultivation", "distillation"}
      PROVE  Ours(x) \in Forms
      BY <1>1 DEF Forms, Ours
<1>5. ASSUME NEW g \in Forms
      PROVE  Switches(g) \subseteq Forms
      <2>1. [g EXCEPT !.noise = Default.noise] \in Forms
            BY <1>1 DEF Forms
      <2>2. [g EXCEPT !.parallel = 1] \in Forms
            BY DEF Forms
      <2>3. [g EXCEPT !.storage = "surface"] \in Forms
            BY DEF Forms
      <2>4. [g EXCEPT !.decoder = -1] \in Forms
            BY DEF Forms
      <2> QED BY <2>1, <2>2, <2>3, <2>4 DEF Switches
<1>6. Switched \subseteq Forms
      BY <1>3, <1>5 DEF Switched
<1>7. {Ours(x) : x \in {"cultivation", "distillation"}} \subseteq Forms
      BY <1>4
<1> QED BY <1>3, <1>6, <1>7 DEF Compared

LEMMA CasesType ==
    ASSUME NEW q \in Cases
    PROVE  q \in Questions
<1>1. PICK p \in DOMAIN Presets, f \in Compared : q = FullQuestion(Presets[p], f)
      BY DEF Cases
<1>2. f \in Forms
      BY <1>1, ComparedType
<1>3. FullQuestion(Presets[p], f) \in Questions
      <2>1. ASSUME NEW a, a = Presets[p]
            PROVE  FullQuestion(a, f) \in Questions
            BY <1>2, <2>1, PresetType, QuestionType
      <2> QED BY <2>1
<1> QED BY <1>1, <1>3

-----------------------------------------------------------------------------
(* The inductive invariant: the types, that no smaller distance met the       *)
(* budget while the walk goes on, and what is promised of its end.           *)
EstimatorInv == TypeOK /\ NoneBefore /\ CheapestDistance

LEMMA EstimatorStarts == EstimateInit => EstimatorInv
<1> SUFFICES ASSUME EstimateInit PROVE EstimatorInv
    OBVIOUS
<1>1. fields \in Forms
      BY DataAssumption DEF EstimateInit
<1>2. question \in Questions
      BY DataAssumption, AlgorithmType, QuestionType DEF EstimateInit
<1>3. TypeOK
      BY <1>1, <1>2 DEF EstimateInit, TypeOK
<1>4. NoneBefore /\ CheapestDistance
      BY DEF EstimateInit, NoneBefore, CheapestDistance
<1> QED BY <1>3, <1>4 DEF EstimatorInv

(* A new question starts the walk afresh.                                   *)
LEMMA AskedInv ==
    ASSUME NEW q \in Questions, Asks(q), fields' \in Forms
    PROVE  EstimatorInv'
<1>1. question' \in Questions /\ distance' = 3 /\ answer' = "pending"
      BY DEF Asks
<1>2. TypeOK'
      BY <1>1 DEF TypeOK
<1>3. \A d \in OddDistances : ~(d < 3)
      BY DEF OddDistances
<1>4. NoneBefore' /\ CheapestDistance'
      BY <1>1, <1>3 DEF NoneBefore, CheapestDistance
<1> QED BY <1>2, <1>4 DEF EstimatorInv

(* One step of the walk.                                                    *)
LEMMA TryInv ==
    ASSUME EstimatorInv, Try
    PROVE  EstimatorInv'
<1> USE DEF EstimatorInv
<1>1. /\ answer = "pending" /\ question' = question /\ fields' = fields
      /\ question \in Questions /\ distance \in Nat /\ distance >= 3 /\ distance % 2 = 1
      BY DEF Try, TypeOK
<1>2. \A d \in OddDistances : d < distance => ~Meets(question, d)
      BY <1>1 DEF NoneBefore
<1>3. \A d \in OddDistances : d \in 1..MaxD
      BY DataAssumption DEF OddDistances
<1>4. question.kind \in {"full", "simple"}
      BY <1>1 DEF Questions
<1>5. CASE Refusal(question, distance) # "none"
      <2>1. answer' = Refusal(question, distance) /\ distance' = distance
            BY <1>5 DEF Try
      <2>2. answer' \in {"nothing helps", "not measured", "no distance", "no factory", "hopeless"}
            BY <1>5, <2>1 DEF Refusal
      <2>3. ASSUME NEW d \in OddDistances PROVE ~Meets(question, d)
            <3>1. CASE answer' = "nothing helps"
                  BY <2>1, <3>1 DEF Refusal, Meets
            <3>2. CASE answer' = "not measured"
                  BY <2>1, <3>2 DEF Refusal, Meets
            <3>3. CASE answer' = "no factory"
                  BY <2>1, <3>3 DEF Refusal, Meets
            <3>4. CASE answer' = "no distance"
                  <4>1. distance > MaxD
                        BY <2>1, <3>4 DEF Refusal
                  <4>2. d < distance
                        BY <1>1, <4>1, DataAssumption DEF OddDistances
                  <4> QED BY <1>2, <4>2
            <3>5. CASE answer' = "hopeless"
                  <4>1. /\ question.kind = "full" /\ ~(distance > MaxD)
                        /\ Hopeless(question, distance)
                        BY <2>1, <3>5 DEF Refusal
                  <4>2. distance \in 1..MaxD
                        BY <1>1, <4>1, DataAssumption
                  <4>3. d < distance \/ distance <= d
                        BY <1>1, <1>3
                  <4> QED BY <1>1, <1>2, <1>3, <4>1, <4>2, <4>3, HopelessForGood
            <3> QED BY <2>2, <3>1, <3>2, <3>3, <3>4, <3>5
      <2>4. TypeOK'
            BY <1>1, <2>1, <2>2 DEF TypeOK
      <2>5. NoneBefore' /\ CheapestDistance'
            BY <1>1, <2>1, <2>2, <2>3 DEF NoneBefore, CheapestDistance
      <2> QED BY <2>4, <2>5
<1>6. CASE Refusal(question, distance) = "none"
      <2>1. /\ question.kind = "simple" => question.noise \in Improves
            /\ question.kind = "full" => ~Unmeasured(question) /\ FactoryFor(question) # NoFactory
            /\ ~(distance > MaxD)
            BY <1>6 DEF Refusal
      <2>2. distance \in OddDistances
            BY <1>1, <2>1, DataAssumption DEF OddDistances
      <2>3. Meets(question, distance) <=> Within(question, distance)
            BY <1>4, <2>1 DEF Meets, Within
      <2>4. CASE Within(question, distance)
            <3>1. answer' = "found" /\ distance' = distance
                  BY <1>6, <2>4 DEF Try
            <3>2. TypeOK'
                  BY <1>1, <3>1 DEF TypeOK
            <3>3. NoneBefore' /\ CheapestDistance'
                  BY <1>1, <1>2, <2>2, <2>3, <2>4, <3>1 DEF NoneBefore, CheapestDistance
            <3> QED BY <3>2, <3>3
      <2>5. CASE ~Within(question, distance)
            <3>1. answer' = answer /\ distance' = distance + 2
                  BY <1>6, <2>5 DEF Try
            <3>2. distance' \in Nat /\ distance' >= 3 /\ distance' % 2 = 1
                  BY <1>1, <3>1
            <3>3. TypeOK'
                  BY <1>1, <3>1, <3>2 DEF TypeOK
            <3>4. ASSUME NEW d \in OddDistances, d < distance' PROVE ~Meets(question', d)
                  <4>1. d \in Nat /\ d % 2 = 1
                        BY DataAssumption DEF OddDistances
                  <4>2. d < distance \/ d = distance
                        BY <1>1, <3>1, <3>4, <4>1
                  <4> QED BY <1>1, <1>2, <2>3, <2>5, <4>2
            <3>5. NoneBefore' /\ CheapestDistance'
                  BY <1>1, <3>1, <3>4 DEF NoneBefore, CheapestDistance
            <3> QED BY <3>3, <3>5
      <2> QED BY <2>4, <2>5
<1> QED BY <1>5, <1>6

LEMMA EstimatorSteps == EstimatorInv /\ [EstimateNext]_estimateVars => EstimatorInv'
<1> SUFFICES ASSUME EstimatorInv, [EstimateNext]_estimateVars PROVE EstimatorInv'
    OBVIOUS
<1>0. fields \in Forms
      BY DEF EstimatorInv, TypeOK
<1>1. ASSUME NEW f \in Forms, Renders(f) PROVE EstimatorInv'
      <2>1. Shown(f) \in Forms /\ FullQuestion(Algorithm(f), f) \in Questions
            BY ShownType, AlgorithmType, QuestionType
      <2> QED BY <1>1, <2>1, AskedInv DEF Renders
<1>2. CASE Try
      BY <1>2, TryInv
<1>3. CASE Loads
      <2>1. CASE Renders(fields)
            BY <1>0, <1>1, <2>1
      <2>2. CASE UNCHANGED <<fields, question, distance, answer>>
            BY <2>2 DEF EstimatorInv, TypeOK, NoneBefore, CheapestDistance
      <2> QED BY <1>3, <2>1, <2>2 DEF Loads
<1>4. CASE Validates
      BY <1>0, <1>4, CasesType, AskedInv DEF Validates
<1>5. CASE Grid
      <2>1. PICK p \in DOMAIN Presets, n \in Noises :
               Asks([FullQuestion(Presets[p], fields) EXCEPT !.kind = "simple", !.noise = n])
            BY <1>5 DEF Grid
      <2>2. FullQuestion(Presets[p], fields) \in Questions
            BY <1>0, PresetType, QuestionType
      <2>3. [FullQuestion(Presets[p], fields) EXCEPT !.kind = "simple", !.noise = n] \in Questions
            BY <2>2 DEF Questions
      <2>4. fields' \in Forms
            BY <1>0, <1>5 DEF Grid
      <2> QED BY <2>1, <2>3, <2>4, AskedInv
<1>6. CASE Input
      <2>1. PICK f \in Changes : Renders(f)
            BY <1>6 DEF Input
      <2> QED BY <1>0, <1>1, <2>1, ChangesType
<1>7. CASE UNCHANGED estimateVars
      BY <1>7 DEF EstimatorInv, TypeOK, NoneBefore, CheapestDistance, estimateVars
<1> QED BY <1>2, <1>3, <1>4, <1>5, <1>6, <1>7 DEF EstimateNext

-----------------------------------------------------------------------------
LEMMA EstimatorHolds == EstimateSpec => []EstimatorInv
<1> QED BY EstimatorStarts, EstimatorSteps, PTL DEF EstimateSpec

(* Every reachable state is type correct.                                   *)
THEOREM EstimatorTypeCorrect == EstimateSpec => []TypeOK
<1>1. EstimatorInv => TypeOK
      BY DEF EstimatorInv
<1> QED BY <1>1, EstimatorHolds, PTL

(* estimateFull and distanceFor: a distance that is found is the smallest     *)
(* that meets the budget, and no odd distance meets it where none is found,   *)
(* although the walk may end before it has tried them all.                   *)
THEOREM CheapestDistanceFound == EstimateSpec => []CheapestDistance
<1>1. EstimatorInv => CheapestDistance
      BY DEF EstimatorInv
<1> QED BY <1>1, EstimatorHolds, PTL
=============================================================================

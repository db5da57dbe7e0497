------------------------ MODULE WindowStreamProofs --------------------------
(***************************************************************************)
(* For every sound schedule of either mode, any number of layers, any shot   *)
(* and any corrections: no edge is committed twice, a commit region stays    *)
(* clean once its window has committed, a layer is held while it is needed    *)
(* and no longer, and the stream decodes what the whole-shot decoder does.    *)
(***************************************************************************)
EXTENDS WindowStream, FiniteSetTheorems, SequenceTheorems, WellFoundedInduction, TLAPS

-----------------------------------------------------------------------------
(***************************************************************************)
(* Sorted: a strict total order puts a finite set into a sequence.          *)
(***************************************************************************)
StrictOrder(S, R) ==
    /\ \A x \in S : <<x, x>> \notin R
    /\ \A x, y \in S : x # y => <<x, y>> \in R \/ <<y, x>> \in R
    /\ \A x, y, z \in S : <<x, y>> \in R /\ <<y, z>> \in R => <<x, z>> \in R

(* What comes before x.                                                     *)
Ahead(S, R, x) == {y \in S : <<y, x>> \in R}

(* Of two elements the earlier has fewer before it: its rank is its place.  *)
LEMMA FewerAhead ==
    ASSUME NEW S, IsFiniteSet(S), NEW R, StrictOrder(S, R), NEW x \in S, NEW y \in S, <<x, y>> \in R
    PROVE  Cardinality(Ahead(S, R, x)) < Cardinality(Ahead(S, R, y))
<1>1. Ahead(S, R, x) \in SUBSET Ahead(S, R, y)
      BY DEF StrictOrder, Ahead
<1>2. x \in Ahead(S, R, y) /\ x \notin Ahead(S, R, x)
      BY DEF StrictOrder, Ahead
<1>3. IsFiniteSet(Ahead(S, R, y)) /\ IsFiniteSet(Ahead(S, R, x))
      BY FS_Subset DEF Ahead
<1>4. Cardinality(Ahead(S, R, x)) \in Nat /\ Cardinality(Ahead(S, R, y)) \in Nat
      BY <1>3, FS_CardinalityType
<1> QED BY <1>1, <1>2, <1>3, <1>4, FS_Subset

(* Sorted lists every element once, each after those that are before it.    *)
LEMMA InOrder ==
    ASSUME NEW S, IsFiniteSet(S), NEW R, StrictOrder(S, R)
    PROVE  /\ Sorted(S, R) \in [1..Cardinality(S) -> S]
           /\ \A i, j \in 1..Cardinality(S) : i < j => <<Sorted(S, R)[i], Sorted(S, R)[j]>> \in R
           /\ \A x \in S : \E i \in 1..Cardinality(S) : Sorted(S, R)[i] = x
<1> DEFINE n    == Cardinality(S)
           rank == [x \in S |-> Cardinality(Ahead(S, R, x)) + 1]
           f    == Sorted(S, R)
<1>1. n \in Nat
      BY FS_CardinalityType
<1>2. ASSUME NEW x \in S PROVE Cardinality(Ahead(S, R, x)) \in 0..(n - 1)
      <2>1. Ahead(S, R, x) \in SUBSET (S \ {x})
            BY DEF StrictOrder, Ahead
      <2>2. IsFiniteSet(S \ {x}) /\ Cardinality(S \ {x}) = n - 1
            BY FS_RemoveElement
      <2>3. IsFiniteSet(Ahead(S, R, x)) /\ Cardinality(Ahead(S, R, x)) <= n - 1
            BY <2>1, <2>2, FS_Subset
      <2>4. Cardinality(Ahead(S, R, x)) \in Nat
            BY <2>3, FS_CardinalityType
      <2> HIDE DEF n
      <2> QED BY <1>1, <2>3, <2>4
<1>3. ASSUME NEW x \in S, NEW y \in S, <<x, y>> \in R PROVE Cardinality(Ahead(S, R, x)) < Cardinality(Ahead(S, R, y))
      BY <1>3, FewerAhead
<1> HIDE DEF n
<1>4. rank \in Injection(S, 1..n)
      <2>1. rank \in [S -> 1..n]
            <3>1. \A x \in S : Cardinality(Ahead(S, R, x)) + 1 \in 1..n
                  BY <1>1, <1>2
            <3> QED BY <3>1
      <2>2. ASSUME NEW x \in S, NEW y \in S, rank[x] = rank[y] PROVE x = y
            <3>1. Cardinality(Ahead(S, R, x)) + 1 = Cardinality(Ahead(S, R, y)) + 1
                  BY <2>2
            <3>2. <<x, y>> \notin R /\ <<y, x>> \notin R
                  BY <1>1, <1>2, <1>3, <3>1
            <3> QED BY <3>2 DEF StrictOrder
      <2> HIDE DEF rank
      <2> QED BY <2>1, <2>2 DEF Injection, IsInjective
<1>5. rank \in Surjection(S, 1..n)
      <2>1. Cardinality(1..n) = n /\ IsFiniteSet(1..n)
            BY <1>1, FS_Interval
      <2>2. Cardinality(S) = Cardinality(1..n)
            BY <2>1 DEF n
      <2> HIDE DEF rank
      <2> QED BY <1>4, <2>1, <2>2, FS_Injection
<1>6. ASSUME NEW i \in 1..n PROVE f[i] \in S /\ Cardinality(Ahead(S, R, f[i])) = i - 1
      <2>1. PICK x \in S : rank[x] = i
            BY <1>5 DEF Surjection
      <2>2. Cardinality(Ahead(S, R, x)) = i - 1
            BY <1>1, <1>2, <2>1
      <2>3. f[i] = CHOOSE z \in S : Cardinality(Ahead(S, R, z)) = i - 1
            BY DEF Sorted, Ahead, n
      <2> HIDE DEF f
      <2> QED BY <2>2, <2>3
<1>7. f \in [1..n -> S]
      <2> DEFINE g(i) == CHOOSE z \in S : Cardinality(Ahead(S, R, z)) = i - 1
      <2>1. f = [i \in 1..n |-> g(i)]
            BY DEF Sorted, Ahead, n
      <2> HIDE DEF f, g
      <2> QED BY <1>6, <2>1
<1> HIDE DEF f
<1>8. ASSUME NEW i \in 1..n, NEW j \in 1..n, i < j PROVE <<f[i], f[j]>> \in R
      <2>1. f[i] # f[j]
            BY <1>1, <1>6, <1>8
      <2>2. <<f[j], f[i]>> \notin R
            BY <1>1, <1>3, <1>6, <1>8
      <2> QED BY <1>6, <2>1, <2>2 DEF StrictOrder
<1>9. ASSUME NEW x \in S PROVE \E i \in 1..n : f[i] = x
      <2>1. Cardinality(Ahead(S, R, x)) + 1 \in 1..n
            BY <1>1, <1>2
      <2>2. PICK i \in 1..n : i = Cardinality(Ahead(S, R, x)) + 1
            BY <2>1
      <2>3. Cardinality(Ahead(S, R, f[i])) = Cardinality(Ahead(S, R, x))
            BY <1>1, <1>2, <1>6, <2>2
      <2>4. <<f[i], x>> \notin R /\ <<x, f[i]>> \notin R
            BY <1>2, <1>3, <1>6, <2>3
      <2> QED BY <1>6, <2>4 DEF StrictOrder
<1> QED BY <1>7, <1>8, <1>9 DEF f, n

-----------------------------------------------------------------------------
(***************************************************************************)
(* Arithmetic of windows a period apart.                                    *)
(***************************************************************************)
LEMMA ProductsGrow ==
    ASSUME NEW m \in Nat, NEW k \in Nat, NEW P \in Nat, m <= k
    PROVE  m * P <= k * P /\ m * P \in Nat
<1>1. PICK e \in Nat : k = m + e
      BY k - m \in Nat
<1>2. k * P = m * P + e * P /\ e * P >= 0
      BY <1>1
<1> QED BY <1>2

LEMMA OneMore ==
    ASSUME NEW m \in Nat, NEW P \in Nat
    PROVE  (m + 1) * P = m * P + P
OBVIOUS

LEMMA TimesOver ==
    ASSUME NEW m \in Nat, NEW P \in Nat \ {0}
    PROVE  (m * P) \div P = m
OBVIOUS

LEMMA RoundedUp ==
    ASSUME NEW T \in Nat, NEW P \in Nat \ {0}, NEW n, n = (T + P - 1) \div P
    PROVE  n \in Nat /\ T <= n * P /\ (T = 0 => n = 0) /\ (T > 0 => n > 0 /\ (n - 1) * P < T)
<1>1. n \in Int /\ n * P <= T + P - 1 /\ T + P - 1 < n * P + P
      OBVIOUS
<1>2. n >= 0
      <2>1. n <= -1 => n * P <= -P
            BY <1>1
      <2> QED BY <1>1, <2>1
<1>3. (n - 1) * P = n * P - P
      BY <1>1
<1>4. n = 0 => n * P = 0
      BY <1>1
<1>5. n >= 1 => n * P >= P
      BY <1>1
<1> QED BY <1>1, <1>2, <1>3, <1>4, <1>5

LEMMA LeastOf ==
    ASSUME NEW S \in SUBSET Nat, S # {}
    PROVE  Min(S) \in S /\ \A x \in S : Min(S) <= x
<1> DEFINE less == {x \in Nat \X Nat : x[1] < x[2]}
<1>1. IsWellFoundedOn(less, Nat)
      BY NatLessThanWellFounded DEF OpToRel
<1>2. PICK n \in S : \A m \in S : <<m, n>> \notin less
      <2> HIDE DEF less
      <2> QED BY <1>1, WFMin
<1>3. ASSUME NEW m \in S PROVE n <= m
      <2>1. m \in Nat /\ n \in Nat /\ <<m, n>> \notin less
            BY <1>2
      <2> QED BY <2>1
<1> QED BY <1>3 DEF Min

LEMMA LeastOfTwo ==
    ASSUME NEW a \in Int, NEW b \in Int
    PROVE  Min({a, b}) = IF a <= b THEN a ELSE b
<1>1. CASE a <= b
      BY <1>1 DEF Min
<1>2. CASE ~(a <= b)
      BY <1>2 DEF Min
<1> QED BY <1>1, <1>2

LEMMA MostOfTwo ==
    ASSUME NEW a \in Int, NEW b \in Int
    PROVE  Max({a, b}) = IF a >= b THEN a ELSE b
<1>1. CASE a >= b
      BY <1>1 DEF Max
<1>2. CASE ~(a >= b)
      BY <1>2 DEF Max
<1> QED BY <1>1, <1>2

-----------------------------------------------------------------------------
(***************************************************************************)
(* Sliding windows: each begins where the one before has committed.         *)
(***************************************************************************)
(* What the windows of a schedule are, of either mode.                      *)
Fits(w, T) ==
    /\ w.a \in Nat /\ w.b \in Nat /\ w.commit[1] \in Nat /\ w.commit[2] \in Nat
    /\ w.a <= w.commit[1] /\ w.commit[1] < w.commit[2] /\ w.commit[2] <= w.b /\ w.b <= T
    /\ w.past \in BOOLEAN /\ w.future \in BOOLEAN /\ w.phase \in Nat

Slides(s, ws) ==
    /\ Len(ws) \in Nat /\ DOMAIN ws = 1..Len(ws)
    /\ s.total > 0 => Len(ws) > 0 /\ ws[Len(ws)].commit[2] = s.total
    /\ s.total = 0 => Len(ws) = 0
    /\ \A i \in 1..Len(ws) :
          /\ Fits(ws[i], s.total)
          /\ ws[i].a = ws[i].commit[1] /\ ~ws[i].past /\ ws[i].phase = i - 1
          /\ ws[i].b <= ws[i].a + s.commit + s.buffer
          /\ i > 1 => ws[i].a = ws[i - 1].commit[2]
          /\ i = 1 => ws[i].a = 0
    /\ \A i, j \in 1..Len(ws) : i < j => ws[i].commit[2] <= ws[j].a /\ ws[i].b <= ws[j].b

Sound(s) == s.commit \in Nat \ {0} /\ s.buffer \in Nat /\ s.total \in Nat

(* Each sliding window starts where the commit region before it ends, and   *)
(* the last one ends with the stream.                                       *)
LEMMA SlidingSlides ==
    ASSUME NEW s, Sound(s)
    PROVE  Slides(s, Sliding(s))
<1> DEFINE c == s.commit
           b == s.buffer
           T == s.total
           st(i) == (i - 1) * c
           L == {i \in 1..T : IsLast(s, st(i))} \cup {T}
           n == Min(L)
           At(start) == IF IsLast(s, start)
                          THEN Place(start, T, start, T, FALSE, FALSE, start \div c)
                          ELSE Place(start, start + c + b, start, start + c, FALSE, TRUE, start \div c)
           ws == Sliding(s)
<1>1. c \in Nat /\ c > 0 /\ b \in Nat /\ T \in Nat
      BY DEF Sound
<1>2. ws = [i \in 1..n |-> At(st(i))]
      BY DEF Sliding
<1> HIDE DEF ws
<1>3. n \in L /\ \A i \in L : n <= i
      <2>1. L \in SUBSET Nat /\ L # {}
            BY <1>1
      <2> HIDE DEF L
      <2> QED BY <2>1, LeastOf
<1> HIDE DEF n
<1>4. n \in 0..T /\ n \in Nat /\ T \in Nat /\ (T > 0 => n > 0)
      BY <1>1, <1>3
<1>5. ASSUME NEW i \in 1..(T + 1) PROVE st(i) \in Nat /\ st(i + 1) = st(i) + c
      <2>1. i - 1 \in Nat
            BY <1>1
      <2>2. (i - 1) * c \in Nat
            BY <1>1, <2>1, ProductsGrow
      <2>3. ((i - 1) + 1) * c = (i - 1) * c + c
            BY <1>1, <2>1, OneMore
      <2>4. (i - 1) + 1 = (i + 1) - 1
            BY <2>1
      <2> QED BY <2>2, <2>3, <2>4
<1>6. ASSUME NEW i \in 1..(T + 1), NEW j \in 1..(T + 1), i < j PROVE st(i) + c <= st(j)
      <2>1. (i - 1) + 1 \in Nat /\ j - 1 \in Nat /\ (i - 1) + 1 <= j - 1
            BY <1>1, <1>6
      <2>2. ((i - 1) + 1) * c <= (j - 1) * c
            BY <1>1, <2>1, ProductsGrow
      <2>3. ((i - 1) + 1) * c = (i - 1) * c + c
            BY <1>1, OneMore
      <2> QED BY <2>2, <2>3
<1>7. T > 0 => IsLast(s, st(n))
      <2> SUFFICES ASSUME T > 0, n = T PROVE IsLast(s, st(T))
          BY <1>3
      <2>1. T - 1 \in Nat /\ 1 <= c
            BY <1>1
      <2>2. (T - 1) * 1 <= (T - 1) * c
            <3>1. \A x, y \in Nat : y >= 1 => x * 1 <= x * y
                  <4> SUFFICES ASSUME NEW x \in Nat, NEW y \in Nat, y >= 1 PROVE x * 1 <= x * y
                      OBVIOUS
                  <4>1. 1 * x <= y * x
                        BY ProductsGrow
                  <4> QED BY <4>1
            <3> QED BY <1>1, <2>1, <3>1
      <2> QED BY <1>1, <2>1, <2>2 DEF IsLast
<1>8. ASSUME NEW i \in 1..n, i < n PROVE ~IsLast(s, st(i))
      BY <1>1, <1>3, <1>4, <1>8
<1>9. Len(ws) = n /\ DOMAIN ws = 1..n
      BY <1>2, <1>4
<1>10. ASSUME NEW i \in 1..n
       PROVE  /\ i \in 1..(T + 1) /\ st(i) \in Nat /\ ws[i] = At(st(i)) /\ st(i) \div c = i - 1
              /\ IsLast(s, st(i)) <=> st(i) + c + b >= T
              /\ IsLast(s, st(i)) <=> i = n
              /\ st(i) < T
       <2>1. i \in 1..(T + 1) /\ T > 0
             BY <1>1, <1>4
       <2>2. st(i) \in Nat /\ ws[i] = At(st(i))
             BY <1>2, <1>5, <2>1
       <2>3. IsLast(s, st(i)) <=> st(i) + c + b >= T
             BY DEF IsLast
       <2>4. IsLast(s, st(i)) <=> i = n
             BY <1>4, <1>7, <1>8, <2>1
       <2>5. st(i) \div c = i - 1
             BY <1>1, <1>4, TimesOver
       <2>6. st(i) < T
             <3>1. CASE i = 1
                   <4>1. st(1) = 0
                         BY <1>1
                   <4> QED BY <2>1, <3>1, <4>1
             <3>2. CASE i # 1
                   <4>1. i - 1 \in 1..n /\ i - 1 < n /\ i - 1 \in 1..(T + 1) /\ (i - 1) + 1 = i
                         BY <1>4, <3>2
                   <4>2. ~(st(i - 1) + c + b >= T)
                         BY <1>8, <4>1 DEF IsLast
                   <4>3. st(i - 1) \in Nat /\ st(i) = st(i - 1) + c
                         BY <1>5, <4>1
                   <4> HIDE DEF st
                   <4> QED BY <1>1, <4>2, <4>3
             <3> QED BY <3>1, <3>2
       <2> QED BY <2>1, <2>2, <2>3, <2>4, <2>5, <2>6
<1>11. ASSUME NEW i \in 1..n
       PROVE  /\ ws[i].a = st(i) /\ ws[i].commit[1] = st(i) /\ ~ws[i].past /\ ws[i].phase = i - 1
              /\ i = n => ws[i].b = T /\ ws[i].commit[2] = T /\ ~ws[i].future /\ ws[i].past \in BOOLEAN
              /\ i # n => ws[i].b = st(i) + c + b /\ ws[i].commit[2] = st(i) + c /\ ws[i].future /\ ws[i].past \in BOOLEAN
              /\ ws[i].future \in BOOLEAN
       <2>1. ws[i] = At(st(i)) /\ st(i) \div c = i - 1
             BY <1>10
       <2>2. CASE i = n
             <3>1. ws[i] = Place(st(i), T, st(i), T, FALSE, FALSE, i - 1)
                   BY <1>10, <2>1, <2>2
             <3> HIDE DEF st
             <3> QED BY <2>2, <3>1 DEF Place
       <2>3. CASE i # n
             <3>1. ws[i] = Place(st(i), st(i) + c + b, st(i), st(i) + c, FALSE, TRUE, i - 1)
                   BY <1>10, <2>1, <2>3
             <3> HIDE DEF st
             <3> QED BY <2>3, <3>1 DEF Place
       <2> QED BY <2>2, <2>3
<1>19. \A i \in 1..n : i \in 1..(T + 1) /\ st(i) \in Nat /\ st(i) < T
      BY <1>10, Zenon
<1>12. st(1) = 0
       BY <1>1
<1> HIDE DEF st
<1>13. ASSUME NEW i \in 1..n
       PROVE  /\ Fits(ws[i], T) /\ ws[i].a = ws[i].commit[1] /\ ~ws[i].past /\ ws[i].phase = i - 1
              /\ ws[i].b <= ws[i].a + c + b
       <2>1. i - 1 \in Nat /\ st(i) \in Nat /\ st(i) < T
             BY <1>4, <1>19
       <2>2. CASE i = n
             <3>1. st(i) + c + b >= T
                   BY <1>10, <2>2
             <3> QED BY <1>1, <1>11, <2>1, <2>2, <3>1 DEF Fits
       <2>3. CASE i # n
             <3>1. ~(st(i) + c + b >= T)
                   BY <1>10, <2>3
             <3> QED BY <1>1, <1>11, <2>1, <2>3, <3>1 DEF Fits
       <2> QED BY <2>2, <2>3
<1>14. ASSUME NEW i \in 1..n
       PROVE  (i > 1 => ws[i].a = ws[i - 1].commit[2]) /\ (i = 1 => ws[i].a = 0)
       <2>1. CASE i = 1
             BY <1>11, <1>12, <2>1
       <2>2. CASE i # 1
             <3>1. i - 1 \in 1..n /\ i - 1 # n /\ i - 1 \in 1..(T + 1) /\ (i - 1) + 1 = i
                   BY <1>4, <2>2
             <3>2. st(i) = st(i - 1) + c
                   BY <1>5, <3>1
             <3> QED BY <1>11, <2>2, <3>1, <3>2
       <2> QED BY <2>1, <2>2
<1>15. ASSUME NEW i \in 1..n, NEW j \in 1..n, i < j PROVE ws[i].commit[2] <= ws[j].a /\ ws[i].b <= ws[j].b
       <2>1. i # n /\ st(i) + c <= st(j) /\ st(i) \in Nat /\ st(j) \in Nat
             BY <1>4, <1>6, <1>15, <1>19
       <2>2. ~(st(i) + c + b >= T)
             BY <1>10, <2>1
       <2>3. CASE j = n
             BY <1>1, <1>11, <2>1, <2>2, <2>3
       <2>4. CASE j # n
             BY <1>1, <1>11, <2>1, <2>4
       <2> QED BY <2>3, <2>4
<1>16. T > 0 => n > 0 /\ ws[n].commit[2] = T
       BY <1>4, <1>11
<1>17. T = 0 => n = 0
       BY <1>4
<1>18. Slides(s, ws)
      BY <1>4, <1>9, <1>13, <1>14, <1>15, <1>16, <1>17 DEF Slides
<1> QED BY <1>18 DEF ws

-----------------------------------------------------------------------------
(***************************************************************************)
(* Parallel windows: those of the first phase a period apart, and the gaps   *)
(* between their commit regions.                                           *)
(***************************************************************************)
Lesser(a, b) == IF a <= b THEN a ELSE b

Main(w, st, s) ==
    /\ st \in Nat /\ st < s.total
    /\ w.a = (IF st >= s.buffer THEN st - s.buffer ELSE 0) /\ w.b = Lesser(st + s.commit + s.buffer, s.total)
    /\ w.commit[1] = st /\ w.commit[2] = Lesser(st + s.commit, s.total)
    /\ w.past = (w.a > 0) /\ w.future = (w.b < s.total) /\ w.phase = 0

Gap(w, st, s) ==
    /\ st \in Nat /\ st + s.commit < s.total
    /\ w.a = st + s.commit /\ w.b = Lesser(st + s.commit + 2 * s.buffer, s.total)
    /\ w.commit[1] = w.a /\ w.commit[2] = w.b
    /\ w.past = FALSE /\ w.future = FALSE /\ w.phase = 1

Rows(s, n) ==
    /\ n \in Nat /\ (s.total = 0 => n = 0)
    /\ s.total > 0 => n > 0 /\ s.total <= Start(s, n) + Period(s)
    /\ Start(s, 1) = 0
    /\ \A i \in 1..n : Start(s, i) \in Nat /\ Start(s, i) < s.total
    /\ \A i, j \in 1..n : i < j => Start(s, i) + Period(s) <= Start(s, j)
    /\ \A i, j \in 1..n : i + 1 < j => Start(s, i) + 2 * Period(s) <= Start(s, j)
    /\ \A i, j \in 1..n : i + 1 = j => Start(s, i) + Period(s) = Start(s, j)

(* The starts of the first phase are a period apart, and the last is less   *)
(* than a period from the end.                                              *)
LEMMA StartsRow ==
    ASSUME NEW s, Sound(s)
    PROVE  Rows(s, Starts(s)) /\ Period(s) \in Nat
<1> DEFINE P == Period(s)
           T == s.total
           n == Starts(s)
           st(i) == Start(s, i)
<1>1. P \in Nat /\ P \in Nat \ {0} /\ T \in Nat
      BY DEF Sound, Period
<1>2. n = (T + P - 1) \div P
      BY DEF Starts
<1> HIDE DEF n, P, T
<1>3. n \in Nat /\ T <= n * P /\ (T = 0 => n = 0) /\ (T > 0 => n > 0 /\ (n - 1) * P < T)
      BY <1>1, <1>2, RoundedUp
<1>4. \A i : st(i) = (i - 1) * P
      BY DEF Start, P
<1> HIDE DEF st
<1>5. ASSUME NEW i \in Nat, NEW e \in Nat, i > 0 PROVE st(i + e) = st(i) + e * P /\ st(i) \in Nat
      <2>1. (i + e) - 1 = (i - 1) + e /\ i - 1 \in Nat
            BY <1>5
      <2>2. \A x, y \in Nat : (x + y) * P = x * P + y * P
            BY <1>1
      <2>3. (i - 1) * P \in Nat
            BY <1>1, <2>1, ProductsGrow
      <2> QED BY <1>4, <2>1, <2>2, <2>3
<1>6. 0 * P = 0 /\ 1 * P = P /\ 2 * P = P + P
      BY <1>1
<1>7. st(1) = 0
      BY <1>4, <1>6
<1>8. ASSUME T > 0 PROVE T <= st(n) + P
      <2>1. ((n - 1) + 1) * P = (n - 1) * P + P /\ (n - 1) + 1 = n
            BY <1>1, <1>3, <1>8, OneMore
      <2> QED BY <1>3, <1>4, <2>1
<1>9. ASSUME NEW i \in 1..n PROVE st(i) \in Nat /\ st(i) < T
      <2>1. n > 0 /\ T > 0
            BY <1>1, <1>3
      <2>2. i - 1 \in Nat /\ n - 1 \in Nat /\ i - 1 <= n - 1
            BY <1>3
      <2>3. (i - 1) * P <= (n - 1) * P /\ (i - 1) * P \in Nat /\ (n - 1) * P \in Nat
            BY <1>1, <2>2, ProductsGrow
      <2>4. (n - 1) * P < T
            BY <1>3, <2>1
      <2> QED BY <1>1, <1>4, <2>3, <2>4
<1>10. ASSUME NEW i \in 1..n, NEW j \in 1..n, i < j PROVE st(i) + P <= st(j) /\ (i + 1 = j => st(i) + P = st(j))
       <2>1. PICK e \in Nat : j = i + 1 + e
             <3>1. j - (i + 1) \in Nat /\ j = i + 1 + (j - (i + 1))
                   BY <1>3, <1>10
             <3> QED BY <3>1
       <2>2. st(i + 1) = st(i) + 1 * P /\ st(i + 1) \in Nat /\ st(i) \in Nat
             <3>1. i \in Nat /\ i > 0 /\ i + 1 \in Nat /\ i + 1 > 0 /\ 1 \in Nat
                   BY <1>3
             <3>2. st(i + 1) = st(i) + 1 * P /\ st(i) \in Nat
                   BY <1>5, <3>1
             <3> QED BY <1>1, <1>6, <3>2
       <2>3. st((i + 1) + e) = st(i + 1) + e * P /\ e * P \in Nat
             BY <1>1, <1>3, <1>5, ProductsGrow
       <2> QED BY <1>1, <1>6, <2>1, <2>2, <2>3
<1>11. ASSUME NEW i \in 1..n, NEW j \in 1..n, i + 1 < j PROVE st(i) + 2 * P <= st(j)
       <2>1. i + 1 \in 1..n /\ i < i + 1
             BY <1>3, <1>11
       <2>2. st(i) + P <= st(i + 1) /\ st(i + 1) + P <= st(j)
             BY <1>10, <1>11, <2>1
       <2>3. st(i) \in Nat /\ st(i + 1) \in Nat /\ st(j) \in Nat
             BY <1>9, <2>1
       <2> QED BY <1>1, <1>6, <2>2, <2>3
<1> QED BY <1>1, <1>3, <1>7, <1>8, <1>9, <1>10, <1>11 DEF Rows, st, P, T, n

(* n windows of the first phase, then the g gaps between and after them.    *)
Alternate(s, ws, n, g) ==
    /\ g \in Nat /\ g <= n /\ Len(ws) = n + g /\ DOMAIN ws = 1..(n + g)
    /\ \A i \in 1..n : Main(ws[i], Start(s, i), s)
    /\ \A k \in 1..g : Gap(ws[n + k], Start(s, k), s)
    /\ \A i \in 1..n : Start(s, i) + s.commit < s.total => i <= g

LEMMA ParallelAlternate ==
    ASSUME NEW s, Sound(s), s.buffer > 0
    PROVE  Alternate(s, Parallel(s), Starts(s), Gaps(s))
<1> DEFINE n == Starts(s)
           g == Gaps(s)
           c == s.commit
           b == s.buffer
           T == s.total
           P == Period(s)
           st(i) == Start(s, i)
           open == {i \in 1..n : GapStart(s, i) < GapEnd(s, i)}
<1>1. c \in Nat /\ c > 0 /\ b \in Nat /\ b > 0 /\ T \in Nat /\ P = c + 2 * b
      BY DEF Sound, Period
<1>2. Rows(s, n)
      BY StartsRow
<1> HIDE DEF n, st
<1>3. /\ n \in Nat /\ (T > 0 => T <= st(n) + P)
      /\ \A i \in 1..n : st(i) \in Nat /\ st(i) < T
      /\ \A i, j \in 1..n : i + 1 = j => st(i) + P = st(j)
      BY <1>2 DEF Rows, st
<1>4. ASSUME NEW i \in 1..n
      PROVE  /\ CommitEnd(s, i) = Lesser(st(i) + c, T) /\ GapStart(s, i) = Lesser(st(i) + c, T)
             /\ WindowEnd(s, i) = Lesser(st(i) + c + b, T)
             /\ Max({0, Start(s, i) - s.buffer}) = IF st(i) >= b THEN st(i) - b ELSE 0
      <2>1. st(i) \in Nat
            BY <1>3
      <2>2. Min({st(i) + c, T}) = Lesser(st(i) + c, T) /\ Min({st(i) + c + b, T}) = Lesser(st(i) + c + b, T)
            BY <1>1, <2>1, LeastOfTwo DEF Lesser
      <2>3. Max({0, st(i) - b}) = IF 0 >= st(i) - b THEN 0 ELSE st(i) - b
            BY <1>1, <2>1, MostOfTwo
      <2>4. (IF 0 >= st(i) - b THEN 0 ELSE st(i) - b) = IF st(i) >= b THEN st(i) - b ELSE 0
            BY <1>1, <2>1
      <2>5. CommitEnd(s, i) = Min({st(i) + c, T}) /\ WindowEnd(s, i) = Min({st(i) + c + b, T})
            BY DEF CommitEnd, WindowEnd, st
      <2>6. GapStart(s, i) = CommitEnd(s, i)
            BY DEF GapStart
      <2> QED BY <2>2, <2>3, <2>4, <2>5, <2>6 DEF st
<1>5. ASSUME NEW i \in 1..n PROVE GapEnd(s, i) = Lesser(st(i) + P, T)
      <2>1. CASE i < n
            <3>1. i + 1 \in 1..n
                  BY <1>3, <2>1
            <3>2. st(i) + P = st(i + 1) /\ st(i + 1) < T /\ st(i + 1) \in Nat
                  BY <1>3, <3>1
            <3>3. GapEnd(s, i) = st(i + 1)
                  BY <2>1 DEF GapEnd, st, n
            <3> QED BY <1>1, <3>2, <3>3 DEF Lesser
      <2>2. CASE ~(i < n)
            <3>1. i = n
                  BY <1>3, <2>2
            <3>2. GapEnd(s, i) = T
                  BY <2>2 DEF GapEnd, n
            <3>3. T > 0
                  BY <1>1, <1>3
            <3> QED BY <1>1, <1>3, <3>1, <3>2, <3>3 DEF Lesser
      <2> QED BY <2>1, <2>2
<1>6. ASSUME NEW i \in 1..n PROVE i \in open <=> st(i) + c < T
      <2>1. st(i) \in Nat /\ st(i) + c < st(i) + P
            BY <1>1, <1>3
      <2>2. GapStart(s, i) = Lesser(st(i) + c, T) /\ GapEnd(s, i) = Lesser(st(i) + P, T)
            BY <1>4, <1>5
      <2>3. Lesser(st(i) + c, T) < Lesser(st(i) + P, T) <=> st(i) + c < T
            BY <1>1, <2>1 DEF Lesser
      <2> QED BY <2>2, <2>3
<1>7. open \in {1..n, 1..(n - 1)}
      <2>1. ASSUME NEW i \in 1..n, i < n PROVE i \in open
            <3>1. i + 1 \in 1..n
                  BY <1>3, <2>1
            <3>2. st(i) + P = st(i + 1) /\ st(i + 1) < T /\ st(i) \in Nat
                  BY <1>3, <3>1
            <3> HIDE DEF open
            <3> QED BY <1>1, <1>6, <3>2
      <2>2. open \in SUBSET (1..n)
            OBVIOUS
      <2> HIDE DEF open
      <2>3. CASE n \in open
            <3>1. ASSUME NEW i \in 1..n PROVE i \in open
                  <4>1. i < n \/ i = n
                        BY <1>3
                  <4> QED BY <2>1, <2>3, <4>1
            <3> QED BY <2>2, <3>1
      <2>4. CASE n \notin open
            <3>1. ASSUME NEW i \in 1..(n - 1) PROVE i \in open
                  <4>1. i \in 1..n /\ i < n
                        BY <1>3
                  <4> QED BY <2>1, <4>1
            <3>2. ASSUME NEW i \in open PROVE i \in 1..(n - 1)
                  <4>1. i \in 1..n /\ i # n
                        BY <2>2, <2>4
                  <4> QED BY <1>3, <4>1
            <3> QED BY <3>1, <3>2
      <2> QED BY <2>3, <2>4
<1>8. g \in Nat /\ g <= n /\ open = 1..g
      <2>1. g = Cardinality(open)
            BY DEF Gaps, n
      <2> HIDE DEF open, g
      <2>2. Cardinality(1..n) = n
            BY <1>3, FS_Interval
      <2>3. n > 0 => Cardinality(1..(n - 1)) = n - 1
            BY <1>3, FS_Interval
      <2>4. n = 0 => 1..(n - 1) = 1..n
            BY <1>3
      <2> QED BY <1>3, <1>7, <2>1, <2>2, <2>3, <2>4
<1> HIDE DEF open, g
<1> DEFINE A == [i \in 1..n |-> LET a == Max({0, Start(s, i) - s.buffer})
                                    e == WindowEnd(s, i)
                                IN  Place(a, e, Start(s, i), CommitEnd(s, i), a > 0, e < s.total, 0)]
           B == [i \in 1..g |-> LET a == GapStart(s, i)
                                    e == GapEnd(s, i)
                                IN  Place(a, e, a, e, FALSE, FALSE, 1)]
           ws == Parallel(s)
<1>9. ws = A \o B
      BY DEF Parallel, n, g
<1>10. Len(A) = n /\ Len(B) = g
      BY <1>3, <1>8
<1>11. ASSUME NEW i \in 1..n PROVE Main(A[i], st(i), s)
       <2> DEFINE a == IF st(i) >= b THEN st(i) - b ELSE 0
                  e == Lesser(st(i) + c + b, T)
                  f == Lesser(st(i) + c, T)
       <2>1. A[i] = Place(a, e, st(i), f, a > 0, e < T, 0)
             BY <1>4 DEF st
       <2>2. st(i) \in Nat /\ st(i) < T
             BY <1>3
       <2> HIDE DEF a, e, f, A
       <2>3. /\ A[i].a = a /\ A[i].b = e /\ A[i].commit[1] = st(i) /\ A[i].commit[2] = f
             /\ A[i].past = (a > 0) /\ A[i].future = (e < T) /\ A[i].phase = 0
             BY <2>1 DEF Place
       <2> QED BY <2>2, <2>3 DEF Main, a, e, f
<1>12. ASSUME NEW k \in 1..g PROVE Gap(B[k], st(k), s)
       <2> DEFINE e == Lesser(st(k) + c + 2 * b, T)
       <2>1. k \in 1..n
             BY <1>3, <1>8
       <2>2. st(k) \in Nat /\ st(k) + c < T
             BY <1>3, <1>6, <1>8, <2>1
       <2>3. GapStart(s, k) = st(k) + c
             <3>1. GapStart(s, k) = Lesser(st(k) + c, T)
                   BY <1>4, <2>1
             <3>2. st(k) + c <= T
                   BY <1>1, <2>2
             <3> QED BY <3>1, <3>2 DEF Lesser
       <2>4. GapEnd(s, k) = e
             <3>1. st(k) + P = st(k) + c + 2 * b
                   BY <1>1, <2>2
             <3> QED BY <1>5, <2>1, <3>1
       <2>5. B[k] = Place(st(k) + c, e, st(k) + c, e, FALSE, FALSE, 1)
             BY <2>3, <2>4
       <2> HIDE DEF e, B
       <2>6. /\ B[k].a = st(k) + c /\ B[k].b = e /\ B[k].commit[1] = st(k) + c /\ B[k].commit[2] = e
             /\ B[k].past = FALSE /\ B[k].future = FALSE /\ B[k].phase = 1
             BY <2>5 DEF Place
       <2> QED BY <2>2, <2>6 DEF Gap, e
<1>13. Len(ws) = n + g /\ DOMAIN ws = 1..(n + g)
       BY <1>3, <1>8, <1>9, <1>10
<1>14. \A i \in 1..n : ws[i] = A[i]
       BY <1>3, <1>8, <1>9, <1>10
<1>15. \A k \in 1..g : ws[n + k] = B[k]
       <2> DEFINE S == {A[i] : i \in 1..n} \cup {B[i] : i \in 1..g}
       <2>0. DOMAIN A = 1..n /\ DOMAIN B = 1..g /\ A = [i \in 1..n |-> A[i]] /\ B = [i \in 1..g |-> B[i]]
             OBVIOUS
       <2> HIDE DEF A, B, ws
       <2>1. A \in Seq(S) /\ B \in Seq(S)
             <3>1. A \in [1..n -> S] /\ B \in [1..g -> S]
                   BY <2>0
             <3> HIDE DEF S
             <3> QED BY <1>3, <1>8, <3>1
       <2> HIDE DEF S
       <2>2. ASSUME NEW k \in 1..g PROVE (A \o B)[n + k] = B[k]
             <3>1. n + k \in 1..(n + g) /\ ~(n + k <= n) /\ (n + k) - n = k
                   BY <1>3, <1>8
             <3> QED BY <1>10, <2>1, <3>1, ConcatProperties
       <2> QED BY <1>9, <2>2
<1> HIDE DEF A, B, ws
<1>16. \A i \in 1..n : Start(s, i) + s.commit < s.total => i <= g
       BY <1>6, <1>8 DEF st
<1> QED BY <1>8, <1>11, <1>12, <1>13, <1>14, <1>15, <1>16 DEF Alternate, st, n, g, ws

-----------------------------------------------------------------------------
(***************************************************************************)
(* What the decoders suppose of a plan, and that each mode's is so.         *)
(***************************************************************************)
Holds(w, l) == w.commit[1] <= l /\ l < w.commit[2]

Reads(w, l) == w.a <= l /\ l < w.b

(* The layers where an edge of w that has an end in w's commit region may    *)
(* have an end.                                                            *)
Touches(w, m) ==
    /\ m \in Nat
    /\ \E l \in Nat : Holds(w, l) /\ l - m <= Reach /\ m - l <= Reach
    /\ Reads(w, m) \/ (m >= w.b /\ w.future) \/ (m < w.a /\ w.past)

Slack(s) == s.commit + IF s.mode = "sliding" THEN s.buffer ELSE 3 * s.buffer

Layer(w) == IF w.phase <= 1 THEN w.phase ELSE 1

(* v is before w on the stream; v is before w in the decoder of whole shots. *)
Sooner(ws, ready, v, w) ==
    \/ ready[v] < ready[w]
    \/ ready[v] = ready[w] /\ Layer(ws[v]) < Layer(ws[w])
    \/ ready[v] = ready[w] /\ Layer(ws[v]) = Layer(ws[w]) /\ ws[v].commit[1] < ws[w].commit[1]

Phased(ws, v, w) == ws[v].phase < ws[w].phase \/ (ws[v].phase = ws[w].phase /\ v < w)

(* Windows fit the stream, and none waits for more than Slack layers beyond *)
(* its first.                                                               *)
Typed(s, ws, ready) ==
    /\ Len(ws) \in Nat /\ DOMAIN ws = 1..Len(ws)
    /\ s.total \in Nat /\ Slack(s) \in Nat
    /\ \A i \in 1..Len(ws) : Fits(ws[i], s.total)
    /\ \A i \in 1..Len(ws) : /\ ready[i] \in Nat /\ ws[i].b <= ready[i] /\ ready[i] <= s.total
                             /\ ready[i] <= ws[i].a + Slack(s)
    /\ \A v, w \in 1..Len(ws) : v # w => ws[v].commit[1] # ws[w].commit[1]

(* The commit regions leave no layer out.                                   *)
Covered(s, ws) == \A l \in Nat : l < s.total => \E i \in 1..Len(ws) : Holds(ws[i], l)

(* A window toggles nothing in the region of one that is before it.         *)
CleanAfter(ws, ready) ==
    \A v, w \in 1..Len(ws) : v # w /\ Sooner(ws, ready, v, w) => \A m \in Nat : Touches(ws[w], m) => ~Holds(ws[v], m)

(* Two windows are in the same order in both decoders, or the one touches   *)
(* nothing that the other reads.                                            *)
SameOrder(ws, ready) ==
    \A v, w \in 1..Len(ws) : v # w =>
        \/ Sooner(ws, ready, v, w) /\ Phased(ws, v, w)
        \/ Sooner(ws, ready, w, v) /\ Phased(ws, w, v)
        \/ \A m \in Nat : Touches(ws[v], m) => ~Reads(ws[w], m)

SoundPlan(s, ws, ready) ==
    Typed(s, ws, ready) /\ Covered(s, ws) /\ CleanAfter(ws, ready) /\ SameOrder(ws, ready)

LEMMA MostOf ==
    ASSUME NEW T \in Nat, NEW S \in SUBSET (0..T), S # {}
    PROVE  Max(S) \in S /\ \A x \in S : x <= Max(S)
<1> DEFINE D == {T - x : x \in S}
<1>1. D \in SUBSET Nat /\ D # {}
      <2>1. ASSUME NEW x \in S PROVE T - x \in Nat
            <3>1. x \in 0..T
                  OBVIOUS
            <3> QED BY <3>1
      <2> QED BY <2>1
<1>2. Min(D) \in D /\ \A x \in D : Min(D) <= x
      <2> HIDE DEF D
      <2> QED BY <1>1, LeastOf
<1>3. PICK y \in S : Min(D) = T - y
      BY <1>2
<1>4. ASSUME NEW x \in S PROVE x <= y
      <2>1. T - y <= T - x
            BY <1>2, <1>3
      <2> QED BY <2>1
<1> QED BY <1>4 DEF Max

(* Sliding windows commit up to where the next one starts to read, and each *)
(* waits for the one before alone.                                          *)
LEMMA SlidingSound ==
    ASSUME NEW s, Sound(s), s.mode = "sliding"
    PROVE  SoundPlan(s, Sliding(s), ReadyLayers(Sliding(s), Dependencies(s, Sliding(s))))
<1> DEFINE ws == Sliding(s)
           T == s.total
           n == Len(ws)
           deps == Dependencies(s, ws)
           ready == ReadyLayers(ws, deps)
<1>1. s.commit \in Nat /\ s.commit > 0 /\ s.buffer \in Nat /\ T \in Nat
      BY DEF Sound
<1>2. Slides(s, ws)
      BY SlidingSlides
<1> HIDE DEF ws
<1>3. /\ n \in Nat /\ DOMAIN ws = 1..n
      /\ T > 0 => n > 0 /\ ws[n].commit[2] = T
      /\ \A i \in 1..n :
          /\ Fits(ws[i], T)
          /\ ws[i].a = ws[i].commit[1] /\ ~ws[i].past /\ ws[i].phase = i - 1
          /\ ws[i].b <= ws[i].a + s.commit + s.buffer
          /\ i > 1 => ws[i].a = ws[i - 1].commit[2]
          /\ i = 1 => ws[i].a = 0
      /\ \A i, j \in 1..n : i < j => ws[i].commit[2] <= ws[j].a /\ ws[i].b <= ws[j].b
      BY <1>2 DEF Slides
<1>4. ASSUME NEW i \in 1..n PROVE ready[i] = ws[i].b
      <2> DEFINE S == {ws[v].b : v \in deps[i] \cup {i}}
      <2>1. deps[i] = {i - 1} \ {0}
            BY <1>3 DEF Dependencies
      <2>2. ready[i] = Max(S)
            BY <1>3 DEF ReadyLayers
      <2>3. ws[i].b \in Nat
            BY <1>3 DEF Fits
      <2>4. ASSUME NEW x \in S PROVE x \in Nat /\ x <= ws[i].b
            <3>1. PICK v \in deps[i] \cup {i} : x = ws[v].b
                  OBVIOUS
            <3>2. v = i \/ (v = i - 1 /\ v # 0)
                  BY <2>1
            <3>3. CASE v = i
                  BY <2>3, <3>1, <3>3
            <3>4. CASE v = i - 1 /\ v # 0
                  <4>1. v \in 1..n /\ v < i
                        BY <1>3, <3>4
                  <4> QED BY <1>3, <3>1, <4>1 DEF Fits
            <3> QED BY <3>2, <3>3, <3>4
      <2>5. ws[i].b \in S
            OBVIOUS
      <2> HIDE DEF S, deps, ready
      <2>6. Max(S) \in S /\ ws[i].b <= Max(S)
            <3>1. S \in SUBSET (0..ws[i].b) /\ S # {}
                  BY <2>3, <2>4, <2>5
            <3> QED BY <2>3, <2>5, <3>1, MostOf
      <2> QED BY <2>2, <2>3, <2>4, <2>6
<1> HIDE DEF deps, ready
<1>5. Typed(s, ws, ready)
      <2>1. Slack(s) = s.commit + s.buffer
            BY DEF Slack
      <2>2. ASSUME NEW i \in 1..n PROVE ready[i] \in Nat /\ ready[i] <= T /\ ready[i] <= ws[i].a + Slack(s)
            <3>1. ws[i].b \in Nat /\ ws[i].b <= T /\ ws[i].a \in Nat /\ ws[i].b <= ws[i].a + s.commit + s.buffer
                  BY <1>3 DEF Fits
            <3> QED BY <1>1, <1>4, <2>1, <3>1
      <2>3. ASSUME NEW v \in 1..n, NEW w \in 1..n, v # w PROVE ws[v].commit[1] # ws[w].commit[1]
            <3>1. ASSUME NEW x \in 1..n, NEW y \in 1..n, x < y PROVE ws[x].commit[1] < ws[y].commit[1]
                  <4>1. ws[x].commit[2] <= ws[y].a /\ ws[y].a = ws[y].commit[1]
                        BY <1>3, <3>1
                  <4>2. /\ ws[x].commit[1] \in Nat /\ ws[x].commit[2] \in Nat /\ ws[y].commit[1] \in Nat
                        /\ ws[x].commit[1] < ws[x].commit[2]
                        BY <1>3 DEF Fits
                  <4> QED BY <4>1, <4>2
            <3>2. ws[v].commit[1] \in Nat /\ ws[w].commit[1] \in Nat
                  BY <1>3 DEF Fits
            <3>3. v < w \/ w < v
                  BY <1>3, <2>3
            <3> QED BY <3>1, <3>2, <3>3
      <2>4. \A i \in 1..n : Fits(ws[i], T) /\ ws[i].b <= ready[i]
            BY <1>3, <1>4 DEF Fits
      <2>5. Slack(s) \in Nat
            BY <1>1, <2>1
      <2> QED BY <1>1, <1>3, <2>2, <2>3, <2>4, <2>5 DEF Typed
<1>6. Covered(s, ws)
      <2> SUFFICES ASSUME NEW l \in Nat, l < T PROVE \E i \in 1..n : Holds(ws[i], l)
          BY DEF Covered
      <2> DEFINE S == {i \in 1..n : l < ws[i].commit[2]}
      <2>1. S \in SUBSET Nat /\ n \in S
            BY <1>1, <1>3
      <2>2. Min(S) \in S /\ \A x \in S : Min(S) <= x
            <3> HIDE DEF S
            <3> QED BY <2>1, LeastOf
      <2>3. PICK i \in 1..n : i = Min(S) /\ l < ws[i].commit[2]
            BY <2>2
      <2>4. ws[i].commit[1] <= l
            <3>1. CASE i = 1
                  BY <1>3, <3>1
            <3>2. CASE i # 1
                  <4>1. i - 1 \in 1..n /\ i > 1
                        BY <1>3, <3>2
                  <4>2. i - 1 \notin S
                        BY <1>3, <2>2, <2>3, <4>1
                  <4>3. ~(l < ws[i - 1].commit[2]) /\ ws[i - 1].commit[2] \in Nat
                        BY <1>3, <4>1, <4>2 DEF Fits
                  <4> QED BY <1>3, <4>1, <4>3
            <3> QED BY <3>1, <3>2
      <2> QED BY <2>3, <2>4 DEF Holds
<1>7. ASSUME NEW v \in 1..n, NEW w \in 1..n, v < w PROVE Sooner(ws, ready, v, w) /\ ~Sooner(ws, ready, w, v) /\ Phased(ws, v, w)
      <2>1. Fits(ws[v], T) /\ Fits(ws[w], T)
            BY <1>3
      <2>2. ready[v] = ws[v].b /\ ready[w] = ws[w].b /\ ws[v].b <= ws[w].b /\ ws[v].b \in Nat /\ ws[w].b \in Nat
            BY <1>3, <1>4, <1>7, <2>1 DEF Fits
      <2>3. /\ ws[v].commit[1] < ws[w].commit[1]
            /\ ws[v].commit[1] \in Nat /\ ws[w].commit[1] \in Nat
            <3>1. ws[v].commit[2] <= ws[w].commit[1]
                  BY <1>3, <1>7
            <3>2. ws[v].commit[1] \in Nat /\ ws[v].commit[2] \in Nat /\ ws[v].commit[1] < ws[v].commit[2]
                  BY <2>1 DEF Fits
            <3>3. ws[w].commit[1] \in Nat
                  BY <2>1 DEF Fits
            <3> QED BY <3>1, <3>2, <3>3
      <2>4. Layer(ws[v]) <= Layer(ws[w]) /\ Layer(ws[v]) \in Nat /\ Layer(ws[w]) \in Nat
            <3>1. ws[v].phase = v - 1 /\ ws[w].phase = w - 1
                  BY <1>3
            <3> QED BY <1>3, <1>7, <3>1 DEF Layer
      <2>5. Phased(ws, v, w)
            <3>1. ws[v].phase = v - 1 /\ ws[w].phase = w - 1
                  BY <1>3
            <3> QED BY <1>3, <1>7, <3>1 DEF Phased
      <2> QED BY <2>2, <2>3, <2>4, <2>5 DEF Sooner
<1>8. CleanAfter(ws, ready)
      <2> SUFFICES ASSUME NEW v \in 1..n, NEW w \in 1..n, v # w, Sooner(ws, ready, v, w), NEW m \in Nat, Touches(ws[w], m)
                   PROVE  ~Holds(ws[v], m)
          BY DEF CleanAfter
      <2>1. v < w
            <3>1. v < w \/ w < v
                  BY <1>3
            <3> QED BY <1>7, <3>1
      <2>2. ws[v].commit[2] <= ws[w].a /\ ~ws[w].past
            BY <1>3, <2>1
      <2>3. ws[v].commit[2] \in Nat /\ ws[w].a \in Nat /\ ws[w].b \in Nat /\ ws[w].a <= ws[w].b
            <3>1. /\ ws[v].commit[2] \in Nat /\ ws[w].a \in Nat /\ ws[w].b \in Nat
                  /\ ws[w].commit[1] \in Nat /\ ws[w].commit[2] \in Nat
                  /\ ws[w].a <= ws[w].commit[1] /\ ws[w].commit[1] < ws[w].commit[2] /\ ws[w].commit[2] <= ws[w].b
                  <4>1. Fits(ws[v], T) /\ Fits(ws[w], T)
                        BY <1>3
                  <4>2. ws[v].commit[2] \in Nat
                        BY <4>1 DEF Fits
                  <4>3. /\ ws[w].a \in Nat /\ ws[w].b \in Nat /\ ws[w].commit[1] \in Nat /\ ws[w].commit[2] \in Nat
                        /\ ws[w].a <= ws[w].commit[1] /\ ws[w].commit[1] < ws[w].commit[2]
                        /\ ws[w].commit[2] <= ws[w].b
                        BY <4>1 DEF Fits
                  <4> QED BY <4>2, <4>3
            <3>2. ws[w].a <= ws[w].commit[2]
                  BY <3>1
            <3>3. ws[w].a <= ws[w].b
                  BY <3>1, <3>2
            <3> QED BY <3>1, <3>3
      <2>4. Reads(ws[w], m) \/ m >= ws[w].b
            BY <2>2 DEF Touches
      <2>5. ws[w].a <= m
            BY <2>3, <2>4 DEF Reads
      <2> QED BY <2>2, <2>3, <2>5 DEF Holds
<1>9. SameOrder(ws, ready)
      <2> SUFFICES ASSUME NEW v \in 1..n, NEW w \in 1..n, v # w
                   PROVE  \/ Sooner(ws, ready, v, w) /\ Phased(ws, v, w)
                          \/ Sooner(ws, ready, w, v) /\ Phased(ws, w, v)
          BY DEF SameOrder
      <2>1. v < w \/ w < v
            BY <1>3
      <2> QED BY <1>7, <2>1
<1> QED BY <1>5, <1>6, <1>8, <1>9 DEF SoundPlan, ws, deps, ready

(* A window of the first phase, as numbers: its region, and the two         *)
(* buffers.                                                                 *)
LEMMA MainFigures ==
    ASSUME NEW s, Sound(s), s.buffer > 0, NEW w, NEW st, Main(w, st, s)
    PROVE  /\ Fits(w, s.total) /\ st \in Nat /\ w.phase = 0
           /\ w.commit[1] = st /\ w.commit[2] <= st + s.commit /\ w.b <= st + s.commit + s.buffer
           /\ w.commit[2] < s.total => w.commit[2] = st + s.commit
           /\ w.b < s.total => w.b = st + s.commit + s.buffer
           /\ st <= w.a + s.buffer /\ w.b <= w.a + s.commit + 2 * s.buffer
<1>1. s.commit \in Nat /\ s.commit > 0 /\ s.buffer \in Nat /\ s.total \in Nat
      BY DEF Sound
<1>2. st \in Nat /\ st < s.total /\ w.commit[1] = st /\ w.phase = 0
      BY DEF Main
<1>3. w.b = Lesser(st + s.commit + s.buffer, s.total) /\ w.commit[2] = Lesser(st + s.commit, s.total)
      BY DEF Main
<1>4. w.a = (IF st >= s.buffer THEN st - s.buffer ELSE 0)
      BY DEF Main
<1>5. w.past = (w.a > 0) /\ w.future = (w.b < s.total)
      BY DEF Main
<1>6. /\ w.b \in Nat /\ w.b <= st + s.commit + s.buffer /\ w.b <= s.total
      /\ w.b < s.total => w.b = st + s.commit + s.buffer
      /\ w.commit[2] \in Nat /\ w.commit[2] <= st + s.commit /\ w.commit[2] <= s.total
      /\ w.commit[2] < s.total => w.commit[2] = st + s.commit
      /\ w.commit[2] <= w.b /\ st < w.commit[2]
      BY <1>1, <1>2, <1>3 DEF Lesser
<1>7. w.a \in Nat /\ w.a <= st /\ st <= w.a + s.buffer
      BY <1>1, <1>2, <1>4
<1>8. w.b <= w.a + s.commit + 2 * s.buffer
      BY <1>1, <1>2, <1>6, <1>7
<1>9. w.past \in BOOLEAN /\ w.future \in BOOLEAN
      BY <1>5
<1>10. Fits(w, s.total)
      BY <1>2, <1>6, <1>7, <1>9 DEF Fits
<1> QED BY <1>2, <1>6, <1>7, <1>8, <1>10

(* A gap, as numbers: it begins where a region ends and ends where the next *)
(* begins.                                                                  *)
LEMMA GapFigures ==
    ASSUME NEW s, Sound(s), s.buffer > 0, NEW w, NEW st, Gap(w, st, s)
    PROVE  /\ Fits(w, s.total) /\ st \in Nat /\ w.phase = 1 /\ w.a < s.total
           /\ w.a = st + s.commit /\ w.commit[1] = w.a /\ w.commit[2] = w.b /\ w.b <= st + Period(s)
           /\ w.b < s.total => w.b = st + Period(s)
           /\ \A m \in Nat : Touches(w, m) => w.a <= m /\ m < w.b
<1>1. s.commit \in Nat /\ s.commit > 0 /\ s.buffer \in Nat /\ s.total \in Nat /\ Period(s) = s.commit + 2 * s.buffer
      BY DEF Sound, Period
<1>2. /\ st \in Nat /\ st + s.commit < s.total
      /\ w.a = st + s.commit /\ w.b = Lesser(st + s.commit + 2 * s.buffer, s.total)
      /\ w.commit[1] = w.a /\ w.commit[2] = w.b
      /\ w.past = FALSE /\ w.future = FALSE /\ w.phase = 1
      BY DEF Gap
<1>3. /\ w.a \in Nat /\ w.b \in Nat /\ w.a < w.b /\ w.b <= s.total /\ w.b <= st + Period(s)
      /\ w.b < s.total => w.b = st + Period(s)
      BY <1>1, <1>2 DEF Lesser
<1>4. Fits(w, s.total)
      <2>1. /\ w.commit[1] \in Nat /\ w.commit[2] \in Nat
            /\ w.a <= w.commit[1] /\ w.commit[1] < w.commit[2] /\ w.commit[2] <= w.b
            BY <1>2, <1>3
      <2>2. w.past \in BOOLEAN /\ w.future \in BOOLEAN
            BY <1>2, Zenon
      <2>3. w.phase \in Nat
            BY <1>2
      <2> QED BY <1>3, <2>1, <2>2, <2>3 DEF Fits
<1>5. \A m \in Nat : Touches(w, m) => w.a <= m /\ m < w.b
      BY <1>2, <1>3 DEF Touches, Reads
<1> QED BY <1>2, <1>3, <1>4, <1>5

(* Windows of the first phase are out of each other's reach; a gap waits    *)
(* for both its neighbours and reads nothing but itself.                    *)
LEMMA ParallelSound ==
    ASSUME NEW s, Sound(s), s.mode = "parallel", s.buffer > 0, Reach \in Nat, Reach <= 2 * s.buffer
    PROVE  SoundPlan(s, Parallel(s), ReadyLayers(Parallel(s), Dependencies(s, Parallel(s))))
<1> DEFINE ws == Parallel(s)
           T == s.total
           c == s.commit
           b == s.buffer
           P == Period(s)
           n == Starts(s)
           g == Gaps(s)
           N == n + g
           st(i) == Start(s, i)
           deps == Dependencies(s, ws)
           ready == ReadyLayers(ws, deps)
<1>1. c \in Nat /\ c > 0 /\ b \in Nat /\ b > 0 /\ T \in Nat /\ P \in Nat /\ P = c + 2 * b
      BY DEF Sound, Period
<1>2. Alternate(s, ws, n, g) /\ Rows(s, n)
      BY ParallelAlternate, StartsRow
<1> HIDE DEF ws, n, g, st
<1>3. /\ n \in Nat /\ g \in Nat /\ g <= n /\ N \in Nat /\ Len(ws) = N /\ DOMAIN ws = 1..N
      /\ \A i \in 1..n : Main(ws[i], st(i), s)
      /\ \A k \in 1..g : Gap(ws[n + k], st(k), s)
      /\ \A i \in 1..n : st(i) + c < T => i <= g
      <2>1. n \in Nat /\ g \in Nat /\ g <= n /\ Len(ws) = N /\ DOMAIN ws = 1..N
            BY <1>2 DEF Alternate, Rows
      <2>2. /\ \A i \in 1..n : Main(ws[i], st(i), s)
            /\ \A k \in 1..g : Gap(ws[n + k], st(k), s)
            /\ \A i \in 1..n : st(i) + c < T => i <= g
            BY <1>2 DEF Alternate, st
      <2> QED BY <2>1, <2>2
<1>4. /\ T > 0 => n > 0 /\ T <= st(n) + P
      /\ st(1) = 0
      /\ \A i \in 1..n : st(i) \in Nat /\ st(i) < T
      /\ \A i, j \in 1..n : i < j => st(i) + P <= st(j)
      /\ \A i, j \in 1..n : i + 1 < j => st(i) + 2 * P <= st(j)
      /\ \A i, j \in 1..n : i + 1 = j => st(i) + P = st(j)
      BY <1>2 DEF Rows, st
<1>5. ASSUME NEW i \in 1..n
      PROVE  /\ i \in 1..N /\ Fits(ws[i], T) /\ st(i) \in Nat /\ ws[i].phase = 0
             /\ ws[i].commit[1] = st(i) /\ ws[i].commit[2] <= st(i) + c /\ ws[i].b <= st(i) + c + b
             /\ ws[i].commit[2] < T => ws[i].commit[2] = st(i) + c
             /\ ws[i].b < T => ws[i].b = st(i) + c + b
             /\ st(i) <= ws[i].a + b /\ ws[i].b <= ws[i].a + c + 2 * b
      <2>1. Main(ws[i], st(i), s)
            BY <1>3
      <2>2. i \in 1..N
            BY <1>3
      <2> QED BY <2>1, <2>2, MainFigures
<1>6. ASSUME NEW k \in 1..g
      PROVE  /\ k \in 1..n /\ n + k \in 1..N /\ n + k > n
             /\ Fits(ws[n + k], T) /\ st(k) \in Nat /\ ws[n + k].phase = 1 /\ ws[n + k].a < T
             /\ ws[n + k].a = st(k) + c /\ ws[n + k].commit[1] = ws[n + k].a /\ ws[n + k].commit[2] = ws[n + k].b
             /\ ws[n + k].b <= st(k) + P
             /\ ws[n + k].b < T => ws[n + k].b = st(k) + P
             /\ \A m \in Nat : Touches(ws[n + k], m) => ws[n + k].a <= m /\ m < ws[n + k].b
      <2>1. Gap(ws[n + k], st(k), s)
            BY <1>3
      <2>2. k \in 1..n /\ n + k \in 1..N /\ n + k > n
            BY <1>3
      <2> QED BY <2>1, <2>2, GapFigures
<1>7. ASSUME NEW x \in 1..N PROVE x \in 1..n \/ \E k \in 1..g : x = n + k
      <2>1. x \in 1..n \/ (x - n \in 1..g /\ x = n + (x - n))
            BY <1>3
      <2> QED BY <2>1
<1>8. \A x \in 1..N : Fits(ws[x], T)
      BY <1>5, <1>6, <1>7
<1>9. \A x \in 1..N :
        /\ ws[x].a \in Nat /\ ws[x].b \in Nat /\ ws[x].commit[1] \in Nat /\ ws[x].commit[2] \in Nat /\ ws[x].b <= T
        /\ ws[x].a <= ws[x].commit[1] /\ ws[x].commit[1] < ws[x].commit[2] /\ ws[x].commit[2] <= ws[x].b
        /\ ws[x].a < ws[x].b
      <2> SUFFICES ASSUME NEW x \in 1..N
                   PROVE /\ ws[x].a \in Nat /\ ws[x].b \in Nat /\ ws[x].commit[1] \in Nat /\ ws[x].commit[2] \in Nat /\ ws[x].b <= T
                         /\ ws[x].a <= ws[x].commit[1] /\ ws[x].commit[1] < ws[x].commit[2] /\ ws[x].commit[2] <= ws[x].b
                         /\ ws[x].a < ws[x].b
          OBVIOUS
      <2>1. Fits(ws[x], T)
            BY <1>8
      <2>2. /\ ws[x].a \in Nat /\ ws[x].b \in Nat /\ ws[x].commit[1] \in Nat /\ ws[x].commit[2] \in Nat /\ ws[x].b <= T
            /\ ws[x].a <= ws[x].commit[1] /\ ws[x].commit[1] < ws[x].commit[2] /\ ws[x].commit[2] <= ws[x].b
            BY <2>1 DEF Fits
      <2> QED BY <2>2
<1>10. ASSUME NEW i \in 1..n, NEW j \in 1..n, i <= j PROVE ws[i].b <= ws[j].b
       <2>1. st(i) <= st(j) /\ st(i) \in Nat /\ st(j) \in Nat
             BY <1>1, <1>4, <1>10
       <2>2. ws[j].b < T => ws[j].b = st(j) + c + b
             BY <1>5
       <2>3. ws[i].b <= st(i) + c + b /\ ws[i].b \in Nat /\ ws[j].b \in Nat /\ ws[i].b <= T /\ ws[j].b <= T
             BY <1>5, <1>9
       <2> QED BY <1>1, <2>1, <2>2, <2>3
<1>11. ASSUME NEW i \in 1..n PROVE ready[i] = ws[i].b
       <2>1. deps[i] = {}
             <3>1. i \in DOMAIN ws /\ ws[i].phase = 0
                   BY <1>3, <1>5
             <3> QED BY <3>1 DEF Dependencies
       <2>2. {ws[v].b : v \in deps[i] \cup {i}} = {ws[i].b}
             BY <2>1
       <2>3. ready[i] = Max({ws[i].b})
             <3>1. i \in DOMAIN ws
                   BY <1>3
             <3> HIDE DEF deps
             <3> QED BY <2>2, <3>1 DEF ReadyLayers
       <2>4. ws[i].b \in Nat
             BY <1>5, <1>9
       <2> QED BY <2>3, <2>4 DEF Max
<1>12. ASSUME NEW k \in 1..g
       PROVE  /\ ready[n + k] \in Nat /\ ready[n + k] <= T /\ ready[n + k] <= ws[n + k].a + c + 3 * b
              /\ ws[n + k].b <= ready[n + k] /\ ws[k].b <= ready[n + k]
              /\ k < n => ws[k + 1].b <= ready[n + k]
       <2> DEFINE x == n + k
                  S == {ws[v].b : v \in deps[x] \cup {x}}
       <2>1. /\ k \in 1..n /\ x \in 1..N /\ st(k) \in Nat /\ ws[x].phase = 1 /\ ws[x].a < T
             /\ ws[x].a = st(k) + c /\ ws[x].commit[1] = ws[x].a /\ ws[x].commit[2] = ws[x].b
             /\ ws[x].b <= st(k) + P /\ (ws[x].b < T => ws[x].b = st(k) + P)
             BY <1>6
       <2> HIDE DEF x
       <2>2. deps[x] = {v \in 1..N : ws[v].phase = 0 /\ (ws[v].commit[2] = ws[x].commit[1] \/ ws[v].commit[1] = ws[x].commit[2])}
             <3>1. x \in DOMAIN ws /\ ~(ws[x].phase = 0)
                   BY <1>3, <2>1
             <3> QED BY <1>3, <3>1 DEF Dependencies
       <2> HIDE DEF deps
       <2>3. ready[x] = Max(S)
             BY <1>3, <2>1 DEF ReadyLayers
       <2> HIDE DEF ready
       <2>4. ASSUME NEW v \in deps[x] PROVE v \in 1..n /\ ws[v].b <= ws[x].a + c + 3 * b
             <3>1. v \in 1..N /\ ws[v].phase = 0 /\ (ws[v].commit[2] = ws[x].commit[1] \/ ws[v].commit[1] = ws[x].commit[2])
                   BY <2>2
             <3>2. v \in 1..n
                   BY <1>6, <1>7, <3>1
             <3>3. /\ ws[v].commit[1] = st(v) /\ ws[v].b <= st(v) + c + b /\ st(v) \in Nat
                   /\ (ws[v].commit[2] < T => ws[v].commit[2] = st(v) + c) /\ ws[v].b \in Nat
                   BY <1>5, <1>9, <3>2
             <3>4. CASE ws[v].commit[2] = ws[x].commit[1]
                   <4>1. st(v) + c = ws[x].a
                         BY <2>1, <3>3, <3>4
                   <4> QED BY <1>1, <2>1, <3>2, <3>3, <4>1
             <3>5. CASE ws[v].commit[1] = ws[x].commit[2]
                   <4>1. st(v) <= st(k) + P
                         BY <2>1, <3>3, <3>5
                   <4> QED BY <1>1, <2>1, <3>2, <3>3, <4>1
             <3> QED BY <3>1, <3>4, <3>5
       <2>5. k \in deps[x]
             <3>1. /\ k \in 1..N /\ ws[k].phase = 0 /\ (ws[k].commit[2] < T => ws[k].commit[2] = st(k) + c)
                   /\ ws[k].commit[2] <= st(k) + c /\ ws[k].commit[2] \in Nat
                   BY <1>5, <1>9, <2>1
             <3>2. ws[k].commit[2] = ws[x].commit[1]
                   BY <1>1, <2>1, <3>1
             <3> QED BY <2>2, <3>1, <3>2
       <2>6. ASSUME k < n PROVE k + 1 \in deps[x]
             <3>1. k + 1 \in 1..n
                   BY <1>3, <2>6
             <3>2. st(k) + P = st(k + 1) /\ st(k + 1) < T
                   BY <1>4, <2>1, <3>1
             <3>3. k + 1 \in 1..N /\ ws[k + 1].phase = 0 /\ ws[k + 1].commit[1] = st(k + 1)
                   BY <1>5, <3>1
             <3>4. ws[x].b = st(k) + P
                   <4>1. ws[x].b \in Nat
                         BY <1>9, <2>1
                   <4> QED BY <1>1, <1>4, <2>1, <3>1, <3>2, <4>1
             <3> QED BY <2>1, <2>2, <3>2, <3>3, <3>4
       <2>7. ASSUME NEW y \in S PROVE y \in 0..T /\ y <= ws[x].a + c + 3 * b
             <3>1. PICK v \in deps[x] \cup {x} : y = ws[v].b
                   OBVIOUS
             <3>2. CASE v = x
                   <4>1. y \in Nat /\ y <= T
                         BY <1>9, <2>1, <3>1, <3>2
                   <4>2. y <= st(k) + P
                         BY <2>1, <3>1, <3>2
                   <4> QED BY <1>1, <2>1, <4>1, <4>2
             <3>3. CASE v \in deps[x]
                   <4>1. v \in 1..n /\ ws[v].b <= ws[x].a + c + 3 * b
                         BY <2>4, <3>3
                   <4>2. ws[v].b \in Nat /\ ws[v].b <= T
                         BY <1>5, <1>9, <4>1
                   <4> QED BY <1>1, <3>1, <4>1, <4>2
             <3> QED BY <3>2, <3>3
       <2>8. ws[x].b \in S /\ ws[k].b \in S /\ (k < n => ws[k + 1].b \in S)
             BY <2>5, <2>6
       <2> HIDE DEF S
       <2>9. Max(S) \in S /\ \A y \in S : y <= Max(S)
             <3>1. S \in SUBSET (0..T) /\ S # {}
                   BY <2>7, <2>8
             <3> QED BY <1>1, <3>1, MostOf
       <2>10. ready[x] \in 0..T /\ ready[x] <= ws[x].a + c + 3 * b
             BY <2>3, <2>7, <2>9
       <2>11. ws[x].b <= ready[x] /\ ws[k].b <= ready[x] /\ (k < n => ws[k + 1].b <= ready[x])
             BY <2>3, <2>8, <2>9
       <2>12. ready[x] \in Nat /\ ready[x] <= T
             BY <1>1, <2>10
       <2> QED BY <2>10, <2>11, <2>12 DEF x
<1> HIDE DEF deps, ready
<1>13. \A x \in 1..N : ready[x] \in Nat /\ ready[x] <= T /\ ws[x].b <= ready[x]
       <2> SUFFICES ASSUME NEW x \in 1..N PROVE ready[x] \in Nat /\ ready[x] <= T /\ ws[x].b <= ready[x]
           OBVIOUS
       <2>1. CASE x \in 1..n
             <3>1. ws[x].b \in Nat /\ ws[x].b <= T
                   BY <1>9
             <3> QED BY <1>11, <2>1, <3>1
       <2>2. CASE \E k \in 1..g : x = n + k
             BY <1>12, <2>2
       <2> QED BY <1>7, <2>1, <2>2
<1>14. Typed(s, ws, ready)
       <2>1. Slack(s) = c + 3 * b /\ Slack(s) \in Nat
             BY <1>1 DEF Slack
       <2>2. ASSUME NEW x \in 1..N PROVE ready[x] <= ws[x].a + Slack(s)
             <3>1. CASE x \in 1..n
                   <4>1. ws[x].b <= ws[x].a + c + 2 * b /\ ready[x] = ws[x].b /\ ws[x].a \in Nat /\ ws[x].b \in Nat
                         BY <1>5, <1>9, <1>11, <3>1
                   <4> QED BY <1>1, <2>1, <4>1
             <3>2. CASE \E k \in 1..g : x = n + k
                   <4>1. ready[x] <= ws[x].a + c + 3 * b /\ ws[x].a \in Nat /\ ready[x] \in Nat
                         BY <1>9, <1>12, <3>2
                   <4> QED BY <1>1, <2>1, <4>1
             <3> QED BY <1>7, <3>1, <3>2
       <2>3. ASSUME NEW v \in 1..N, NEW w \in 1..N, v # w PROVE ws[v].commit[1] # ws[w].commit[1]
             <3>1. ASSUME NEW i \in 1..n, NEW j \in 1..n, i # j PROVE st(i) # st(j) /\ st(i) + c # st(j)
                   <4>1. i < j \/ j < i
                         BY <1>3, <3>1
                   <4>2. st(i) \in Nat /\ st(j) \in Nat /\ (i < j => st(i) + P <= st(j)) /\ (j < i => st(j) + P <= st(i))
                         BY <1>4
                   <4> QED BY <1>1, <4>1, <4>2
             <3>2. CASE v \in 1..n /\ w \in 1..n
                   BY <1>5, <2>3, <3>1, <3>2
             <3>3. ASSUME NEW i \in 1..n, NEW k \in 1..g PROVE ws[i].commit[1] # ws[n + k].commit[1]
                   <4>1. ws[i].commit[1] = st(i) /\ ws[n + k].commit[1] = st(k) + c /\ k \in 1..n /\ st(k) \in Nat
                         BY <1>5, <1>6
                   <4>2. CASE i = k
                         BY <1>1, <4>1, <4>2
                   <4>3. CASE i # k
                         BY <3>1, <4>1, <4>3
                   <4> QED BY <4>2, <4>3
             <3>4. ASSUME NEW i \in 1..g, NEW k \in 1..g, i # k PROVE ws[n + i].commit[1] # ws[n + k].commit[1]
                   <4>1. /\ ws[n + i].commit[1] = st(i) + c /\ ws[n + k].commit[1] = st(k) + c /\ k \in 1..n /\ i \in 1..n
                         /\ st(k) \in Nat /\ st(i) \in Nat
                         BY <1>6
                   <4>2. st(i) # st(k)
                         BY <3>1, <3>4, <4>1
                   <4> QED BY <1>1, <4>1, <4>2
             <3> QED BY <1>7, <2>3, <3>2, <3>3, <3>4
       <2> QED BY <1>1, <1>3, <1>8, <1>13, <2>1, <2>2, <2>3 DEF Typed
<1>15. Covered(s, ws)
       <2> SUFFICES ASSUME NEW l \in Nat, l < T PROVE \E x \in 1..N : Holds(ws[x], l)
           BY <1>3 DEF Covered
       <2> DEFINE S == {i \in 1..n : l < st(i) + P}
       <2>1. S \in SUBSET Nat /\ n \in S
             <3>1. n \in 1..n
                   BY <1>1, <1>3, <1>4
             <3>2. st(n) \in Nat /\ T <= st(n) + P
                   BY <1>1, <1>4, <3>1
             <3>3. l < st(n) + P
                   BY <1>1, <3>2
             <3> QED BY <3>1, <3>3
       <2>2. Min(S) \in S /\ \A x \in S : Min(S) <= x
             <3> HIDE DEF S
             <3> QED BY <2>1, LeastOf
       <2>3. PICK i \in 1..n : i = Min(S) /\ l < st(i) + P
             BY <2>2
       <2>4. st(i) <= l
             <3>1. CASE i = 1
                   BY <1>4, <3>1
             <3>2. CASE i # 1
                   <4>1. i - 1 \in 1..n /\ (i - 1) + 1 = i
                         BY <1>3, <3>2
                   <4>2. i - 1 \notin S
                         BY <1>3, <2>2, <2>3, <4>1
                   <4>3. ~(l < st(i - 1) + P) /\ st(i - 1) \in Nat /\ st(i - 1) + P = st(i)
                         BY <1>4, <4>1, <4>2
                   <4> QED BY <1>1, <4>3
             <3> QED BY <3>1, <3>2
       <2>5. CASE l < ws[i].commit[2]
             BY <1>5, <2>4, <2>5 DEF Holds
       <2>6. CASE ~(l < ws[i].commit[2])
             <3>1. /\ ws[i].commit[2] = st(i) + c /\ st(i) \in Nat
                   <4>1. ws[i].commit[2] \in Nat /\ (ws[i].commit[2] < T => ws[i].commit[2] = st(i) + c) /\ st(i) \in Nat
                         BY <1>5, <1>9
                   <4> QED BY <1>1, <2>6, <4>1
             <3>2. i \in 1..g
                   <4>1. st(i) + c < T
                         BY <1>1, <2>6, <3>1
                   <4> QED BY <1>3, <4>1
             <3>3. /\ n + i \in 1..N /\ ws[n + i].commit[1] = st(i) + c /\ ws[n + i].commit[2] = ws[n + i].b
                   /\ (ws[n + i].b < T => ws[n + i].b = st(i) + P) /\ ws[n + i].b \in Nat
                   BY <1>6, <1>9, <3>2
             <3>4. l < ws[n + i].commit[2]
                   BY <1>1, <2>3, <3>1, <3>3
             <3> QED BY <1>1, <2>6, <3>1, <3>3, <3>4 DEF Holds
       <2> QED BY <2>5, <2>6
(* A gap and a main window more than a period apart: neither touches what   *)
(* the other holds or reads.                                               *)
<1>16. ASSUME NEW k \in 1..g, NEW i \in 1..n, k + 1 < i, NEW m \in Nat
       PROVE  /\ Touches(ws[i], m) => ws[n + k].b <= m
              /\ Touches(ws[n + k], m) => m < ws[i].a
       <2>1. /\ k \in 1..n /\ st(k) + 2 * P <= st(i) /\ st(k) \in Nat /\ st(i) \in Nat /\ ws[n + k].b <= st(k) + P
             /\ ws[n + k].b \in Nat /\ ws[i].a \in Nat /\ st(i) <= ws[i].a + b /\ ws[i].commit[1] = st(i)
             BY <1>4, <1>5, <1>6, <1>9, <1>16
       <2>2. ASSUME Touches(ws[i], m) PROVE ws[n + k].b <= m
             <3>1. PICK l \in Nat : ws[i].commit[1] <= l /\ l - m <= Reach
                   BY <2>2 DEF Touches, Holds
             <3> QED BY <1>1, <2>1, <3>1
       <2>3. ASSUME Touches(ws[n + k], m) PROVE m < ws[i].a
             <3>1. m < ws[n + k].b
                   BY <1>6, <2>3
             <3> QED BY <1>1, <2>1, <3>1
       <2> QED BY <2>2, <2>3
(* On the stream a gap is before a main window only if it is that far off.   *)
<1>17. ASSUME NEW k \in 1..g, NEW i \in 1..n, Sooner(ws, ready, n + k, i) PROVE k + 1 < i
       <2>1. ws[n + k].phase = 1 /\ ws[i].phase = 0 /\ k \in 1..n /\ n + k \in 1..N /\ i \in 1..N
             BY <1>5, <1>6
       <2>2. Layer(ws[n + k]) = 1 /\ Layer(ws[i]) = 0
             BY <2>1 DEF Layer
       <2>3. ready[n + k] < ready[i]
             BY <2>2, <1>17 DEF Sooner
       <2>4. ready[i] = ws[i].b /\ ws[k].b <= ready[n + k] /\ (k < n => ws[k + 1].b <= ready[n + k])
             BY <1>11, <1>12
       <2>5. ws[i].b \in Nat /\ ws[k].b \in Nat /\ ready[n + k] \in Nat
             BY <1>9, <1>13, <2>1, <1>6, <1>3
       <2>6. ~(i <= k)
             BY <1>10, <2>1, <2>3, <2>4, <2>5
       <2>7. i # k + 1
             BY <1>3, <2>3, <2>4, <2>5
       <2> QED BY <1>3, <2>6, <2>7
<1>18. ASSUME NEW k \in 1..g, NEW x \in 1..N, x # n + k, NEW m \in Nat, Touches(ws[n + k], m)
       PROVE  ~Holds(ws[x], m)
       <2>1. k \in 1..n /\ ws[n + k].a = st(k) + c /\ ws[n + k].a <= m /\ m < ws[n + k].b /\ ws[n + k].b <= st(k) + P
             BY <1>6, <1>18
       <2>2. ws[n + k].b \in Nat /\ st(k) \in Nat
             BY <1>6, <1>9
       <2>3. ASSUME NEW i \in 1..n, i # k PROVE (i < k => st(i) + P <= st(k)) /\ (~(i < k) => st(k) + P <= st(i)) /\ st(i) \in Nat
             <3>1. i < k \/ k < i
                   BY <1>3, <2>1, <2>3
             <3> QED BY <1>4, <2>1, <3>1
       <2>4. CASE x \in 1..n
             <3>1. ws[x].commit[1] = st(x) /\ ws[x].commit[2] <= st(x) + c /\ ws[x].commit[2] \in Nat /\ st(x) \in Nat
                   BY <1>5, <1>9, <2>4
             <3>2. x = k => ~(m < ws[x].commit[2])
                   BY <1>1, <2>1, <2>2, <3>1
             <3>3. x # k => ~(m < ws[x].commit[2]) \/ ~(ws[x].commit[1] <= m)
                   <4> SUFFICES ASSUME x # k PROVE ~(m < ws[x].commit[2]) \/ ~(ws[x].commit[1] <= m)
                       OBVIOUS
                   <4>1. (x < k => st(x) + P <= st(k)) /\ (~(x < k) => st(k) + P <= st(x))
                         BY <2>3, <2>4
                   <4> QED BY <1>1, <2>1, <2>2, <3>1, <4>1
             <3> QED BY <3>2, <3>3 DEF Holds
       <2>5. ASSUME NEW i \in 1..g, x = n + i PROVE ~Holds(ws[x], m)
             <3>1. /\ i \in 1..n /\ ws[x].commit[1] = st(i) + c /\ ws[x].commit[2] = ws[x].b /\ ws[x].b <= st(i) + P
                   /\ ws[x].b \in Nat /\ st(i) \in Nat
                   BY <1>6, <1>9, <2>5
             <3>2. i # k
                   BY <1>18, <2>5
             <3>3. (i < k => st(i) + P <= st(k)) /\ (~(i < k) => st(k) + P <= st(i))
                   BY <2>3, <3>1, <3>2
             <3> QED BY <1>1, <2>1, <2>2, <3>1, <3>3 DEF Holds
       <2> QED BY <1>7, <2>4, <2>5
<1>19. CleanAfter(ws, ready)
       <2> SUFFICES ASSUME NEW v \in 1..N, NEW w \in 1..N, v # w, Sooner(ws, ready, v, w), NEW m \in Nat, Touches(ws[w], m)
                    PROVE  ~Holds(ws[v], m)
           BY <1>3 DEF CleanAfter
       <2>1. CASE \E k \in 1..g : w = n + k
             BY <1>18, <2>1
       <2>2. CASE w \in 1..n /\ v \in 1..n
             <3>1. v < w \/ w < v
                   BY <1>3, <2>2
             <3>2. (v < w => st(v) + P <= st(w)) /\ (w < v => st(w) + P <= st(v)) /\ st(v) \in Nat /\ st(w) \in Nat
                   BY <1>4, <2>2
             <3>3. /\ ws[v].commit[1] = st(v) /\ ws[v].commit[2] <= st(v) + c /\ ws[w].commit[1] = st(w)
                   /\ ws[w].commit[2] <= st(w) + c /\ ws[w].commit[2] \in Nat /\ ws[v].commit[2] \in Nat
                   BY <1>5, <1>9, <2>2
             <3>4. PICK l \in Nat : ws[w].commit[1] <= l /\ l < ws[w].commit[2] /\ l - m <= Reach /\ m - l <= Reach
                   BY DEF Touches, Holds
             <3>5. CASE v < w
                   BY <1>1, <3>2, <3>3, <3>4, <3>5 DEF Holds
             <3>6. CASE w < v
                   BY <1>1, <3>2, <3>3, <3>4, <3>6 DEF Holds
             <3> QED BY <3>1, <3>5, <3>6
       <2>3. ASSUME w \in 1..n, NEW k \in 1..g, v = n + k PROVE ~Holds(ws[v], m)
             <3>1. k + 1 < w
                   BY <1>17, <2>3
             <3>2. ws[n + k].b <= m
                   BY <1>16, <2>3, <3>1
             <3>3. ws[n + k].commit[2] = ws[n + k].b /\ ws[n + k].b \in Nat
                   BY <1>6, <1>9
             <3> QED BY <2>3, <3>2, <3>3 DEF Holds
       <2> QED BY <1>7, <2>1, <2>2, <2>3
<1>20. SameOrder(ws, ready)
       <2> DEFINE Apart(v, w) == \A m \in Nat : Touches(ws[v], m) => ~Reads(ws[w], m)
       <2> SUFFICES ASSUME NEW v \in 1..N, NEW w \in 1..N, v # w
                    PROVE  \/ Sooner(ws, ready, v, w) /\ Phased(ws, v, w)
                           \/ Sooner(ws, ready, w, v) /\ Phased(ws, w, v)
                           \/ Apart(v, w)
           BY <1>3 DEF SameOrder
       <2>1. ASSUME NEW i \in 1..n, NEW j \in 1..n, i < j PROVE Sooner(ws, ready, i, j) /\ Phased(ws, i, j)
             <3>1. ws[i].phase = 0 /\ ws[j].phase = 0 /\ ws[i].commit[1] = st(i) /\ ws[j].commit[1] = st(j) /\ i \in 1..N /\ j \in 1..N
                   BY <1>5
             <3>2. st(i) + P <= st(j) /\ st(i) \in Nat /\ st(j) \in Nat
                   BY <1>4, <2>1
             <3>3. st(i) < st(j)
                   BY <1>1, <3>2
             <3>4. ready[i] <= ready[j] /\ ready[i] \in Nat /\ ready[j] \in Nat
                   BY <1>10, <1>11, <1>13, <2>1, <3>1
             <3>5. Layer(ws[i]) = Layer(ws[j])
                   BY <3>1 DEF Layer
             <3> QED BY <2>1, <3>1, <3>3, <3>4, <3>5 DEF Sooner, Phased
       <2>2. ASSUME NEW k \in 1..g, NEW i \in 1..n
             PROVE  \/ Sooner(ws, ready, i, n + k) /\ Phased(ws, i, n + k)
                    \/ Apart(i, n + k) /\ Apart(n + k, i)
             <3>1. ws[i].phase = 0 /\ ws[n + k].phase = 1 /\ i \in 1..N /\ n + k \in 1..N
                   BY <1>5, <1>6
             <3>2. Phased(ws, i, n + k)
                   BY <3>1 DEF Phased
             <3>3. Layer(ws[i]) = 0 /\ Layer(ws[n + k]) = 1
                   BY <3>1 DEF Layer
             <3>4. ready[i] \in Nat /\ ready[n + k] \in Nat
                   BY <1>13, <3>1
             <3>5. CASE ready[i] <= ready[n + k]
                   BY <3>2, <3>3, <3>4, <3>5 DEF Sooner
             <3>6. CASE ~(ready[i] <= ready[n + k])
                   <4>1. Sooner(ws, ready, n + k, i)
                         BY <3>4, <3>6 DEF Sooner
                   <4>2. k + 1 < i
                         BY <1>17, <4>1
                   <4>3. ws[n + k].b \in Nat /\ ws[i].a \in Nat
                         BY <1>9, <3>1
                   <4>4. Apart(i, n + k)
                         BY <1>16, <4>2, <4>3 DEF Reads
                   <4>5. Apart(n + k, i)
                         BY <1>16, <4>2, <4>3 DEF Reads
                   <4> QED BY <4>4, <4>5
             <3> QED BY <3>5, <3>6
       <2>3. ASSUME NEW i \in 1..g, NEW k \in 1..g, i # k PROVE Apart(n + i, n + k)
             <3> SUFFICES ASSUME NEW m \in Nat, Touches(ws[n + i], m) PROVE ~Reads(ws[n + k], m)
                 OBVIOUS
             <3>1. n + k # n + i /\ n + k \in 1..N
                   BY <1>3, <1>6, <2>3
             <3>2. ~Holds(ws[n + k], m)
                   BY <1>18, <3>1
             <3>3. ws[n + k].commit[1] = ws[n + k].a /\ ws[n + k].commit[2] = ws[n + k].b
                   BY <1>6
             <3> QED BY <3>2, <3>3 DEF Holds, Reads
       <2>4. CASE v \in 1..n /\ w \in 1..n
             <3>1. v < w \/ w < v
                   BY <1>3, <2>4
             <3> QED BY <2>1, <2>4, <3>1
       <2> HIDE DEF Apart
       <2> QED BY <1>7, <2>2, <2>3, <2>4
<1> QED BY <1>14, <1>15, <1>19, <1>20 DEF SoundPlan, ws, deps, ready

-----------------------------------------------------------------------------
(***************************************************************************)
(* The two orders.                                                         *)
(***************************************************************************)
OnStream(ws, ready) == {x \in (DOMAIN ws) \X (DOMAIN ws) : Sooner(ws, ready, x[1], x[2])}

InPhases(ws) == {x \in (DOMAIN ws) \X (DOMAIN ws) : Phased(ws, x[1], x[2])}

(* f lists 1..n once each, in the order R.                                  *)
Ranks(f, n, R) ==
    /\ f \in [1..n -> 1..n]
    /\ \A i, j \in 1..n : i < j => <<f[i], f[j]>> \in R
    /\ \A i, j \in 1..n : i # j => f[i] # f[j]
    /\ \A x \in 1..n : \E i \in 1..n : f[i] = x

(* Neither order has two windows each before the other.                     *)
LEMMA OneWay ==
    ASSUME NEW ws, NEW ready, NEW v \in Nat, NEW w \in Nat,
           ws[v].phase \in Nat, ws[w].phase \in Nat, ready[v] \in Nat, ready[w] \in Nat,
           ws[v].commit[1] \in Nat, ws[w].commit[1] \in Nat
    PROVE  /\ ~(Phased(ws, v, w) /\ Phased(ws, w, v))
           /\ ~(Sooner(ws, ready, v, w) /\ Sooner(ws, ready, w, v))
<1>1. Layer(ws[v]) \in Nat /\ Layer(ws[w]) \in Nat
      BY DEF Layer
<1>2. ~(Phased(ws, v, w) /\ Phased(ws, w, v))
      BY DEF Phased
<1>3. ~(Sooner(ws, ready, v, w) /\ Sooner(ws, ready, w, v))
      BY <1>1 DEF Sooner
<1> QED BY <1>2, <1>3

(* The stream's order is transitive.                                        *)
LEMMA SoonerStill ==
    ASSUME NEW ws, NEW ready, NEW x, NEW y, NEW z,
           Layer(ws[x]) \in Nat, ready[x] \in Nat, ws[x].commit[1] \in Nat,
           Layer(ws[y]) \in Nat, ready[y] \in Nat, ws[y].commit[1] \in Nat,
           Layer(ws[z]) \in Nat, ready[z] \in Nat, ws[z].commit[1] \in Nat,
           Sooner(ws, ready, x, y), Sooner(ws, ready, y, z)
    PROVE  Sooner(ws, ready, x, z)
BY DEF Sooner

LEMMA SortedRanks ==
    ASSUME NEW n \in Nat, NEW R, StrictOrder(1..n, R)
    PROVE  Ranks(Sorted(1..n, R), n, R)
<1> DEFINE f == Sorted(1..n, R)
<1>1. IsFiniteSet(1..n) /\ Cardinality(1..n) = n
      BY FS_Interval
<1>2. /\ f \in [1..n -> 1..n]
      /\ \A i, j \in 1..n : i < j => <<f[i], f[j]>> \in R
      /\ \A x \in 1..n : \E i \in 1..n : f[i] = x
      <2> DEFINE S == 1..n
      <2>1. IsFiniteSet(S) /\ Cardinality(S) = n /\ StrictOrder(S, R)
            BY <1>1
      <2>2. f = Sorted(S, R)
            OBVIOUS
      <2> HIDE DEF S, f
      <2>3. /\ f \in [1..Cardinality(S) -> S]
            /\ \A i, j \in 1..Cardinality(S) : i < j => <<f[i], f[j]>> \in R
            /\ \A x \in S : \E i \in 1..Cardinality(S) : f[i] = x
            BY <2>1, <2>2, InOrder
      <2> QED BY <2>1, <2>3 DEF S
<1> HIDE DEF f
<1>3. ASSUME NEW i \in 1..n, NEW j \in 1..n, i # j PROVE f[i] # f[j]
      <2>1. i < j \/ j < i
            BY <1>3
      <2>2. <<f[i], f[j]>> \in R \/ <<f[j], f[i]>> \in R
            BY <1>2, <2>1
      <2>3. f[i] \in 1..n /\ f[j] \in 1..n
            BY <1>2
      <2> QED BY <2>2, <2>3 DEF StrictOrder
<1> QED BY <1>2, <1>3 DEF Ranks, f

LEMMA PhasedRanks ==
    ASSUME NEW n \in Nat, NEW ws, DOMAIN ws = 1..n, \A i \in 1..n : ws[i].phase \in Nat
    PROVE  Ranks(Sorted(DOMAIN ws, InPhases(ws)), n, InPhases(ws))
<1> DEFINE R == InPhases(ws)
<1>1. \A v, w \in 1..n : <<v, w>> \in R <=> Phased(ws, v, w)
      BY DEF InPhases
<1> HIDE DEF R
<1>2. StrictOrder(1..n, R)
      <2>1. \A x \in 1..n : ~Phased(ws, x, x)
            BY DEF Phased
      <2>2. \A x, y \in 1..n : x # y => Phased(ws, x, y) \/ Phased(ws, y, x)
            BY DEF Phased
      <2>3. \A x, y, z \in 1..n : Phased(ws, x, y) /\ Phased(ws, y, z) => Phased(ws, x, z)
            BY DEF Phased
      <2> QED BY <1>1, <2>1, <2>2, <2>3 DEF StrictOrder
<1> QED BY <1>2, SortedRanks DEF R

LEMMA StreamRanks ==
    ASSUME NEW n \in Nat, NEW ws, NEW ready, DOMAIN ws = 1..n,
           \A i \in 1..n : ws[i].phase \in Nat /\ ws[i].commit[1] \in Nat /\ ready[i] \in Nat,
           \A v, w \in 1..n : v # w => ws[v].commit[1] # ws[w].commit[1]
    PROVE  Ranks(Order(ws, ready), n, OnStream(ws, ready))
<1> DEFINE R == OnStream(ws, ready)
           Key(w) == <<ready[w], Min({ws[w].phase, 1}), ws[w].commit[1]>>
           Before(v, w) == \E i \in 1 .. 3 : /\ Key(v)[i] < Key(w)[i]
                                             /\ \A j \in 1 .. i - 1 : Key(v)[j] = Key(w)[j]
<1>1. \A v, w \in 1..n : <<v, w>> \in R <=> Sooner(ws, ready, v, w)
      BY DEF OnStream
<1>2. ASSUME NEW v \in 1..n PROVE Min({ws[v].phase, 1}) = Layer(ws[v]) /\ Layer(ws[v]) \in Nat
      BY LeastOfTwo DEF Layer
<1>3. ASSUME NEW v \in 1..n, NEW w \in 1..n PROVE Before(v, w) <=> Sooner(ws, ready, v, w)
      <2>1. /\ Key(v)[1] = ready[v] /\ Key(v)[2] = Layer(ws[v]) /\ Key(v)[3] = ws[v].commit[1]
            /\ Key(w)[1] = ready[w] /\ Key(w)[2] = Layer(ws[w]) /\ Key(w)[3] = ws[w].commit[1]
            BY <1>2
      <2> HIDE DEF Key
      <2>2. Before(v, w) <=> \/ Key(v)[1] < Key(w)[1]
                             \/ Key(v)[1] = Key(w)[1] /\ Key(v)[2] < Key(w)[2]
                             \/ Key(v)[1] = Key(w)[1] /\ Key(v)[2] = Key(w)[2] /\ Key(v)[3] < Key(w)[3]
            <3>1. 1..3 = {1, 2, 3} /\ 1..(1 - 1) = {} /\ 1..(2 - 1) = {1} /\ 1..(3 - 1) = {1, 2}
                  OBVIOUS
            <3> QED BY <3>1
      <2> QED BY <2>1, <2>2 DEF Sooner
<1> HIDE DEF R
<1>4. Order(ws, ready) = Sorted(DOMAIN ws, R)
      <2>1. Order(ws, ready) = Sorted(DOMAIN ws, {x \in (DOMAIN ws) \X (DOMAIN ws) : Before(x[1], x[2])})
            BY DEF Order
      <2> HIDE DEF Before
      <2>2. \A x \in (DOMAIN ws) \X (DOMAIN ws) : Before(x[1], x[2]) <=> Sooner(ws, ready, x[1], x[2])
            BY <1>3
      <2>3. {x \in (DOMAIN ws) \X (DOMAIN ws) : Before(x[1], x[2])} = R
            BY <2>2 DEF R, OnStream
      <2> QED BY <2>1, <2>3
<1>5. StrictOrder(1..n, R)
      <2>0. \A x \in 1..n : Layer(ws[x]) \in Nat /\ ready[x] \in Nat /\ ws[x].commit[1] \in Nat
            BY <1>2
      <2>1. \A x \in 1..n : ~Sooner(ws, ready, x, x)
            BY <2>0 DEF Sooner
      <2>2. \A x, y \in 1..n : x # y => Sooner(ws, ready, x, y) \/ Sooner(ws, ready, y, x)
            BY <2>0 DEF Sooner
      <2>3. ASSUME NEW x \in 1..n, NEW y \in 1..n, NEW z \in 1..n,
                   Sooner(ws, ready, x, y), Sooner(ws, ready, y, z)
            PROVE  Sooner(ws, ready, x, z)
            <3>1. /\ Layer(ws[x]) \in Nat /\ ready[x] \in Nat /\ ws[x].commit[1] \in Nat
                  /\ Layer(ws[y]) \in Nat /\ ready[y] \in Nat /\ ws[y].commit[1] \in Nat
                  /\ Layer(ws[z]) \in Nat /\ ready[z] \in Nat /\ ws[z].commit[1] \in Nat
                  BY <2>0
            <3> QED BY <2>3, <3>1, SoonerStill
      <2>4. \A x \in 1..n : <<x, x>> \notin R
            BY <1>1, <2>1
      <2>5. \A x, y \in 1..n : x # y => <<x, y>> \in R \/ <<y, x>> \in R
            BY <1>1, <2>2
      <2>6. \A x, y, z \in 1..n : <<x, y>> \in R /\ <<y, z>> \in R => <<x, z>> \in R
            <3> SUFFICES ASSUME NEW x \in 1..n, NEW y \in 1..n, NEW z \in 1..n, <<x, y>> \in R, <<y, z>> \in R
                         PROVE  <<x, z>> \in R
                OBVIOUS
            <3>1. Sooner(ws, ready, x, y) /\ Sooner(ws, ready, y, z)
                  BY <1>1
            <3>2. Sooner(ws, ready, x, z)
                  BY <2>3, <3>1
            <3> QED BY <1>1, <3>2
      <2> QED BY <2>4, <2>5, <2>6 DEF StrictOrder
<1> QED BY <1>4, <1>5, SortedRanks DEF R

(* Every plan is sound, and its order is the stream's.                      *)
SoundOf(p) ==
    /\ SoundPlan(p.of, p.windows, p.ready)
    /\ Ranks(p.order, Len(p.windows), OnStream(p.windows, p.ready))

LEMMA PlansAreSound ==
    ASSUME NEW s \in Schedules
    PROVE  SoundOf(PlanOf(s))
<1> DEFINE p == PlanOf(s)
           ws == Windows(s)
           ready == ReadyLayers(ws, Dependencies(s, ws))
<1>1. /\ s.mode \in {"sliding", "parallel"}
      /\ s.commit \in Nat \ {0} /\ s.buffer \in Nat /\ s.total \in Nat
      /\ s.mode = "parallel" => s.buffer # 0 /\ Reach <= 2 * s.buffer
      BY ScheduleAssumption
<1>2. Sound(s)
      BY <1>1 DEF Sound
<1>3. SoundPlan(s, ws, ready)
      <2>1. CASE s.mode = "sliding"
            BY <1>2, <2>1, SlidingSound DEF Windows
      <2>2. CASE s.mode = "parallel"
            <3>1. s.buffer > 0
                  BY <1>1, <2>2
            <3>2. ws = Parallel(s)
                  BY <2>2 DEF Windows
            <3> QED BY <1>1, <1>2, <2>2, <3>1, <3>2, ReachAssumption, ParallelSound
      <2> QED BY <1>1, <2>1, <2>2
<1>4. p.of = s /\ p.windows = ws /\ p.ready = ready /\ p.order = Order(ws, ready)
      BY DEF PlanOf
<1> HIDE DEF p, ws, ready
<1>5. Ranks(Order(ws, ready), Len(ws), OnStream(ws, ready))
      <2>1. Typed(s, ws, ready)
            BY <1>3 DEF SoundPlan
      <2>2. /\ Len(ws) \in Nat /\ DOMAIN ws = 1..Len(ws)
            /\ \A i \in 1..Len(ws) : ws[i].phase \in Nat /\ ws[i].commit[1] \in Nat /\ ready[i] \in Nat
            /\ \A v, w \in 1..Len(ws) : v # w => ws[v].commit[1] # ws[w].commit[1]
            BY <2>1 DEF Typed, Fits
      <2> QED BY <2>2, StreamRanks
<1> QED BY <1>3, <1>4, <1>5 DEF SoundOf, p

-----------------------------------------------------------------------------
(***************************************************************************)
(* The inductive invariant.                                                *)
(***************************************************************************)
Prefix(f, k) == {f[i] : i \in 1..k}

(* The i-th window to be decoded, and the layers it waits for.              *)
At(p, i) == p.windows[p.order[i]]
Due(p, i) == p.ready[p.order[i]]

(* An odd number of the windows in S have toggled layer l.                  *)
Flipped(S, pk, T, l) == Cardinality({v \in S : l \in Syndrome(pk[v], 0 .. T - 1)}) % 2 = 1

PhaseOrder(ws) == Sorted(DOMAIN ws, InPhases(ws))

(* An edge that window w may commit.                                       *)
Own(w, T, e) ==
    /\ \A l \in e : l = Boundary \/ (l \in Nat /\ l < T /\ Touches(w, l))
    /\ \E l \in e : l \in Nat /\ Holds(w, l)

(* Typing, and that nothing is left behind in a layer that is let go.       *)
TypeInv ==
    /\ plan \in {PlanOf(s) : s \in Schedules}
    /\ complete \in Nat /\ complete <= plan.of.total /\ pos \in Nat /\ pos <= Len(plan.windows)
    /\ dropped = 0 /\ shotPos \in Nat /\ shotPos <= Len(plan.windows)
    /\ live \in SUBSET (0 .. plan.of.total - 1) /\ shotLive \in SUBSET (0 .. plan.of.total - 1)
    /\ \A l \in shot : l \in Nat /\ l < complete
    /\ DOMAIN picked = DOMAIN plan.windows /\ DOMAIN seen = DOMAIN plan.windows

(* The stream is never behind: the next window is decoded as soon as it can  *)
(* be, before another layer is pushed.                                      *)
PaceInv ==
    /\ pos < Len(plan.windows) => complete <= Due(plan, pos + 1)
    /\ \A i \in 1..pos : Due(plan, i) <= complete

(* What a decoded window was to commit is settled.                          *)
CleanInv == \A i \in 1..pos : \A l \in live : ~Holds(At(plan, i), l)

(* A window commits edges of its region only, and none before it is         *)
(* decoded.                                                                 *)
PickedInv ==
    \A i \in 1..Len(plan.windows) :
        /\ \A e \in picked[plan.order[i]] : Own(At(plan, i), plan.of.total, e)
        /\ i > pos => picked[plan.order[i]] = {}

(* The first layer held is the first one that a window to come reads.       *)
BaseInv ==
    /\ base \in Nat /\ base <= complete
    /\ \A i \in pos + 1 .. Len(plan.windows) : base <= At(plan, i).a
    /\ pos < Len(plan.windows) => \E i \in pos + 1 .. Len(plan.windows) : base = At(plan, i).a
    /\ pos = Len(plan.windows) => base = complete

(* What is live is the shot, with what was committed toggled; and so was     *)
(* what each window saw.                                                   *)
LiveInv ==
    \A l \in 0 .. plan.of.total - 1 :
        (l \in live) <=> ((l \in shot) <=> ~Flipped(Prefix(plan.order, pos), picked, plan.of.total, l))

SeenInv ==
    \A i \in 1..pos :
        /\ seen[plan.order[i]] \in SUBSET {l \in Nat : Reads(At(plan, i), l)}
        /\ \A l \in Nat : Reads(At(plan, i), l) =>
              ((l \in seen[plan.order[i]])
                 <=> ((l \in shot) <=> ~Flipped(Prefix(plan.order, i - 1), picked, plan.of.total, l)))

(* The decoder of whole shots toggles, window by window, what the stream    *)
(* committed.                                                               *)
ShotInv ==
    /\ shotPos > 0 => complete = plan.of.total /\ pos = Len(plan.windows)
    /\ \A l \in 0 .. plan.of.total - 1 :
          (l \in shotLive) <=>
              ((l \in shot) <=> ~Flipped(Prefix(PhaseOrder(plan.windows), shotPos), picked, plan.of.total, l))

Inv == TypeInv /\ PaceInv /\ CleanInv /\ PickedInv /\ BaseInv /\ LiveInv /\ SeenInv /\ ShotInv

-----------------------------------------------------------------------------
(***************************************************************************)
(* What a plan and the invariant tell.                                      *)
(***************************************************************************)
LEMMA PlanFacts ==
    ASSUME plan \in {PlanOf(s) : s \in Schedules}
    PROVE  /\ Typed(plan.of, plan.windows, plan.ready) /\ Covered(plan.of, plan.windows)
           /\ CleanAfter(plan.windows, plan.ready) /\ SameOrder(plan.windows, plan.ready)
           /\ Ranks(plan.order, Len(plan.windows), OnStream(plan.windows, plan.ready))
           /\ Ranks(PhaseOrder(plan.windows), Len(plan.windows), InPhases(plan.windows))
           /\ ShotOrder = PhaseOrder(plan.windows)
           /\ Len(plan.order) = Len(plan.windows)
<1>1. PICK s \in Schedules : plan = PlanOf(s)
      OBVIOUS
<1>2. SoundOf(plan)
      <2>1. SoundOf(PlanOf(s))
            BY PlansAreSound
      <2> QED BY <1>1, <2>1
<1>3. /\ Typed(plan.of, plan.windows, plan.ready) /\ Covered(plan.of, plan.windows)
      /\ CleanAfter(plan.windows, plan.ready) /\ SameOrder(plan.windows, plan.ready)
      /\ Ranks(plan.order, Len(plan.windows), OnStream(plan.windows, plan.ready))
      BY <1>2 DEF SoundOf, SoundPlan
<1>4. /\ Len(plan.windows) \in Nat /\ DOMAIN plan.windows = 1..Len(plan.windows)
      /\ \A i \in 1..Len(plan.windows) : plan.windows[i].phase \in Nat
      BY <1>3 DEF Typed, Fits
<1>5. Ranks(PhaseOrder(plan.windows), Len(plan.windows), InPhases(plan.windows))
      BY <1>4, PhasedRanks DEF PhaseOrder
<1>6. ShotOrder = PhaseOrder(plan.windows)
      BY DEF ShotOrder, PhaseOrder, InPhases, Phased, W
<1>7. Len(plan.order) = Len(plan.windows)
      <2>1. DOMAIN plan.order = 1..Len(plan.windows) /\ plan.order \in Seq(1..Len(plan.windows))
            <3>1. plan.order \in [1..Len(plan.windows) -> 1..Len(plan.windows)]
                  BY <1>3 DEF Ranks
            <3> QED BY <1>4, <3>1
      <2> QED BY <1>4, <2>1
<1> QED BY <1>3, <1>5, <1>6, <1>7

(* The windows in the order they are decoded, by position.                  *)
LEMMA InPlan ==
    ASSUME plan \in {PlanOf(s) : s \in Schedules}
    PROVE  /\ Len(plan.windows) \in Nat /\ DOMAIN plan.windows = 1..Len(plan.windows) /\ plan.of.total \in Nat
           /\ DOMAIN plan.order = 1..Len(plan.windows) /\ Slack(plan.of) \in Nat
           /\ \A i \in 1..Len(plan.windows) :
                 /\ plan.order[i] \in 1..Len(plan.windows)
                 /\ At(plan, i).a \in Nat /\ At(plan, i).b \in Nat
                 /\ At(plan, i).commit[1] \in Nat /\ At(plan, i).commit[2] \in Nat
                 /\ At(plan, i).a <= At(plan, i).commit[1]
                 /\ At(plan, i).commit[2] <= At(plan, i).b
                 /\ At(plan, i).b <= Due(plan, i)
                 /\ Due(plan, i) \in Nat /\ Due(plan, i) <= plan.of.total
                 /\ Due(plan, i) <= At(plan, i).a + Slack(plan.of)
           /\ \A i, j \in 1..Len(plan.windows) : i < j =>
                 /\ Due(plan, i) <= Due(plan, j)
                 /\ Sooner(plan.windows, plan.ready, plan.order[i], plan.order[j])
                 /\ \A m \in Nat : Touches(At(plan, j), m) => ~Holds(At(plan, i), m)
           /\ \A i, j \in 1..Len(plan.windows) : i # j => plan.order[i] # plan.order[j]
           /\ \A w \in 1..Len(plan.windows) : \E i \in 1..Len(plan.windows) : plan.order[i] = w
           /\ \A l \in Nat : l < plan.of.total => \E i \in 1..Len(plan.windows) : Holds(At(plan, i), l)
<1> DEFINE ws == plan.windows
           f == plan.order
           ready == plan.ready
           T == plan.of.total
           N == Len(ws)
           R == OnStream(ws, ready)
<1>1. /\ Typed(plan.of, ws, ready) /\ Covered(plan.of, ws) /\ CleanAfter(ws, ready)
      /\ Ranks(f, N, R)
      BY PlanFacts
<1> HIDE DEF ws, f, ready, R
<1>2. /\ N \in Nat /\ DOMAIN ws = 1..N /\ T \in Nat /\ Slack(plan.of) \in Nat
      /\ \A i \in 1..N : Fits(ws[i], T)
      /\ \A i \in 1..N : ready[i] \in Nat /\ ws[i].b <= ready[i] /\ ready[i] <= T /\ ready[i] <= ws[i].a + Slack(plan.of)
      BY <1>1 DEF Typed
<1>3. /\ f \in [1..N -> 1..N]
      /\ \A i, j \in 1..N : i < j => <<f[i], f[j]>> \in R
      /\ \A i, j \in 1..N : i # j => f[i] # f[j]
      /\ \A x \in 1..N : \E i \in 1..N : f[i] = x
      BY <1>1 DEF Ranks
<1>4. \A i \in 1..N : f[i] \in 1..N
      BY <1>3
<1>5. ASSUME NEW i \in 1..N
      PROVE  /\ ws[f[i]].a \in Nat /\ ws[f[i]].b \in Nat
             /\ ws[f[i]].commit[1] \in Nat /\ ws[f[i]].commit[2] \in Nat
             /\ ws[f[i]].a <= ws[f[i]].commit[1] /\ ws[f[i]].commit[2] <= ws[f[i]].b
             /\ ws[f[i]].b <= ready[f[i]] /\ ready[f[i]] \in Nat /\ ready[f[i]] <= T
             /\ ready[f[i]] <= ws[f[i]].a + Slack(plan.of)
      <2>1. f[i] \in 1..N
            BY <1>4
      <2>2. Fits(ws[f[i]], T)
            BY <1>2, <2>1
      <2> QED BY <1>2, <2>1, <2>2 DEF Fits
<1>6. ASSUME NEW i \in 1..N, NEW j \in 1..N, i < j
      PROVE  /\ ready[f[i]] <= ready[f[j]]
             /\ Sooner(ws, ready, f[i], f[j])
             /\ \A m \in Nat : Touches(ws[f[j]], m) => ~Holds(ws[f[i]], m)
      <2>1. f[i] \in 1..N /\ f[j] \in 1..N /\ f[i] # f[j]
            BY <1>3, <1>4, <1>6
      <2>2. Sooner(ws, ready, f[i], f[j])
            BY <1>3, <1>6 DEF R, OnStream
      <2>3. ready[f[i]] <= ready[f[j]]
            <3>1. ready[f[i]] \in Nat /\ ready[f[j]] \in Nat
                  BY <1>5
            <3> QED BY <2>2, <3>1 DEF Sooner
      <2> QED BY <1>1, <2>1, <2>2, <2>3 DEF CleanAfter
<1>7. ASSUME NEW l \in Nat, l < T PROVE \E i \in 1..N : Holds(ws[f[i]], l)
      <2>1. PICK x \in 1..N : Holds(ws[x], l)
            BY <1>1, <1>7 DEF Covered
      <2> QED BY <1>3, <2>1
<1>8. DOMAIN f = 1..N
      BY <1>3
<1> HIDE DEF N, T
<1> QED BY <1>2, <1>3, <1>4, <1>5, <1>6, <1>7, <1>8 DEF ws, f, ready, N, T, At, Due

LEMMA OneAt ==
    ASSUME plan \in {PlanOf(s) : s \in Schedules}, NEW i \in 1..Len(plan.windows)
    PROVE  /\ plan.order[i] \in 1..Len(plan.windows)
           /\ At(plan, i).a \in Nat /\ At(plan, i).b \in Nat
           /\ At(plan, i).commit[1] \in Nat /\ At(plan, i).commit[2] \in Nat
           /\ At(plan, i).a <= At(plan, i).commit[1]
           /\ At(plan, i).commit[2] <= At(plan, i).b
           /\ At(plan, i).b <= Due(plan, i)
           /\ Due(plan, i) \in Nat /\ Due(plan, i) <= plan.of.total
           /\ Due(plan, i) <= At(plan, i).a + Slack(plan.of)
BY InPlan

-----------------------------------------------------------------------------
(***************************************************************************)
(* Corrections, and how often a layer has been toggled.                     *)
(***************************************************************************)
LEMMA SyndromeMeets ==
    ASSUME NEW c, NEW L, NEW l \in Syndrome(c, L)
    PROVE  l \in L /\ \E e \in c : l \in e
<1>1. l \in L /\ Cardinality({e \in c : l \in e}) % 2 = 1
      BY DEF Syndrome
<1>2. {e \in c : l \in e} # {}
      <2>1. ASSUME {e \in c : l \in e} = {} PROVE FALSE
            <3>1. Cardinality({e \in c : l \in e}) = 0
                  BY <2>1, FS_EmptySet
            <3> QED BY <1>1, <3>1
      <2> QED BY <2>1
<1> QED BY <1>1, <1>2

(* One more window flips the layers that its own correction toggles.        *)
LEMMA FlippedMore ==
    ASSUME NEW S, IsFiniteSet(S), NEW pk, NEW qk, NEW T, NEW l, NEW w, w \notin S, \A v \in S : qk[v] = pk[v]
    PROVE  Flipped(S \cup {w}, qk, T, l) <=> (Flipped(S, pk, T, l) <=> l \notin Syndrome(qk[w], 0 .. T - 1))
<1> DEFINE M == {v \in S : l \in Syndrome(pk[v], 0 .. T - 1)}
           Q == {v \in S \cup {w} : l \in Syndrome(qk[v], 0 .. T - 1)}
<1>1. IsFiniteSet(M) /\ Cardinality(M) \in Nat
      BY FS_Subset, FS_CardinalityType
<1>2. CASE l \in Syndrome(qk[w], 0 .. T - 1)
      <2>1. Q = M \cup {w} /\ w \notin M
            BY <1>2
      <2> HIDE DEF M, Q
      <2>2. Cardinality(Q) = Cardinality(M) + 1
            BY <1>1, <2>1, FS_AddElement
      <2>3. \A n \in Nat : (n + 1) % 2 = 1 <=> ~(n % 2 = 1)
            OBVIOUS
      <2> QED BY <1>1, <1>2, <2>2, <2>3 DEF Flipped, M, Q
<1>3. CASE l \notin Syndrome(qk[w], 0 .. T - 1)
      <2>1. Q = M
            BY <1>3
      <2> QED BY <1>3, <2>1 DEF Flipped
<1> QED BY <1>2, <1>3

(* No window flips nothing, and equal corrections flip alike.               *)
LEMMA FlippedNever ==
    ASSUME NEW pk, NEW T, NEW l
    PROVE  ~Flipped({}, pk, T, l)
<1>1. {v \in {} : l \in Syndrome(pk[v], 0 .. T - 1)} = {}
      OBVIOUS
<1>2. Cardinality({}) = 0
      BY FS_EmptySet
<1> QED BY <1>1, <1>2 DEF Flipped

LEMMA NothingYet ==
    ASSUME NEW f, NEW pk, NEW T, NEW l, NEW k, k = 0
    PROVE  ~Flipped(Prefix(f, k), pk, T, l)
<1>1. Prefix(f, 0) = {}
      BY DEF Prefix
<1> QED BY <1>1, FlippedNever

LEMMA FlippedAlike ==
    ASSUME NEW S, NEW pk, NEW qk, NEW T, NEW l, \A v \in S : qk[v] = pk[v]
    PROVE  Flipped(S, qk, T, l) <=> Flipped(S, pk, T, l)
<1>1. {v \in S : l \in Syndrome(pk[v], 0 .. T - 1)} = {v \in S : l \in Syndrome(qk[v], 0 .. T - 1)}
      OBVIOUS
<1> QED BY <1>1 DEF Flipped

(* The windows decoded are one more with each that is decoded.              *)
LEMMA Prefixes ==
    ASSUME NEW f, NEW k \in Nat
    PROVE  /\ Prefix(f, 0) = {} /\ IsFiniteSet(Prefix(f, k))
           /\ Prefix(f, k + 1) = Prefix(f, k) \cup {f[k + 1]}
<1>1. Prefix(f, 0) = {}
      BY DEF Prefix
<1>2. Prefix(f, k + 1) = Prefix(f, k) \cup {f[k + 1]}
      <2>1. 1..(k + 1) = (1..k) \cup {k + 1}
            OBVIOUS
      <2> QED BY <2>1 DEF Prefix
<1>3. IsFiniteSet(Prefix(f, k))
      <2>1. IsFiniteSet(1..k)
            BY FS_Interval
      <2> DEFINE g == [i \in 1..k |-> f[i]]
      <2>2. g \in Surjection(1..k, Prefix(f, k))
            BY DEF Prefix, Surjection
      <2> HIDE DEF g
      <2> QED BY <2>1, <2>2, FS_Surjection
<1> QED BY <1>1, <1>2, <1>3

(* A window is not among those decoded before it.                           *)
LEMMA NotYet ==
    ASSUME NEW f, NEW n \in Nat, NEW i \in 1..n, NEW k \in Nat, k < i, \A x, y \in 1..n : x # y => f[x] # f[y]
    PROVE  f[i] \notin Prefix(f, k)
<1>1. ASSUME NEW j \in 1..k PROVE f[j] # f[i]
      <2>1. j \in 1..n /\ j # i
            OBVIOUS
      <2> QED BY <2>1
<1> QED BY <1>1 DEF Prefix

(* An edge that is committed ends in layers that the window touches.        *)
LEMMA EdgesAreOwn ==
    ASSUME plan \in {PlanOf(s) : s \in Schedules}, NEW w \in 1..Len(plan.windows), NEW c \in SUBSET WindowEdges(w),
           NEW e \in Committed(w, c)
    PROVE  Own(plan.windows[w], plan.of.total, e)
<1> DEFINE x == plan.windows[w]
           T == plan.of.total
<1>1. /\ T \in Nat
      /\ x.a \in Nat /\ x.b \in Nat /\ x.commit[1] \in Nat /\ x.commit[2] \in Nat /\ x.a <= x.commit[1] /\ x.commit[2] <= x.b
      <2>1. Typed(plan.of, plan.windows, plan.ready)
            BY PlanFacts
      <2> QED BY <2>1 DEF Typed, Fits
<1>2. e \in WindowEdges(w) /\ \E l \in e : InCommit(w, l)
      BY DEF Committed
<1>3. e \in ModelEdges /\ \A l \in e : Kept(w, l)
      BY <1>2 DEF WindowEdges
<1>4. e \in Edges /\ (Boundary \notin e => Max(e) - Min(e) <= Reach)
      BY <1>3 DEF ModelEdges
<1>5. PICK u \in 0 .. T - 1, v \in (0 .. T - 1) \cup {Boundary} : e = {u, v}
      <2> DEFINE L == 0 .. T - 1
      <2>1. e \in {{u, v} : u \in L, v \in L} \cup {{u, Boundary} : u \in L}
            BY <1>4 DEF Edges, Total
      <2> HIDE DEF L
      <2>2. \E u \in L : \E v \in L \cup {Boundary} : e = {u, v}
            <3>1. CASE e \in {{u, v} : u \in L, v \in L}
                  <4>1. PICK u \in L, v \in L : e = {u, v}
                        BY <3>1
                  <4> QED BY <4>1
            <3>2. CASE e \in {{u, Boundary} : u \in L}
                  <4>1. PICK u \in L : e = {u, Boundary}
                        BY <3>2
                  <4> QED BY <4>1
            <3> QED BY <2>1, <3>1, <3>2
      <2> QED BY <2>2 DEF L
<1>6. \A l \in e : InCommit(w, l) => l \in Nat /\ Holds(x, l)
      <2> SUFFICES ASSUME NEW l \in e, InCommit(w, l) PROVE l \in Nat /\ Holds(x, l)
          OBVIOUS
      <2>1. x.commit[1] <= l /\ l < x.commit[2]
            BY DEF InCommit, W
      <2>2. l \in Nat \/ l = -1
            BY <1>1, <1>5 DEF Boundary
      <2> QED BY <1>1, <2>1, <2>2 DEF Holds
<1>7. PICK h \in e : h \in Nat /\ Holds(x, h)
      BY <1>2, <1>6
<1>8. ASSUME NEW l \in e, l # Boundary PROVE l \in Nat /\ l < T /\ Touches(x, l)
      <2>1. l \in Nat /\ l < T
            BY <1>1, <1>5, <1>8
      <2>2. Reads(x, l) \/ (l >= x.b /\ x.future) \/ (l < x.a /\ x.past)
            <3>1. Kept(w, l)
                  BY <1>3
            <3>2. l \in Layers(w) => Reads(x, l)
                  BY <1>1, <2>1 DEF Layers, W, Reads
            <3> QED BY <1>8, <3>1, <3>2 DEF Kept, W
      <2>3. h - l <= Reach /\ l - h <= Reach
            <3>1. CASE h = l
                  BY <2>1, <3>1, ReachAssumption
            <3>2. CASE h # l
                  <4>1. e = {h, l}
                        BY <1>5, <3>2
                  <4>2. Boundary \notin e
                        BY <1>7, <1>8, <2>1, <4>1 DEF Boundary
                  <4>3. Max({h, l}) - Min({h, l}) <= Reach
                        BY <1>4, <4>1, <4>2
                  <4>4. Max({h, l}) = (IF h >= l THEN h ELSE l) /\ Min({h, l}) = (IF h <= l THEN h ELSE l)
                        BY <1>7, <2>1, LeastOfTwo, MostOfTwo
                  <4> QED BY <1>7, <2>1, <4>3, <4>4, ReachAssumption
            <3> QED BY <3>1, <3>2
      <2> QED BY <1>7, <2>1, <2>2, <2>3 DEF Touches
<1> QED BY <1>7, <1>8 DEF Own

(* The layers of a window are those it reads.                               *)
LEMMA LayersRead ==
    ASSUME NEW w, NEW x, x = W[w], x.a \in Nat, x.b \in Nat
    PROVE  \A l : l \in Layers(w) <=> (l \in Nat /\ Reads(x, l))
BY DEF Layers, Reads

(* Of the corrected edges that meet a layer of the commit region, all are    *)
(* committed.                                                              *)
LEMMA RegionIsSettled ==
    ASSUME plan \in {PlanOf(s) : s \in Schedules}, NEW w \in 1..Len(plan.windows), NEW c,
           NEW l \in 0 .. plan.of.total - 1, Holds(plan.windows[w], l)
    PROVE  l \in Ends(Committed(w, c)) <=> l \in Syndrome(c, Layers(w))
<1>1. InCommit(w, l) /\ l \in Layers(w)
      <2>1. Typed(plan.of, plan.windows, plan.ready)
            BY PlanFacts
      <2>2. /\ plan.windows[w].a \in Nat /\ plan.windows[w].b \in Nat
            /\ plan.windows[w].commit[1] \in Nat /\ plan.windows[w].commit[2] \in Nat
            /\ plan.windows[w].a <= plan.windows[w].commit[1] /\ plan.windows[w].commit[2] <= plan.windows[w].b
            /\ plan.of.total \in Nat
            BY <2>1 DEF Typed, Fits
      <2>3. /\ plan.windows[w].commit[1] <= l /\ l < plan.windows[w].commit[2] /\ l \in Nat
            BY <2>2 DEF Holds
      <2>4. InCommit(w, l)
            BY <2>3 DEF InCommit, W
      <2>5. Reads(plan.windows[w], l)
            <3>1. plan.windows[w].a <= l
                  BY <2>2, <2>3
            <3>2. l < plan.windows[w].b
                  BY <2>2, <2>3
            <3> QED BY <3>1, <3>2 DEF Reads
      <2>6. l \in Layers(w)
            BY <2>2, <2>3, <2>5, LayersRead DEF W
      <2> QED BY <2>4, <2>6
<1>2. {e \in Committed(w, c) : l \in e} = {e \in c : l \in e}
      BY <1>1 DEF Committed
<1> QED BY <1>1, <1>2 DEF Ends, Syndrome, Total

-----------------------------------------------------------------------------
(***************************************************************************)
(* The invariant holds at the start, and every step keeps it.               *)
(***************************************************************************)
LEMMA InitKeeps == Init => Inv
<1> SUFFICES ASSUME Init PROVE Inv
    OBVIOUS
<1>1. /\ plan \in {PlanOf(s) : s \in Schedules}
      /\ shot = {} /\ complete = 0 /\ pos = 0 /\ live = {} /\ base = 0 /\ dropped = 0
      /\ seen = [w \in DOMAIN plan.windows |-> {}] /\ picked = [w \in DOMAIN plan.windows |-> {}]
      /\ shotPos = 0 /\ shotLive = {}
      BY DEF Init, W
<1>2. /\ Len(plan.windows) \in Nat /\ DOMAIN plan.windows = 1..Len(plan.windows) /\ plan.of.total \in Nat
      /\ \A i \in 1..Len(plan.windows) :
            /\ plan.order[i] \in 1..Len(plan.windows)
            /\ At(plan, i).a \in Nat /\ At(plan, i).b \in Nat
            /\ At(plan, i).commit[1] \in Nat
            /\ At(plan, i).a <= At(plan, i).commit[1]
            /\ Due(plan, i) \in Nat /\ Due(plan, i) <= plan.of.total
      /\ \A l \in Nat : l < plan.of.total => \E i \in 1..Len(plan.windows) : Holds(At(plan, i), l)
      BY <1>1, InPlan
<1>3. TypeInv
      BY <1>1, <1>2 DEF TypeInv
<1>4. PaceInv
      BY <1>1, <1>2 DEF PaceInv
<1>5. CleanInv
      BY <1>1 DEF CleanInv
<1>6. PickedInv
      BY <1>1, <1>2 DEF PickedInv
<1>7. BaseInv
      <2>1. ASSUME 0 < Len(plan.windows) PROVE \E i \in 1..Len(plan.windows) : 0 = At(plan, i).a
            <3>1. plan.of.total > 0
                  <4>1. Fits(plan.windows[1], plan.of.total)
                        <5>1. Typed(plan.of, plan.windows, plan.ready)
                              BY <1>1, PlanFacts
                        <5>2. 1 \in 1..Len(plan.windows)
                              BY <1>2, <2>1
                        <5> QED BY <5>1, <5>2 DEF Typed
                  <4> QED BY <1>2, <4>1 DEF Fits
            <3>2. PICK i \in 1..Len(plan.windows) : Holds(At(plan, i), 0)
                  BY <1>2, <3>1
            <3>3. At(plan, i).commit[1] <= 0
                  BY <3>2 DEF Holds
            <3>4. At(plan, i).a = 0
                  <4>1. At(plan, i).a \in Nat /\ At(plan, i).commit[1] \in Nat /\ At(plan, i).a <= At(plan, i).commit[1]
                        BY <1>1, OneAt
                  <4> QED BY <3>3, <4>1
            <3> QED BY <3>4
      <2> QED BY <1>1, <1>2, <2>1 DEF BaseInv
<1>8. LiveInv
      <2>1. \A l : ~Flipped(Prefix(plan.order, pos), picked, plan.of.total, l)
            BY <1>1, NothingYet
      <2> QED BY <1>1, <2>1 DEF LiveInv
<1>9. SeenInv
      BY <1>1 DEF SeenInv
<1>10. ShotInv
      <2>1. \A l : ~Flipped(Prefix(PhaseOrder(plan.windows), shotPos), picked, plan.of.total, l)
            BY <1>1, NothingYet
      <2>2. ~(shotPos > 0)
            BY <1>1
      <2>3. \A l : l \notin shotLive /\ l \notin shot
            BY <1>1
      <2> QED BY <2>1, <2>2, <2>3 DEF ShotInv
<1> QED BY <1>3, <1>4, <1>5, <1>6, <1>7, <1>8, <1>9, <1>10 DEF Inv

(* All is decoded only when all has been pushed.                            *)
LEMMA DecodedAll ==
    ASSUME Inv, pos = Len(plan.windows)
    PROVE  complete = plan.of.total
<1>1. TypeInv /\ PaceInv
      BY DEF Inv
<1>2. /\ plan \in {PlanOf(s) : s \in Schedules} /\ complete \in Nat /\ complete <= plan.of.total
      BY <1>1 DEF TypeInv
<1>3. /\ plan.of.total \in Nat
      /\ \A i \in 1..Len(plan.windows) :
            /\ At(plan, i).b \in Nat
            /\ At(plan, i).commit[2] \in Nat
            /\ At(plan, i).commit[2] <= At(plan, i).b
            /\ At(plan, i).b <= Due(plan, i)
            /\ Due(plan, i) \in Nat
      /\ \A l \in Nat : l < plan.of.total => \E i \in 1..Len(plan.windows) : Holds(At(plan, i), l)
      BY <1>2, InPlan
<1>4. CASE plan.of.total = 0
      BY <1>2, <1>4
<1>5. CASE plan.of.total > 0
      <2>1. plan.of.total - 1 \in Nat /\ plan.of.total - 1 < plan.of.total
            BY <1>3, <1>5
      <2>2. PICK i \in 1..Len(plan.windows) : Holds(At(plan, i), plan.of.total - 1)
            BY <1>3, <2>1
      <2>3. Due(plan, i) <= complete
            BY <1>1 DEF PaceInv
      <2>4. plan.of.total - 1 < At(plan, i).commit[2]
            BY <2>2 DEF Holds
      <2>5. /\ At(plan, i).b \in Nat /\ At(plan, i).commit[2] \in Nat /\ At(plan, i).commit[2] <= At(plan, i).b
            /\ At(plan, i).b <= Due(plan, i) /\ Due(plan, i) \in Nat
            BY <1>2, OneAt
      <2> QED BY <1>2, <1>3, <2>3, <2>4, <2>5
<1> QED BY <1>3, <1>4, <1>5

(* Ready, said of the plan.                                                *)
LEMMA ReadyIs ==
    ASSUME plan \in {PlanOf(s) : s \in Schedules}
    PROVE  Ready <=> (pos < Len(plan.windows) /\ Due(plan, pos + 1) <= complete /\ ~declined)
BY PlanFacts DEF Ready, Upcoming, Due

(* A pushed layer is in no window that was decoded.                         *)
LEMMA PushKeeps == Inv /\ Push => Inv'
<1> SUFFICES ASSUME Inv, Push PROVE Inv'
    OBVIOUS
<1>1. TypeInv /\ PaceInv /\ CleanInv /\ PickedInv /\ BaseInv /\ LiveInv /\ SeenInv /\ ShotInv
      BY DEF Inv
<1>2. /\ plan \in {PlanOf(s) : s \in Schedules}
      /\ complete \in Nat /\ pos \in Nat /\ pos <= Len(plan.windows)
      /\ live \in SUBSET (0 .. plan.of.total - 1) /\ shotLive \in SUBSET (0 .. plan.of.total - 1)
      /\ \A l \in shot : l \in Nat /\ l < complete
      BY <1>1 DEF TypeInv
<1>3. /\ Len(plan.windows) \in Nat /\ plan.of.total \in Nat
      /\ \A i \in 1..Len(plan.windows) :
            /\ plan.order[i] \in 1..Len(plan.windows)
            /\ At(plan, i).a \in Nat /\ At(plan, i).b \in Nat
            /\ At(plan, i).commit[2] \in Nat
            /\ At(plan, i).commit[2] <= At(plan, i).b
            /\ At(plan, i).b <= Due(plan, i)
            /\ Due(plan, i) \in Nat
      BY <1>2, InPlan
<1>4. PICK d \in {{}, {complete}} : shot' = shot \cup d /\ live' = Toggle(live, d) /\ shotLive' = shotLive \cup d
      BY DEF Push
<1>5. /\ complete' = complete + 1 /\ complete < plan.of.total /\ ~Ready /\ ~declined
      /\ plan' = plan /\ pos' = pos /\ base' = base /\ dropped' = dropped /\ seen' = seen /\ picked' = picked /\ shotPos' = shotPos
      BY DEF Push, Total
<1>6. pos < Len(plan.windows) /\ complete < Due(plan, pos + 1)
      <2>1. pos # Len(plan.windows)
            BY <1>2, <1>3, <1>5, DecodedAll
      <2>2. pos < Len(plan.windows) /\ pos + 1 \in 1..Len(plan.windows)
            BY <1>2, <1>3, <2>1
      <2>3. ~(Due(plan, pos + 1) <= complete)
            BY <1>2, <1>5, <2>2, ReadyIs
      <2> QED BY <1>2, <1>3, <2>2, <2>3
<1>7. ASSUME NEW i \in 1..pos
      PROVE  /\ i \in 1..Len(plan.windows)
             /\ \A m \in Nat : Holds(At(plan, i), m) \/ Reads(At(plan, i), m) => m < complete
      <2>1. i \in 1..Len(plan.windows)
            BY <1>2, <1>3
      <2>2. Due(plan, i) <= complete
            BY <1>1 DEF PaceInv
      <2>3. At(plan, i).b \in Nat /\ At(plan, i).commit[2] \in Nat /\ At(plan, i).b <= complete /\ At(plan, i).commit[2] <= complete
            <3>1. /\ At(plan, i).b \in Nat /\ At(plan, i).commit[2] \in Nat /\ At(plan, i).commit[2] <= At(plan, i).b
                  /\ At(plan, i).b <= Due(plan, i) /\ Due(plan, i) \in Nat
                  BY <1>2, <2>1, OneAt
            <3> QED BY <1>2, <2>2, <3>1
      <2>4. \A m \in Nat : Holds(At(plan, i), m) => m < At(plan, i).commit[2]
            BY DEF Holds
      <2>5. \A m \in Nat : Reads(At(plan, i), m) => m < At(plan, i).b
            BY DEF Reads
      <2> QED BY <1>2, <2>1, <2>3, <2>4, <2>5
<1>8. ShotInv /\ shotPos = 0
      <2>1. ~(shotPos > 0)
            BY <1>1, <1>2, <1>3, <1>5 DEF ShotInv
      <2> QED BY <1>1, <2>1 DEF TypeInv
<1>9. complete \notin shot /\ complete \notin shotLive /\ complete \in 0 .. plan.of.total - 1
      <2>1. complete \in 0 .. plan.of.total - 1 /\ complete \notin shot
            BY <1>2, <1>3, <1>5
      <2>2. complete \notin shotLive
            <3>1. ~Flipped(Prefix(PhaseOrder(plan.windows), shotPos), picked, plan.of.total, complete)
                  BY <1>8, NothingYet
            <3> QED BY <1>8, <2>1, <3>1 DEF ShotInv
      <2> QED BY <2>1, <2>2
<1>10. TypeInv'
       <2>1. live' \in SUBSET (0 .. plan.of.total - 1) /\ shotLive' \in SUBSET (0 .. plan.of.total - 1)
             BY <1>2, <1>4, <1>9 DEF Toggle
       <2>2. \A l \in shot' : l \in Nat /\ l < complete'
             BY <1>2, <1>4, <1>5
       <2>3. complete' \in Nat /\ complete' <= plan.of.total
             BY <1>2, <1>3, <1>5
       <2> QED BY <1>1, <1>5, <2>1, <2>2, <2>3 DEF TypeInv
<1>11. PaceInv'
       <2>1. complete + 1 <= Due(plan, pos + 1)
             <3>1. Due(plan, pos + 1) \in Nat
                   BY <1>2, <1>3, <1>6, OneAt
             <3> QED BY <1>2, <1>6, <3>1 DEF Due
       <2>2. ASSUME NEW i \in 1..pos PROVE Due(plan, i) <= complete + 1
             <3>1. Due(plan, i) <= complete /\ Due(plan, i) \in Nat
                   BY <1>1, <1>2, <1>7, OneAt DEF PaceInv
             <3> QED BY <1>2, <3>1
       <2> QED BY <1>5, <2>1, <2>2 DEF PaceInv
<1>12. CleanInv'
       <2> SUFFICES ASSUME NEW i \in 1..pos, NEW l \in live' PROVE ~Holds(At(plan, i), l)
           BY <1>5 DEF CleanInv
       <2>1. CASE l \in live
             BY <1>1, <2>1 DEF CleanInv
       <2>2. CASE l = complete
             BY <1>2, <1>7, <2>2
       <2> QED BY <1>4, <2>1, <2>2 DEF Toggle
<1>13. PickedInv'
       BY <1>1, <1>5 DEF PickedInv
<1>14. BaseInv'
       <2>1. base \in Nat /\ base <= complete'
             BY <1>1, <1>2, <1>5 DEF BaseInv
       <2> QED BY <1>1, <1>2, <1>3, <1>5, <1>6, <2>1 DEF BaseInv
<1>15. LiveInv'
       <2> SUFFICES ASSUME NEW l \in 0 .. plan.of.total - 1
                    PROVE  (l \in live') <=> ((l \in shot') <=> ~Flipped(Prefix(plan.order, pos), picked, plan.of.total, l))
           BY <1>5 DEF LiveInv
       <2>1. (l \in live) <=> ((l \in shot) <=> ~Flipped(Prefix(plan.order, pos), picked, plan.of.total, l))
             BY <1>1 DEF LiveInv
       <2>2. (l \in live') <=> ((l \in live) <=> l \notin d)
             BY <1>4 DEF Toggle
       <2>3. (l \in shot') <=> ((l \in shot) <=> l \notin d)
             BY <1>4, <1>9
       <2> QED BY <2>1, <2>2, <2>3
<1>16. SeenInv'
       <2> SUFFICES ASSUME NEW i \in 1..pos
                    PROVE  /\ seen[plan.order[i]] \in SUBSET {l \in Nat : Reads(At(plan, i), l)}
                           /\ \A l \in Nat : Reads(At(plan, i), l) =>
                                ((l \in seen[plan.order[i]])
                                   <=> ((l \in shot') <=> ~Flipped(Prefix(plan.order, i - 1), picked, plan.of.total, l)))
           BY <1>5 DEF SeenInv
       <2>1. \A l \in Nat : Reads(At(plan, i), l) => l \notin d
             BY <1>2, <1>4, <1>7
       <2>2. \A l \in Nat : Reads(At(plan, i), l) => ((l \in shot') <=> (l \in shot))
             BY <1>4, <2>1
       <2> QED BY <1>1, <2>2 DEF SeenInv
<1>17. ShotInv'
       <2> SUFFICES ASSUME NEW l \in 0 .. plan.of.total - 1
                    PROVE  (l \in shotLive') <=> ((l \in shot') <=> ~Flipped(Prefix(PhaseOrder(plan.windows), shotPos), picked, plan.of.total, l))
           BY <1>5, <1>8 DEF ShotInv
       <2>1. (l \in shotLive) <=> ((l \in shot) <=> ~Flipped(Prefix(PhaseOrder(plan.windows), shotPos), picked, plan.of.total, l))
             BY <1>8 DEF ShotInv
       <2>2. ~Flipped(Prefix(PhaseOrder(plan.windows), shotPos), picked, plan.of.total, l)
             BY <1>8, NothingYet
       <2> QED BY <1>4, <2>1, <2>2
<1> QED BY <1>10, <1>11, <1>12, <1>13, <1>14, <1>15, <1>16, <1>17 DEF Inv

(* What is kept when the next window has been decoded.                      *)
LEMMA KeepIs ==
    ASSUME Inv, pos < Len(plan.windows), Due(plan, pos + 1) <= complete
    PROVE  /\ Keep(pos + 1) \in Nat /\ Keep(pos + 1) <= complete
           /\ \A i \in pos + 2 .. Len(plan.windows) : Keep(pos + 1) <= At(plan, i).a
           /\ pos + 1 < Len(plan.windows) => \E i \in pos + 2 .. Len(plan.windows) : Keep(pos + 1) = At(plan, i).a
           /\ pos + 1 = Len(plan.windows) => Keep(pos + 1) = complete
<1> DEFINE N == Len(plan.windows)
           A == {At(plan, i).a : i \in pos + 2 .. N}
           k == Keep(pos + 1)
<1>1. /\ plan \in {PlanOf(s) : s \in Schedules} /\ complete \in Nat /\ complete <= plan.of.total /\ pos \in Nat
      /\ complete <= Due(plan, pos + 1)
      /\ \A i \in 1..pos : Due(plan, i) <= complete
      BY DEF Inv, TypeInv, PaceInv
<1>2. /\ N \in Nat /\ plan.of.total \in Nat /\ Len(plan.order) = N
      /\ \A l \in Nat : l < plan.of.total => \E i \in 1..N : Holds(At(plan, i), l)
      BY <1>1, InPlan, PlanFacts
<1>3. \A i \in pos + 2 .. N : i \in 1..N /\ At(plan, i).a \in Nat
      <2> SUFFICES ASSUME NEW i \in pos + 2 .. N PROVE i \in 1..N /\ At(plan, i).a \in Nat
          OBVIOUS
      <2>1. i \in 1..N
            BY <1>1, <1>2
      <2> QED BY <1>1, <2>1, OneAt
<1>4. k = Min(A \cup {complete})
      <2>1. (pos + 1) + 1 .. Len(plan.order) = pos + 2 .. N
            BY <1>1, <1>2
      <2> QED BY <2>1 DEF Keep, At, W
<1> HIDE DEF k
<1>5. k \in A \cup {complete} /\ \A y \in A \cup {complete} : k <= y
      <2>1. A \cup {complete} \in SUBSET Nat /\ A \cup {complete} # {}
            BY <1>1, <1>3
      <2> HIDE DEF A
      <2> QED BY <1>4, <2>1, LeastOf
<1>6. k \in Nat /\ k <= complete /\ \A i \in pos + 2 .. N : k <= At(plan, i).a
      BY <1>1, <1>3, <1>5
<1>7. ASSUME pos + 1 = N PROVE k = complete
      <2>1. A = {}
            BY <1>1, <1>7
      <2> QED BY <1>5, <2>1
<1>8. ASSUME pos + 1 < N PROVE \E i \in pos + 2 .. N : k = At(plan, i).a
      <2>1. PICK i \in pos + 2 .. N : At(plan, i).a <= complete
            <3>1. CASE complete = plan.of.total
                  <4>1. pos + 2 \in pos + 2 .. N /\ pos + 2 \in 1..N
                        BY <1>1, <1>2, <1>8
                  <4>2. /\ At(plan, pos + 2).a \in Nat /\ At(plan, pos + 2).b \in Nat
                        /\ Due(plan, pos + 2) \in Nat /\ Due(plan, pos + 2) <= plan.of.total
                        /\ At(plan, pos + 2).commit[1] \in Nat /\ At(plan, pos + 2).commit[2] \in Nat
                        /\ At(plan, pos + 2).a <= At(plan, pos + 2).commit[1]
                        /\ At(plan, pos + 2).commit[2] <= At(plan, pos + 2).b /\ At(plan, pos + 2).b <= Due(plan, pos + 2)
                        BY <1>1, <4>1, OneAt
                  <4>3. At(plan, pos + 2).commit[1] < At(plan, pos + 2).commit[2]
                        <5>1. Typed(plan.of, plan.windows, plan.ready) /\ plan.order[pos + 2] \in 1..N
                              BY <1>1, <4>1, PlanFacts, OneAt
                        <5>2. Fits(plan.windows[plan.order[pos + 2]], plan.of.total)
                              BY <5>1 DEF Typed
                        <5> QED BY <5>2 DEF Fits, At
                  <4>4. At(plan, pos + 2).a <= complete
                        BY <1>2, <3>1, <4>2, <4>3
                  <4> QED BY <4>1, <4>4
            <3>2. CASE complete < plan.of.total
                  <4>1. PICK i \in 1..N : Holds(At(plan, i), complete)
                        BY <1>1, <1>2, <3>2
                  <4>2. /\ At(plan, i).a \in Nat /\ At(plan, i).b \in Nat /\ Due(plan, i) \in Nat
                        /\ At(plan, i).commit[1] \in Nat /\ At(plan, i).commit[2] \in Nat
                        /\ At(plan, i).a <= At(plan, i).commit[1]
                        /\ At(plan, i).commit[2] <= At(plan, i).b /\ At(plan, i).b <= Due(plan, i)
                        BY <1>1, OneAt
                  <4>3. At(plan, i).commit[1] <= complete /\ complete < At(plan, i).commit[2]
                        BY <4>1 DEF Holds
                  <4>4. ~(Due(plan, i) <= complete)
                        BY <1>1, <4>2, <4>3
                  <4>5. i \notin 1..pos /\ i # pos + 1
                        BY <1>1, <4>4
                  <4>6. i \in pos + 2 .. N
                        BY <1>1, <1>2, <4>5
                  <4> QED BY <1>1, <4>2, <4>3, <4>6
            <3> QED BY <1>1, <1>2, <3>1, <3>2
      <2>2. At(plan, i).a \in A /\ At(plan, i).a \in Nat
            BY <1>3
      <2> HIDE DEF A
      <2>3. k \in A
            BY <1>1, <1>5, <2>1, <2>2
      <2> USE DEF A
      <2> QED BY <2>3
<1> QED BY <1>6, <1>7, <1>8 DEF k

(* Committing a window's correction cleans its region, and leaves those      *)
(* clean that were: nothing is let go with a defect.                        *)
LEMMA CommitCleans ==
    ASSUME Inv, pos < Len(plan.windows), Due(plan, pos + 1) <= complete,
           NEW c \in SUBSET WindowEdges(plan.order[pos + 1]),
           Syndrome(c, Layers(plan.order[pos + 1])) = live \cap Layers(plan.order[pos + 1]),
           NEW after, after = Toggle(live, Ends(Committed(plan.order[pos + 1], c)))
    PROVE  /\ after \in SUBSET (0 .. plan.of.total - 1)
           /\ \A i \in 1 .. pos + 1 : \A l \in after : ~Holds(At(plan, i), l)
           /\ \A l \in after : l >= Keep(pos + 1)
<1> DEFINE N == Len(plan.windows)
           w == plan.order[pos + 1]
           E == Ends(Committed(w, c))
<1>1. /\ plan \in {PlanOf(s) : s \in Schedules} /\ complete \in Nat /\ pos \in Nat
      /\ live \in SUBSET (0 .. plan.of.total - 1)
      /\ \A i \in 1..pos : \A l \in live : ~Holds(At(plan, i), l)
      BY DEF Inv, TypeInv, CleanInv
<1>2. /\ N \in Nat /\ plan.of.total \in Nat
      /\ \A i, j \in 1..N : i < j => \A m \in Nat : Touches(At(plan, j), m) => ~Holds(At(plan, i), m)
      /\ \A l \in Nat : l < plan.of.total => \E i \in 1..N : Holds(At(plan, i), l)
      BY <1>1, InPlan
<1>3. pos + 1 \in 1..N /\ w \in 1..N /\ At(plan, pos + 1) = plan.windows[w]
      <2>1. pos + 1 \in 1..N
            BY <1>1, <1>2
      <2> QED BY <1>1, <2>1, OneAt DEF At
<1>4. ASSUME NEW l \in E PROVE l \in 0 .. plan.of.total - 1 /\ Touches(At(plan, pos + 1), l)
      <2>1. l \in 0 .. plan.of.total - 1 /\ \E e \in Committed(w, c) : l \in e
            <3> DEFINE C == Committed(w, c)
                       L == 0 .. plan.of.total - 1
            <3>1. l \in Syndrome(C, L)
                  BY DEF Ends, Total
            <3> HIDE DEF E, C, L
            <3>2. l \in L /\ \E e \in C : l \in e
                  BY <3>1, SyndromeMeets
            <3> QED BY <3>2 DEF C, L
      <2>2. PICK e \in Committed(w, c) : l \in e
            BY <2>1
      <2>3. Own(plan.windows[w], plan.of.total, e)
            BY <1>1, <1>3, EdgesAreOwn
      <2>4. l # Boundary
            BY <1>2, <2>1 DEF Boundary
      <2> QED BY <1>3, <2>1, <2>2, <2>3, <2>4 DEF Own
<1>5. ASSUME NEW l \in 0 .. plan.of.total - 1, Holds(At(plan, pos + 1), l) PROVE l \in E <=> l \in live
      <2>1. l \in E <=> l \in Syndrome(c, Layers(w))
            BY <1>1, <1>3, <1>5, RegionIsSettled
      <2>2. l \in Layers(w)
            <3>1. /\ At(plan, pos + 1).a \in Nat /\ At(plan, pos + 1).b \in Nat
                  /\ At(plan, pos + 1).commit[1] \in Nat /\ At(plan, pos + 1).commit[2] \in Nat
                  /\ At(plan, pos + 1).a <= At(plan, pos + 1).commit[1]
                  /\ At(plan, pos + 1).commit[2] <= At(plan, pos + 1).b
                  BY <1>1, <1>3, OneAt
            <3>2. At(plan, pos + 1).a <= l /\ l < At(plan, pos + 1).b
                  <4>1. At(plan, pos + 1).commit[1] <= l /\ l < At(plan, pos + 1).commit[2] /\ l \in Int
                        BY <1>2, <1>5 DEF Holds
                  <4> QED BY <3>1, <4>1
            <3>3. Reads(At(plan, pos + 1), l) /\ l \in Nat
                  BY <1>2, <1>5, <3>2 DEF Reads
            <3>4. At(plan, pos + 1) = W[w]
                  BY <1>3 DEF W
            <3> QED BY <3>1, <3>3, <3>4, LayersRead
      <2> QED BY <2>1, <2>2
<1> HIDE DEF E
<1>6. after \in SUBSET (0 .. plan.of.total - 1) /\ \A l : l \in after <=> (l \in live <=> l \notin E)
      BY <1>1, <1>4 DEF Toggle, E
<1>7. ASSUME NEW i \in 1 .. pos + 1, NEW l \in after PROVE ~Holds(At(plan, i), l)
      <2>1. CASE i = pos + 1
            BY <1>5, <1>6, <2>1
      <2>2. CASE i \in 1..pos
            <3>1. i \in 1..N /\ i < pos + 1
                  BY <1>1, <1>2, <1>3, <2>2
            <3>2. CASE l \in live
                  BY <1>1, <2>2, <3>2
            <3>3. CASE l \in E
                  BY <1>2, <1>3, <1>4, <3>1, <3>3
            <3> QED BY <1>6, <3>2, <3>3
      <2> QED BY <1>1, <2>1, <2>2
<1>8. ASSUME NEW l \in after PROVE l >= Keep(pos + 1)
      <2>1. l \in Nat /\ l < plan.of.total
            BY <1>2, <1>6
      <2>2. PICK i \in 1..N : Holds(At(plan, i), l)
            BY <1>2, <2>1
      <2>3. i \in pos + 2 .. N
            <3>1. i \notin 1 .. pos + 1
                  BY <1>7, <2>2
            <3> QED BY <1>1, <1>2, <3>1
      <2>4. Keep(pos + 1) \in Nat /\ Keep(pos + 1) <= At(plan, i).a
            BY <2>3, KeepIs
      <2>5. At(plan, i).a \in Nat /\ At(plan, i).commit[1] \in Nat /\ At(plan, i).a <= At(plan, i).commit[1]
            BY <1>1, OneAt
      <2>6. At(plan, i).commit[1] <= l
            BY <2>2 DEF Holds
      <2> QED BY <2>1, <2>4, <2>5, <2>6
<1> QED BY <1>6, <1>7, <1>8

(* A window that is decoded clears its own region and no other.             *)
LEMMA DecodeKeeps == Inv /\ Decode => Inv'
<1> SUFFICES ASSUME Inv, Decode PROVE Inv'
    OBVIOUS
<1> DEFINE N == Len(plan.windows)
           T == plan.of.total
           w == plan.order[pos + 1]
<1>1. TypeInv /\ PaceInv /\ CleanInv /\ PickedInv /\ BaseInv /\ LiveInv /\ SeenInv /\ ShotInv
      BY DEF Inv
<1>2. /\ plan \in {PlanOf(s) : s \in Schedules}
      /\ complete \in Nat /\ complete <= T /\ pos \in Nat /\ pos <= N /\ dropped = 0
      /\ live \in SUBSET (0 .. T - 1)
      /\ \A l \in shot : l \in Nat /\ l < complete
      /\ DOMAIN picked = DOMAIN plan.windows /\ DOMAIN seen = DOMAIN plan.windows
      BY <1>1 DEF TypeInv
<1>3. /\ N \in Nat /\ T \in Nat /\ DOMAIN plan.windows = 1..N
      /\ \A i \in 1..N : plan.order[i] \in 1..N
      /\ \A i, j \in 1..N : i < j => Due(plan, i) <= Due(plan, j)
      /\ \A i, j \in 1..N : i # j => plan.order[i] # plan.order[j]
      BY <1>2, InPlan DEF Due
<1>4. Ready /\ pos < N /\ Due(plan, pos + 1) <= complete /\ w = Upcoming /\ ~declined
      BY <1>2, ReadyIs DEF Decode, Upcoming, Due
<1>5. pos + 1 \in 1..N /\ w \in 1..N /\ At(plan, pos + 1) = plan.windows[w]
      BY <1>2, <1>3, <1>4 DEF At
<1>6. PICK c \in SUBSET WindowEdges(w) :
        /\ Syndrome(c, Layers(w)) = live \cap Layers(w)
        /\ LET after == Toggle(live, Ends(Committed(w, c)))
           IN  /\ live' = {l \in after : l >= Keep(pos + 1)}
               /\ dropped' = dropped + Cardinality(after \ live')
        /\ picked' = [picked EXCEPT ![w] = Committed(w, c)]
      BY <1>4 DEF Decode
<1>7. /\ seen' = [seen EXCEPT ![w] = live \cap Layers(w)]
      /\ base' = Keep(pos + 1) /\ pos' = pos + 1
      /\ plan' = plan /\ shot' = shot /\ complete' = complete /\ declined' = declined
      /\ shotPos' = shotPos /\ shotLive' = shotLive
      BY <1>4 DEF Decode
<1> DEFINE after == Toggle(live, Ends(Committed(w, c)))
<1>8. /\ after \in SUBSET (0 .. T - 1)
      /\ \A i \in 1 .. pos + 1 : \A l \in after : ~Holds(At(plan, i), l)
      /\ \A l \in after : l >= Keep(pos + 1)
      <2> HIDE DEF after
      <2>1. after = Toggle(live, Ends(Committed(w, c)))
            BY DEF after
      <2>2. Syndrome(c, Layers(w)) = live \cap Layers(w)
            BY <1>6
      <2> QED BY <1>1, <1>4, <2>1, <2>2, CommitCleans DEF Inv
<1>9. live' = after /\ dropped' = 0
      <2>1. live' = after
            BY <1>6, <1>8
      <2>2. dropped' = dropped + Cardinality(after \ live')
            BY <1>6
      <2>3. after \ live' = {}
            BY <2>1
      <2>4. Cardinality({}) = 0
            BY FS_EmptySet
      <2> HIDE DEF after
      <2>5. dropped' = 0
            <3>1. Cardinality(after \ live') = 0
                  BY <2>3, <2>4
            <3>2. dropped = 0
                  BY <1>2
            <3> QED BY <2>2, <3>1, <3>2
      <2> QED BY <2>1, <2>5
<1>10. /\ Keep(pos + 1) \in Nat /\ Keep(pos + 1) <= complete
       /\ \A i \in pos + 2 .. N : Keep(pos + 1) <= At(plan, i).a
       /\ pos + 1 < N => \E i \in pos + 2 .. N : Keep(pos + 1) = At(plan, i).a
       /\ pos + 1 = N => Keep(pos + 1) = complete
       BY <1>4, KeepIs
<1>11. /\ picked'[w] = Committed(w, c) /\ DOMAIN picked' = DOMAIN picked
       /\ \A v : v # w => picked'[v] = picked[v]
       <2>1. w \in DOMAIN picked
             BY <1>2, <1>3, <1>5
       <2>2. picked' = [picked EXCEPT ![w] = Committed(w, c)]
             BY <1>6
       <2>3. \A v \in DOMAIN picked : v # w => picked'[v] = picked[v]
             BY <2>2
       <2>4. DOMAIN picked' = DOMAIN picked
             BY <2>2
       <2> QED BY <2>1, <2>2, <2>3, <2>4
<1>12. TypeInv'
       BY <1>1, <1>2, <1>3, <1>5, <1>7, <1>8, <1>9, <1>11 DEF TypeInv
<1>13. PaceInv'
       <2>1. complete <= Due(plan, pos + 1) /\ \A i \in 1..pos : Due(plan, i) <= complete
             BY <1>1, <1>4 DEF PaceInv
       <2>2. ASSUME pos + 1 < N PROVE complete <= Due(plan, (pos + 1) + 1)
             <3>1. (pos + 1) + 1 \in 1..N /\ pos + 1 < (pos + 1) + 1
                   BY <1>2, <1>3, <2>2
             <3>2. Due(plan, pos + 1) <= Due(plan, (pos + 1) + 1)
                   BY <1>3, <1>5, <3>1
             <3>3. Due(plan, pos + 1) \in Nat /\ Due(plan, (pos + 1) + 1) \in Nat
                   BY <1>2, <1>5, <3>1, OneAt
             <3> QED BY <1>2, <2>1, <3>2, <3>3
       <2>3. ASSUME NEW i \in 1 .. pos + 1 PROVE Due(plan, i) <= complete
             <3>1. i \in 1..pos \/ i = pos + 1
                   BY <1>2
             <3> QED BY <1>4, <2>1, <3>1
       <2> QED BY <1>7, <2>2, <2>3 DEF PaceInv
<1>14. CleanInv'
       BY <1>7, <1>8, <1>9 DEF CleanInv
<1>15. PickedInv'
       <2> SUFFICES ASSUME NEW i \in 1..N
                    PROVE  /\ \A e \in picked'[plan.order[i]] : Own(At(plan, i), T, e)
                           /\ i > pos + 1 => picked'[plan.order[i]] = {}
           BY <1>7 DEF PickedInv
       <2>1. CASE i = pos + 1
             <3>1. \A e \in Committed(w, c) : Own(plan.windows[w], T, e)
                   BY <1>2, <1>5, EdgesAreOwn
             <3> QED BY <1>2, <1>5, <1>11, <2>1, <3>1
       <2>2. CASE i # pos + 1
             <3>1. picked'[plan.order[i]] = picked[plan.order[i]]
                   BY <1>3, <1>5, <1>11, <2>2
             <3>2. i > pos + 1 => i > pos
                   BY <1>2
             <3> QED BY <1>1, <3>1, <3>2 DEF PickedInv
       <2> QED BY <2>1, <2>2
<1>16. BaseInv'
       <2>1. (pos + 1) + 1 .. N = pos + 2 .. N
             BY <1>2, <1>3
       <2> QED BY <1>7, <1>10, <2>1 DEF BaseInv
<1>17. /\ IsFiniteSet(Prefix(plan.order, pos)) /\ w \notin Prefix(plan.order, pos)
       /\ Prefix(plan.order, pos + 1) = Prefix(plan.order, pos) \cup {w}
       /\ \A v \in Prefix(plan.order, pos) : picked'[v] = picked[v]
       <2>1. w \notin Prefix(plan.order, pos)
             <3>1. pos < pos + 1
                   BY <1>2
             <3> QED BY <1>2, <1>3, <1>5, <3>1, NotYet
       <2> QED BY <1>2, <1>11, <2>1, Prefixes
<1>18. LiveInv'
       <2> SUFFICES ASSUME NEW l \in 0 .. T - 1
                    PROVE  (l \in after) <=> ((l \in shot) <=> ~Flipped(Prefix(plan.order, pos + 1), picked', T, l))
           BY <1>7, <1>9 DEF LiveInv
       <2> DEFINE pk == picked'
       <2>1. pk[w] = Committed(w, c) /\ \A v \in Prefix(plan.order, pos) : pk[v] = picked[v]
             BY <1>11, <1>17
       <2> HIDE DEF pk
       <2>2. Flipped(Prefix(plan.order, pos) \cup {w}, pk, T, l)
                <=> (Flipped(Prefix(plan.order, pos), picked, T, l) <=> l \notin Syndrome(pk[w], 0 .. T - 1))
             <3> DEFINE S == Prefix(plan.order, pos)
             <3>1. IsFiniteSet(S) /\ w \notin S /\ \A v \in S : pk[v] = picked[v]
                   BY <1>17, <2>1
             <3> HIDE DEF S, w, T
             <3>2. Flipped(S \cup {w}, pk, T, l) <=> (Flipped(S, picked, T, l) <=> l \notin Syndrome(pk[w], 0 .. T - 1))
                   BY <3>1, FlippedMore
             <3> QED BY <3>2 DEF S
       <2>3. Syndrome(pk[w], 0 .. T - 1) = Ends(Committed(w, c))
             BY <2>1 DEF Ends, Total
       <2>4. (l \in after) <=> ((l \in live) <=> l \notin Ends(Committed(w, c)))
             BY DEF Toggle
       <2>5. (l \in live) <=> ((l \in shot) <=> ~Flipped(Prefix(plan.order, pos), picked, T, l))
             BY <1>1 DEF LiveInv
       <2>6. Flipped(Prefix(plan.order, pos + 1), pk, T, l)
                <=> (Flipped(Prefix(plan.order, pos), picked, T, l) <=> l \notin Ends(Committed(w, c)))
             BY <1>17, <2>2, <2>3
       <2> HIDE DEF after
       <2>7. (l \in after) <=> ((l \in shot) <=> ~Flipped(Prefix(plan.order, pos + 1), pk, T, l))
             BY <2>4, <2>5, <2>6
       <2> QED BY <2>7 DEF pk
<1>19. SeenInv'
       <2> SUFFICES ASSUME NEW i \in 1 .. pos + 1
                    PROVE  /\ seen'[plan.order[i]] \in SUBSET {l \in Nat : Reads(At(plan, i), l)}
                           /\ \A l \in Nat : Reads(At(plan, i), l) =>
                                ((l \in seen'[plan.order[i]])
                                   <=> ((l \in shot) <=> ~Flipped(Prefix(plan.order, i - 1), picked', T, l)))
           BY <1>7 DEF SeenInv
       <2>1. i \in 1..N /\ i - 1 \in Nat /\ \A v \in Prefix(plan.order, i - 1) : picked'[v] = picked[v]
             <3>1. i \in 1..N /\ i - 1 \in Nat
                   BY <1>2, <1>3, <1>5
             <3>2. \A v \in Prefix(plan.order, i - 1) : v \in Prefix(plan.order, pos)
                   BY <1>2 DEF Prefix
             <3> QED BY <1>17, <3>1, <3>2
       <2> DEFINE pk == picked'
       <2>2. \A l : Flipped(Prefix(plan.order, i - 1), pk, T, l) <=> Flipped(Prefix(plan.order, i - 1), picked, T, l)
             <3>1. \A v \in Prefix(plan.order, i - 1) : pk[v] = picked[v]
                   BY <2>1
             <3> HIDE DEF pk
             <3> QED BY <3>1, FlippedAlike
       <2>3. CASE i = pos + 1
             <3>1. seen'[w] = live \cap Layers(w)
                   BY <1>2, <1>3, <1>5, <1>7
             <3>2. At(plan, i).a \in Nat /\ At(plan, i).b \in Nat /\ At(plan, i).b <= Due(plan, i) /\ Due(plan, i) \in Nat /\ Due(plan, i) <= T
                   BY <1>2, <2>1, OneAt
             <3>3. \A l : l \in Layers(w) <=> (l \in Nat /\ Reads(At(plan, i), l))
                   <4>1. At(plan, i) = W[w]
                         BY <1>5, <2>3 DEF W
                   <4> HIDE DEF w
                   <4> QED BY <3>2, <4>1, LayersRead
             <3>4. \A l \in Nat : Reads(At(plan, i), l) => l \in 0 .. T - 1
                   BY <1>3, <3>2 DEF Reads
             <3>5. i - 1 = pos
                   BY <1>2, <2>3
             <3>6. \A l \in 0 .. T - 1 : (l \in live) <=> ((l \in shot) <=> ~Flipped(Prefix(plan.order, i - 1), pk, T, l))
                   BY <1>1, <2>2, <3>5 DEF LiveInv
             <3> HIDE DEF pk
             <3>7. seen'[plan.order[i]] = live \cap Layers(w)
                   BY <2>3, <3>1
             <3>8. \A l \in Nat : Reads(At(plan, i), l) =>
                      ((l \in seen'[plan.order[i]])
                         <=> ((l \in shot) <=> ~Flipped(Prefix(plan.order, i - 1), pk, T, l)))
                   BY <3>3, <3>4, <3>6, <3>7
             <3> QED BY <3>3, <3>7, <3>8 DEF pk
       <2>4. CASE i # pos + 1
             <3>1. i \in 1..pos
                   BY <1>2, <2>4
             <3>2. seen'[plan.order[i]] = seen[plan.order[i]]
                   <4>1. plan.order[i] # w /\ plan.order[i] \in DOMAIN seen
                         BY <1>2, <1>3, <1>5, <2>1, <2>4
                   <4> QED BY <1>7, <4>1
             <3>3. /\ seen[plan.order[i]] \in SUBSET {l \in Nat : Reads(At(plan, i), l)}
                   /\ \A l \in Nat : Reads(At(plan, i), l) =>
                         ((l \in seen[plan.order[i]])
                            <=> ((l \in shot) <=> ~Flipped(Prefix(plan.order, i - 1), picked, T, l)))
                   BY <1>1, <3>1 DEF SeenInv
             <3> HIDE DEF pk
             <3>4. \A l \in Nat : Reads(At(plan, i), l) =>
                      ((l \in seen'[plan.order[i]])
                         <=> ((l \in shot) <=> ~Flipped(Prefix(plan.order, i - 1), pk, T, l)))
                   BY <2>2, <3>2, <3>3
             <3> QED BY <3>2, <3>3, <3>4 DEF pk
       <2> QED BY <2>3, <2>4
<1>20. ShotInv'
       <2>1. shotPos = 0
             BY <1>1, <1>2, <1>3, <1>4 DEF ShotInv, TypeInv
       <2> SUFFICES ASSUME NEW l \in 0 .. T - 1
                    PROVE  (l \in shotLive) <=> ((l \in shot) <=> ~Flipped(Prefix(PhaseOrder(plan.windows), shotPos), picked', T, l))
           BY <1>7, <2>1 DEF ShotInv
       <2> DEFINE pk == picked'
       <2> HIDE DEF pk
       <2>2. ~Flipped(Prefix(PhaseOrder(plan.windows), shotPos), pk, T, l)
             BY <2>1, NothingYet
       <2>3. ~Flipped(Prefix(PhaseOrder(plan.windows), shotPos), picked, T, l)
             BY <2>1, NothingYet
       <2>4. (l \in shotLive) <=> ((l \in shot) <=> ~Flipped(Prefix(PhaseOrder(plan.windows), shotPos), picked, T, l))
             BY <1>1 DEF ShotInv
       <2>5. (l \in shotLive) <=> ((l \in shot) <=> ~Flipped(Prefix(PhaseOrder(plan.windows), shotPos), pk, T, l))
             BY <2>2, <2>3, <2>4
       <2> QED BY <2>5 DEF pk
<1> QED BY <1>12, <1>13, <1>14, <1>15, <1>16, <1>18, <1>19, <1>20 DEF Inv

LEMMA DeclineKeeps == Inv /\ Decline => Inv'
<1> SUFFICES ASSUME Inv, Decline PROVE Inv'
    OBVIOUS
<1>1. /\ plan' = plan /\ shot' = shot /\ complete' = complete /\ pos' = pos /\ live' = live /\ base' = base
      /\ dropped' = dropped /\ seen' = seen /\ picked' = picked /\ shotPos' = shotPos /\ shotLive' = shotLive
      BY DEF Decline
<1> QED BY <1>1 DEF Inv, TypeInv, PaceInv, CleanInv, PickedInv, BaseInv, LiveInv, SeenInv, ShotInv

(* The decoder of whole shots toggles what was picked.                      *)
LEMMA ShotKeeps == Inv /\ DecodeShot => Inv'
<1> SUFFICES ASSUME Inv, DecodeShot PROVE Inv'
    OBVIOUS
<1> DEFINE N == Len(plan.windows)
           T == plan.of.total
           f == PhaseOrder(plan.windows)
           w == f[shotPos + 1]
           S == Prefix(f, shotPos)
<1>1. TypeInv /\ PaceInv /\ CleanInv /\ PickedInv /\ BaseInv /\ LiveInv /\ SeenInv /\ ShotInv
      BY DEF Inv
<1>2. /\ plan \in {PlanOf(s) : s \in Schedules} /\ complete \in Nat /\ complete <= T /\ pos \in Nat /\ pos <= N
      /\ shotPos \in Nat /\ shotLive \in SUBSET (0 .. T - 1)
      BY <1>1 DEF TypeInv
<1>3. N \in Nat /\ T \in Nat /\ ShotOrder = f /\ Ranks(f, N, InPhases(plan.windows))
      BY <1>2, InPlan, PlanFacts
<1>4. /\ complete = T /\ ~Ready /\ ~declined /\ shotPos < N
      /\ shotLive' = Toggle(shotLive, Ends(picked[w])) /\ shotPos' = shotPos + 1
      /\ plan' = plan /\ shot' = shot /\ complete' = complete /\ pos' = pos /\ live' = live /\ base' = base
      /\ dropped' = dropped /\ seen' = seen /\ picked' = picked
      BY <1>3 DEF DecodeShot, Finished, streamVars, W, Total
<1>5. pos = N
      <2>1. ASSUME pos < N PROVE FALSE
            <3>1. pos + 1 \in 1..N
                  BY <1>2, <1>3, <2>1
            <3>2. Due(plan, pos + 1) <= complete
                  BY <1>2, <1>4, <3>1, OneAt
            <3> QED BY <1>2, <1>4, <2>1, <3>2, ReadyIs DEF Due
      <2> QED BY <1>2, <1>3, <2>1
<1>6. w \notin S /\ IsFiniteSet(S) /\ Prefix(f, shotPos + 1) = S \cup {w}
      <2>1. w \notin S
            <3>1. \A i, j \in 1..N : i # j => f[i] # f[j]
                  BY <1>3 DEF Ranks
            <3>2. shotPos + 1 \in 1..N /\ shotPos < shotPos + 1
                  BY <1>2, <1>3, <1>4
            <3> QED BY <1>2, <1>3, <3>1, <3>2, NotYet
      <2> QED BY <1>2, <2>1, Prefixes
<1> HIDE DEF f, S, w
<1>7. Ends(picked[w]) = Syndrome(picked[w], 0 .. T - 1)
      BY DEF Ends, Total
<1>8. TypeInv'
      <2>1. shotLive' \in SUBSET (0 .. T - 1)
            <3>1. \A l \in Ends(picked[w]) : l \in 0 .. T - 1
                  BY <1>7 DEF Syndrome
            <3> QED BY <1>2, <1>4, <3>1 DEF Toggle
      <2>2. shotPos' \in Nat /\ shotPos' <= N
            BY <1>2, <1>3, <1>4
      <2> QED BY <1>1, <1>4, <2>1, <2>2 DEF TypeInv
<1>9. ShotInv'
      <2> SUFFICES ASSUME NEW l \in 0 .. T - 1
                   PROVE  (l \in shotLive') <=> ((l \in shot) <=> ~Flipped(Prefix(f, shotPos + 1), picked, T, l))
          BY <1>4, <1>5 DEF ShotInv, f
      <2>1. (l \in shotLive) <=> ((l \in shot) <=> ~Flipped(S, picked, T, l))
            BY <1>1 DEF ShotInv, S, f
      <2>2. (l \in shotLive') <=> ((l \in shotLive) <=> l \notin Ends(picked[w]))
            BY <1>4 DEF Toggle
      <2>3. Flipped(S \cup {w}, picked, T, l) <=> (Flipped(S, picked, T, l) <=> l \notin Syndrome(picked[w], 0 .. T - 1))
            <3> HIDE DEF T
            <3> QED BY <1>6, FlippedMore
      <2> QED BY <1>6, <1>7, <2>1, <2>2, <2>3
<1>10. PaceInv' /\ CleanInv' /\ PickedInv' /\ BaseInv' /\ LiveInv' /\ SeenInv'
       BY <1>1, <1>4 DEF PaceInv, CleanInv, PickedInv, BaseInv, LiveInv, SeenInv
<1> QED BY <1>8, <1>9, <1>10 DEF Inv

(* A stuttering step changes none of it.                                    *)
LEMMA StutterKeeps == Inv /\ UNCHANGED vars => Inv'
BY DEF Inv, TypeInv, PaceInv, CleanInv, PickedInv, BaseInv, LiveInv, SeenInv, ShotInv, vars, streamVars

(* The invariant, for any schedules, reach, shots and corrections: every    *)
(* push, decoded or declined window of the stream and every window of the   *)
(* whole-shot decoder keeps it.                                             *)
THEOREM StreamInvariant == Spec => []Inv
<1>1. Inv /\ [Next]_vars => Inv'
      <2> SUFFICES ASSUME Inv, [Next]_vars PROVE Inv'
          OBVIOUS
      <2>1. CASE Push
            BY <2>1, PushKeeps
      <2>2. CASE Decode
            BY <2>2, DecodeKeeps
      <2>3. CASE Decline
            BY <2>3, DeclineKeeps
      <2>4. CASE DecodeShot
            BY <2>4, ShotKeeps
      <2>5. CASE UNCHANGED vars
            BY <2>5, StutterKeeps
      <2> QED BY <2>1, <2>2, <2>3, <2>4, <2>5 DEF Next, Done
<1> QED BY <1>1, InitKeeps, PTL DEF Spec

-----------------------------------------------------------------------------
(***************************************************************************)
(* The properties.                                                         *)
(***************************************************************************)
LEMMA FinishedIs ==
    ASSUME Inv, Finished
    PROVE  pos = Len(plan.windows)
<1>1. /\ plan \in {PlanOf(s) : s \in Schedules} /\ complete = plan.of.total /\ complete \in Nat
      /\ pos \in Nat /\ pos <= Len(plan.windows) /\ ~Ready /\ ~declined
      BY DEF Inv, TypeInv, Finished, Total
<1>2. Len(plan.windows) \in Nat
      BY <1>1, InPlan
<1>3. ASSUME pos < Len(plan.windows) PROVE FALSE
      <2>1. pos + 1 \in 1..Len(plan.windows)
            BY <1>1, <1>2, <1>3
      <2>2. Due(plan, pos + 1) <= complete
            BY <1>1, <2>1, OneAt
      <2> QED BY <1>1, <1>3, <2>2, ReadyIs DEF Due
<1> QED BY <1>1, <1>2, <1>3

(* RegionsStayClean, at any size: once a window has committed, no defect is  *)
(* in its commit region again, none is let go with its layer, and a shot     *)
(* that has been pushed whole is explained whole.                           *)
THEOREM RegionsAreClean == Spec => []RegionsStayClean
<1>1. Inv => RegionsStayClean
      <2> SUFFICES ASSUME Inv PROVE RegionsStayClean
          OBVIOUS
      <2>1. /\ plan \in {PlanOf(s) : s \in Schedules} /\ dropped = 0 /\ live \in SUBSET (0 .. plan.of.total - 1)
            /\ \A i \in 1..pos : \A l \in live : ~Holds(At(plan, i), l)
            BY DEF Inv, TypeInv, CleanInv
      <2>2. ASSUME NEW w \in Decoded, NEW l \in live PROVE ~InCommit(w, l)
            <3>1. PICK i \in 1..pos : w = plan.order[i]
                  BY DEF Decoded
            <3> QED BY <2>1, <3>1 DEF InCommit, Holds, W, At
      <2>3. ASSUME Finished PROVE pos = Len(W) /\ live = {}
            <3>1. pos = Len(plan.windows)
                  BY <2>3, FinishedIs
            <3>2. ASSUME NEW l \in live PROVE FALSE
                  <4>1. l \in Nat /\ l < plan.of.total
                        BY <2>1, InPlan
                  <4>2. \E i \in 1..Len(plan.windows) : Holds(At(plan, i), l)
                        BY <2>1, <4>1, InPlan
                  <4> QED BY <2>1, <3>1, <4>2
            <3> QED BY <3>1, <3>2 DEF W
      <2> QED BY <2>1, <2>2, <2>3 DEF RegionsStayClean
<1> QED BY <1>1, StreamInvariant, PTL

(* CommittedOnce, at any size: no edge is in the committed corrections of    *)
(* two windows.                                                            *)
THEOREM EdgesAreCommittedOnce == Spec => []CommittedOnce
<1>1. Inv => CommittedOnce
      <2> SUFFICES ASSUME Inv PROVE CommittedOnce
          OBVIOUS
      <2>1. plan \in {PlanOf(s) : s \in Schedules}
            BY DEF Inv, TypeInv
      <2>2. ASSUME NEW i \in 1..Len(plan.windows), NEW j \in 1..Len(plan.windows), i < j
            PROVE  picked[plan.order[i]] \cap picked[plan.order[j]] = {}
            <3> SUFFICES ASSUME NEW e \in picked[plan.order[i]], e \in picked[plan.order[j]] PROVE FALSE
                OBVIOUS
            <3>1. Own(At(plan, i), plan.of.total, e) /\ Own(At(plan, j), plan.of.total, e)
                  BY DEF Inv, PickedInv
            <3>2. PICK l \in e : l \in Nat /\ Holds(At(plan, i), l)
                  BY <3>1 DEF Own
            <3>3. Touches(At(plan, j), l)
                  BY <3>1, <3>2 DEF Own, Boundary
            <3> QED BY <2>1, <2>2, <3>2, <3>3, InPlan
      <2>3. ASSUME NEW v \in 1..Len(plan.windows), NEW w \in 1..Len(plan.windows), v # w
            PROVE  picked[v] \cap picked[w] = {}
            <3>1. PICK i \in 1..Len(plan.windows) : plan.order[i] = v
                  BY <2>1, InPlan
            <3>2. PICK j \in 1..Len(plan.windows) : plan.order[j] = w
                  BY <2>1, InPlan
            <3>3. Len(plan.windows) \in Nat
                  BY <2>1, InPlan
            <3>4. i < j \/ j < i
                  BY <2>3, <3>1, <3>2, <3>3
            <3> QED BY <2>2, <3>1, <3>2, <3>4
      <2>4. DOMAIN plan.windows = 1..Len(plan.windows)
            BY <2>1, InPlan
      <2> QED BY <2>3, <2>4 DEF CommittedOnce, W
<1> QED BY <1>1, StreamInvariant, PTL

(* HoldsWhatItNeeds, at any size: no window to come reads a layer that was   *)
(* let go or commits an edge that ends in one, and the stream never holds    *)
(* more layers than a commit region and its buffers.                        *)
THEOREM HeldWhileItIsNeeded == Spec => []HoldsWhatItNeeds
<1>1. Inv => HoldsWhatItNeeds
      <2> SUFFICES ASSUME Inv PROVE HoldsWhatItNeeds
          OBVIOUS
      <2> DEFINE N == Len(plan.windows)
                 T == plan.of.total
      <2>1. /\ plan \in {PlanOf(s) : s \in Schedules} /\ complete \in Nat /\ pos \in Nat /\ pos <= N
            /\ complete <= Due(plan, pos + 1) \/ pos = N
            BY InPlan DEF Inv, TypeInv, PaceInv
      <2>2. /\ base \in Nat /\ base <= complete
            /\ \A i \in pos + 1 .. N : base <= At(plan, i).a
            /\ pos < N => \E i \in pos + 1 .. N : base = At(plan, i).a
            /\ pos = N => base = complete
            BY DEF Inv, BaseInv
      <2>3. /\ N \in Nat /\ DOMAIN plan.windows = 1..N /\ T \in Nat /\ Slack(plan.of) \in Nat
            /\ \A i, j \in 1..N : i < j =>
                  /\ Due(plan, i) <= Due(plan, j)
                  /\ \A m \in Nat : Touches(At(plan, j), m) => ~Holds(At(plan, i), m)
            /\ \A w \in 1..N : \E i \in 1..N : plan.order[i] = w
            /\ \A l \in Nat : l < T => \E i \in 1..N : Holds(At(plan, i), l)
            BY <2>1, InPlan
      <2>4. ASSUME NEW w \in DOMAIN W \ Decoded
            PROVE  /\ W[w].a >= base
                   /\ \A e \in Committed(w, WindowEdges(w)) : \A l \in e : l = Boundary \/ l >= base
            <3>1. w \in 1..N /\ w \notin Decoded
                  BY <2>3 DEF W
            <3>2. PICK i \in 1..N : plan.order[i] = w
                  BY <2>3, <3>1
            <3>3. i \in pos + 1 .. N
                  <4>1. i \notin 1..pos
                        BY <3>1, <3>2 DEF Decoded
                  <4> QED BY <2>1, <2>3, <4>1
            <3>4. W[w].a >= base
                  BY <2>2, <3>2, <3>3 DEF At, W
            <3>5. ASSUME NEW e \in Committed(w, WindowEdges(w)), NEW l \in e, l # Boundary PROVE l >= base
                  <4>1. Own(At(plan, i), T, e)
                        BY <2>1, <3>1, <3>2, EdgesAreOwn DEF At
                  <4>2. l \in Nat /\ l < T /\ Touches(At(plan, i), l)
                        BY <3>5, <4>1 DEF Own
                  <4>3. PICK j \in 1..N : Holds(At(plan, j), l)
                        BY <2>3, <4>2
                  <4>4. ~(j < i)
                        BY <2>3, <4>2, <4>3
                  <4>5. j \in pos + 1 .. N
                        BY <2>1, <2>3, <3>3, <4>4
                  <4>6. base <= At(plan, j).a
                        BY <2>2, <4>5
                  <4>7. At(plan, j).a \in Nat /\ At(plan, j).commit[1] \in Nat /\ At(plan, j).a <= At(plan, j).commit[1]
                        BY <2>1, OneAt
                  <4>8. At(plan, j).commit[1] <= l
                        BY <4>3 DEF Holds
                  <4> QED BY <2>2, <4>2, <4>6, <4>7, <4>8
            <3> QED BY <3>4, <3>5
      <2>5. complete - base <= Slack(plan.of)
            <3>1. CASE pos = N
                  BY <2>1, <2>2, <2>3, <3>1
            <3>2. CASE pos < N
                  <4>1. PICK i \in pos + 1 .. N : base = At(plan, i).a
                        BY <2>2, <3>2
                  <4>2. i \in 1..N /\ pos + 1 \in 1..N
                        BY <2>1, <2>3
                  <4>3. At(plan, i).a \in Nat /\ Due(plan, i) \in Nat /\ Due(plan, i) <= At(plan, i).a + Slack(plan.of)
                        BY <2>1, <4>2, OneAt
                  <4>4. Due(plan, pos + 1) \in Nat
                        BY <2>1, <4>2, OneAt
                  <4>5. Due(plan, pos + 1) <= Due(plan, i)
                        <5>1. i = pos + 1 \/ pos + 1 < i
                              BY <2>1, <2>3
                        <5> QED BY <2>3, <4>2, <4>4, <5>1
                  <4>6. complete <= Due(plan, pos + 1) /\ complete \in Nat /\ Slack(plan.of) \in Nat
                        BY <2>1, <2>3, <3>2
                  <4> QED BY <4>1, <4>3, <4>4, <4>5, <4>6
            <3> QED BY <2>1, <2>3, <3>1, <3>2
      <2>6. FewLayersHeld
            BY <2>5 DEF FewLayersHeld, Slack
      <2> QED BY <2>4, <2>6 DEF HoldsWhatItNeeds, HeldWhileNeeded
<1> QED BY <1>1, StreamInvariant, PTL

(* StreamDecodesTheShot, at any size: whatever the corrections, the decoder  *)
(* of whole shots asks about every window with the defects the stream asked  *)
(* with, though it goes phase by phase and the stream in order of readiness. *)
THEOREM StreamDecodesAsTheShot == Spec => []StreamDecodesTheShot
<1>1. Inv => StreamDecodesTheShot
      <2> SUFFICES ASSUME Inv, Finished, shotPos < Len(W)
                   PROVE  shotLive \cap Layers(ShotOrder[shotPos + 1]) = seen[ShotOrder[shotPos + 1]]
          BY DEF StreamDecodesTheShot
      <2> DEFINE ws == plan.windows
                 N == Len(ws)
                 T == plan.of.total
                 f == PhaseOrder(ws)
                 g == plan.order
                 w == f[shotPos + 1]
      <2>1. /\ plan \in {PlanOf(s) : s \in Schedules} /\ shotPos \in Nat /\ shotPos < N
            /\ SeenInv /\ PickedInv /\ ShotInv /\ shotLive \in SUBSET (0 .. T - 1)
            BY DEF Inv, TypeInv, W
      <2>2. /\ N \in Nat /\ T \in Nat /\ DOMAIN ws = 1..N /\ ShotOrder = f
            /\ Ranks(f, N, InPhases(ws)) /\ Ranks(g, N, OnStream(ws, plan.ready)) /\ SameOrder(ws, plan.ready)
            /\ \A x \in 1..N : plan.ready[x] \in Nat /\ ws[x].commit[1] \in Nat /\ ws[x].phase \in Nat
            <3>1. Typed(plan.of, ws, plan.ready)
                  BY <2>1, PlanFacts
            <3>2. \A x \in 1..N : plan.ready[x] \in Nat /\ ws[x].commit[1] \in Nat /\ ws[x].phase \in Nat
                  BY <3>1 DEF Typed, Fits
            <3> QED BY <2>1, <3>2, InPlan, PlanFacts
      <2>3. pos = N
            BY FinishedIs
      <2> HIDE DEF f
      <2>4. shotPos + 1 \in 1..N /\ w \in 1..N
            <3>1. shotPos + 1 \in 1..N
                  BY <2>1, <2>2
            <3> QED BY <2>2, <3>1 DEF Ranks
      <2>5. PICK i \in 1..N : g[i] = w
            BY <2>2, <2>4 DEF Ranks
      <2>6. At(plan, i) = ws[w] /\ At(plan, i).a \in Nat /\ At(plan, i).b \in Nat /\ At(plan, i).b <= T
            <3>1. /\ At(plan, i).a \in Nat /\ At(plan, i).b \in Nat /\ At(plan, i).b <= Due(plan, i)
                  /\ Due(plan, i) \in Nat /\ Due(plan, i) <= T
                  BY <2>1, OneAt
            <3> QED BY <2>2, <2>5, <3>1 DEF At
      (* A layer the window reads is toggled before it by the same windows    *)
      (* in both orders.                                                     *)
      <2>7. ASSUME NEW l \in Nat, Reads(ws[w], l), NEW v \in 1..N, l \in Syndrome(picked[v], 0 .. T - 1)
            PROVE  v \in Prefix(f, shotPos) <=> v \in Prefix(g, i - 1)
            <3>1. PICK x \in 1..N : f[x] = v
                  BY <2>2 DEF Ranks
            <3>2. PICK y \in 1..N : g[y] = v
                  BY <2>2 DEF Ranks
            <3>3. v \in Prefix(f, shotPos) <=> x < shotPos + 1
                  <4>1. \A j \in 1..N : f[j] = v => j = x
                        BY <2>2, <3>1 DEF Ranks
                  <4>2. \A j \in 1..shotPos : j \in 1..N
                        BY <2>1, <2>2
                  <4>3. x < shotPos + 1 <=> x \in 1..shotPos
                        BY <2>1, <2>2
                  <4> QED BY <3>1, <4>1, <4>2, <4>3 DEF Prefix
            <3>4. v \in Prefix(g, i - 1) <=> y < i
                  <4>1. \A j \in 1..N : g[j] = v => j = y
                        BY <2>2, <3>2 DEF Ranks
                  <4>2. \A j \in 1..(i - 1) : j \in 1..N
                        BY <2>2
                  <4>3. y < i <=> y \in 1..(i - 1)
                        BY <2>2
                  <4> QED BY <3>2, <4>1, <4>2, <4>3 DEF Prefix
            <3>5. CASE v = w
                  <4>1. x = shotPos + 1
                        <5>1. \A j, k \in 1..N : j # k => f[j] # f[k]
                              BY <2>2 DEF Ranks
                        <5> QED BY <2>4, <3>1, <3>5, <5>1
                  <4>2. y = i
                        <5>1. \A j, k \in 1..N : j # k => g[j] # g[k]
                              BY <2>2 DEF Ranks
                        <5> QED BY <2>5, <3>2, <3>5, <5>1
                  <4> QED BY <2>2, <3>3, <3>4, <4>1, <4>2
            <3>6. CASE v # w
                  <4>1. Touches(ws[v], l)
                        <5>1. \E e \in picked[v] : l \in e
                              BY <2>7, SyndromeMeets
                        <5>2. PICK e \in picked[v] : l \in e
                              BY <5>1
                        <5>3. Own(ws[v], T, e)
                              BY <2>1, <3>2, <5>2 DEF PickedInv, At
                        <5> QED BY <5>2, <5>3 DEF Own, Boundary
                  <4>2. \/ Sooner(ws, plan.ready, v, w) /\ Phased(ws, v, w)
                        \/ Sooner(ws, plan.ready, w, v) /\ Phased(ws, w, v)
                        BY <2>2, <2>4, <2>7, <3>6, <4>1 DEF SameOrder
                  <4>3. /\ ws[v].phase \in Nat /\ ws[w].phase \in Nat /\ v \in Nat /\ w \in Nat
                        /\ plan.ready[v] \in Nat /\ plan.ready[w] \in Nat
                        /\ ws[v].commit[1] \in Nat /\ ws[w].commit[1] \in Nat
                        <5>1. \A z \in 1..N : /\ ws[z].phase \in Nat /\ plan.ready[z] \in Nat /\ ws[z].commit[1] \in Nat
                                            /\ z \in Nat
                              BY <2>2
                        <5>2. v \in 1..N /\ w \in 1..N
                              BY <2>4
                        <5> HIDE DEF ws, w, N
                        <5> QED BY <5>1, <5>2
                  <4>4. /\ ~(Phased(ws, v, w) /\ Phased(ws, w, v))
                        /\ ~(Sooner(ws, plan.ready, v, w) /\ Sooner(ws, plan.ready, w, v))
                        <5> HIDE DEF ws, w
                        <5> QED BY <4>3, OneWay
                  <4>5. /\ x < shotPos + 1 => Phased(ws, v, w)
                        /\ shotPos + 1 < x => Phased(ws, w, v)
                        BY <2>2, <2>4, <3>1 DEF Ranks, InPhases
                  <4>6. /\ y < i => Sooner(ws, plan.ready, v, w)
                        /\ i < y => Sooner(ws, plan.ready, w, v)
                        BY <2>2, <2>5, <3>2 DEF Ranks, OnStream
                  <4>7. x # shotPos + 1 /\ y # i
                        BY <2>5, <3>1, <3>2, <3>6
                  <4>8. (x < shotPos + 1 \/ shotPos + 1 < x) /\ (y < i \/ i < y)
                        BY <2>1, <2>2, <4>7
                  <4> QED BY <3>3, <3>4, <4>2, <4>4, <4>5, <4>6, <4>8
            <3> QED BY <3>5, <3>6
      <2>8. ASSUME NEW l \in Nat, Reads(ws[w], l)
            PROVE  Flipped(Prefix(f, shotPos), picked, T, l) <=> Flipped(Prefix(g, i - 1), picked, T, l)
            <3>1. Prefix(f, shotPos) \in SUBSET (1..N)
                  <4>2. \A j \in 1..N : f[j] \in 1..N
                        BY <2>2 DEF Ranks
                  <4>3. \A j \in 1..shotPos : j \in 1..N
                        BY <2>1, <2>2
                  <4>1. \A j \in 1..shotPos : f[j] \in 1..N
                        BY <4>2, <4>3
                  <4> QED BY <4>1 DEF Prefix
            <3>2. Prefix(g, i - 1) \in SUBSET (1..N)
                  <4>2. \A j \in 1..N : g[j] \in 1..N
                        BY <2>2 DEF Ranks
                  <4>3. \A j \in 1..(i - 1) : j \in 1..N
                        BY <2>2
                  <4>1. \A j \in 1..(i - 1) : g[j] \in 1..N
                        BY <4>2, <4>3
                  <4> QED BY <4>1 DEF Prefix
            <3>3. {v \in Prefix(f, shotPos) : l \in Syndrome(picked[v], 0 .. T - 1)}
                     = {v \in Prefix(g, i - 1) : l \in Syndrome(picked[v], 0 .. T - 1)}
                  BY <2>7, <2>8, <3>1, <3>2
            <3> QED BY <3>3 DEF Flipped
      <2>9. ASSUME NEW l \in Nat, Reads(ws[w], l) PROVE l \in shotLive <=> l \in seen[w]
            <3>1. l \in 0 .. T - 1
                  BY <2>2, <2>6, <2>9 DEF Reads
            <3>2. (l \in shotLive) <=> ((l \in shot) <=> ~Flipped(Prefix(f, shotPos), picked, T, l))
                  BY <2>1, <3>1 DEF ShotInv, f
            <3>3. (l \in seen[w]) <=> ((l \in shot) <=> ~Flipped(Prefix(g, i - 1), picked, T, l))
                  BY <2>1, <2>3, <2>5, <2>6, <2>9 DEF SeenInv
            <3> QED BY <2>8, <2>9, <3>2, <3>3
      <2>10. seen[w] \in SUBSET {l \in Nat : Reads(ws[w], l)}
             BY <2>1, <2>3, <2>5, <2>6 DEF SeenInv
      <2>11. \A l : l \in Layers(w) <=> (l \in Nat /\ Reads(ws[w], l))
             <3>1. At(plan, i) = W[w]
                   BY <2>6 DEF W
             <3> HIDE DEF w
             <3> QED BY <2>6, <3>1, LayersRead
      <2>12. shotLive \cap Layers(w) = seen[w]
             BY <2>9, <2>10, <2>11
      <2> QED BY <2>2, <2>12
<1> QED BY <1>1, StreamInvariant, PTL
======================================================================

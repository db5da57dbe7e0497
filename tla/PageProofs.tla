------------------------------ MODULE PageProofs -----------------------------
(***************************************************************************)
(* For any distances, decoders, rounds and noise: a verdict on show is that   *)
(* of the selected decoder on the errors that are there, the opener draws the  *)
(* errors and checks of its patch, and each mark shows where it should.  For   *)
(* any sections, heights and qubits: the page says what it started, its rail   *)
(* marks the section being read, and its plaquette tells a parity.           *)
(***************************************************************************)
EXTENDS LatticeFigures, PageShell, FiniteSetTheorems, SequenceTheorems, WellFoundedInduction, TLAPS

-----------------------------------------------------------------------------
(* The figures that decode, and their patches as the record they are.        *)
Decoding == lattice \in {"decode", "spacetime"}
Whole(s) ==
    s = [d |-> s.d, code |-> s.code, rounds |-> s.rounds, errors |-> s.errors, lies |-> s.lies,
         erased |-> s.erased, correction |-> s.correction]

(* Only a figure that decodes has a verdict, and only after the reader came,  *)
(* so that no heartbeat's act begins under it.                              *)
Inv ==
    /\ Decoding => Whole(session)
    /\ verdict # "idle" => Decoding /\ theirs = TRUE
    /\ VerdictIsCurrent

-----------------------------------------------------------------------------
(* What the patch's operations return.                                      *)
LEMMA NewIsWhole ==
    ASSUME NEW d, NEW code, NEW rounds
    PROVE  Whole(NewSession(d, code, rounds))
BY DEF Whole, NewSession

LEMMA FieldReplaced ==
    ASSUME NEW s, Whole(s), NEW x
    PROVE  /\ Whole([s EXCEPT !.errors = x]) /\ Whole([s EXCEPT !.lies = x])
           /\ Whole([s EXCEPT !.correction = x]) /\ [s EXCEPT !.correction = x].correction = x
           /\ Marks([s EXCEPT !.correction = x]) = Marks(s)
<1> DEFINE r(errors, lies, correction) ==
          [d |-> s.d, code |-> s.code, rounds |-> s.rounds, errors |-> errors, lies |-> lies, erased |-> s.erased,
           correction |-> correction]
<1>1. s = r(s.errors, s.lies, s.correction)
      BY DEF Whole
<1>2. [s EXCEPT !.errors = x] = r(x, s.lies, s.correction)
      BY <1>1
<1>3. [s EXCEPT !.lies = x] = r(s.errors, x, s.correction)
      BY <1>1
<1>4. [s EXCEPT !.correction = x] = r(s.errors, s.lies, x)
      BY <1>1
<1>5. \A errors, lies, correction : Whole(r(errors, lies, correction))
      BY DEF Whole
<1>6. Marks(r(s.errors, s.lies, x)) = Marks(s)
      BY DEF Marks
<1> QED BY <1>2, <1>3, <1>4, <1>5, <1>6

LEMMA EditsAreWhole ==
    ASSUME NEW s, Whole(s)
    PROVE  /\ \A e : Whole(ToggleError(s, e))
           /\ \A x : Whole(ToggleLie(s, x))
           /\ \A by : Whole(Decode(s, by)) /\ Decode(s, by).correction = <<Marks(Decode(s, by)), by>>
           /\ Whole(ClearErrors(s))
           /\ \A E : Whole(WithErrors(s, E))
<1>1. ASSUME NEW e PROVE Whole(ToggleError(s, e))
      <2>1. ToggleError(s, e) = [s EXCEPT !.errors = Toggled(s.errors, e), !.correction = <<>>]
            BY DEF ToggleError
      <2>2. Whole([[s EXCEPT !.errors = Toggled(s.errors, e)] EXCEPT !.correction = <<>>])
            BY FieldReplaced
      <2> QED BY <2>1, <2>2
<1>2. ASSUME NEW x PROVE Whole(ToggleLie(s, x))
      <2>1. ToggleLie(s, x) = [s EXCEPT !.lies = Toggled(s.lies, x), !.correction = <<>>]
            BY DEF ToggleLie
      <2>2. Whole([[s EXCEPT !.lies = Toggled(s.lies, x)] EXCEPT !.correction = <<>>])
            BY FieldReplaced
      <2> QED BY <2>1, <2>2
<1>3. ASSUME NEW by PROVE Whole(Decode(s, by)) /\ Decode(s, by).correction = <<Marks(Decode(s, by)), by>>
      BY FieldReplaced DEF Decode
<1>4. Whole(ClearErrors(s))
      BY NewIsWhole DEF ClearErrors
<1>5. ASSUME NEW E PROVE Whole(WithErrors(s, E))
      BY <1>4, FieldReplaced DEF WithErrors
<1> QED BY <1>1, <1>2, <1>3, <1>4, <1>5

(* A step after which nothing is decided, and one that is another figure's.  *)
LEMMA Idling ==
    ASSUME verdict' = "idle", Decoding' => Whole(session')
    PROVE  Inv'
BY DEF Inv, VerdictIsCurrent

LEMMA Elsewhere ==
    ASSUME Inv, ~Decoding, lattice' = lattice, verdict' = verdict
    PROVE  Inv'
<1>1. ~Decoding' /\ verdict' = "idle"
      BY DEF Inv, Decoding
<1> QED BY <1>1, Idling

-----------------------------------------------------------------------------
LEMMA RunsInv ==
    ASSUME Inv, Decoding, NEW by, RunsDecoder(by), decoder' = by, lattice' = lattice, theirs' = TRUE
    PROVE  Inv'
<1>1. Whole(session) /\ Decoding'
      BY DEF Inv, Decoding
<1>2. CASE Nothing(session)
      BY <1>1, <1>2, Idling DEF RunsDecoder
<1>3. CASE ~Nothing(session)
      <2>1. session' = Decode(session, by) /\ decoded' = TRUE
            BY <1>3 DEF RunsDecoder
      <2>2. Whole(session') /\ session'.correction = <<Marks(session'), by>>
            BY <1>1, <2>1, EditsAreWhole
      <2>3. VerdictIsCurrent'
            BY <2>1, <2>2 DEF VerdictIsCurrent, Marks
      <2> QED BY <1>1, <2>2, <2>3 DEF Inv
<1> QED BY <1>2, <1>3

LEMMA SelectDecoderInv ==
    ASSUME Inv, SelectDecoder
    PROVE  Inv'
<1>1. Decoding /\ lattice' = lattice /\ theirs' = TRUE /\ swept' = swept
      BY DEF SelectDecoder, Touch, Decoding
<1>2. CASE decoded
      BY <1>1, <1>2, RunsInv DEF SelectDecoder
<1>3. CASE ~decoded
      <2>1. UNCHANGED <<session, decoded, verdict>>
            BY <1>3 DEF SelectDecoder
      <2>2. verdict = "idle" \/ swept
            BY <1>3 DEF Inv, VerdictIsCurrent
      <2> QED BY <1>1, <2>1, <2>2 DEF Inv, Decoding, VerdictIsCurrent
<1> QED BY <1>2, <1>3

(* The reader's edits of the patch, after which nothing is decided.          *)
LEMMA EditInv ==
    ASSUME Inv, PickQubit \/ PickCheck \/ Clear \/ LongChain \/ Scatter \/ Rebuild
    PROVE  Inv'
<1>1. verdict' = "idle" /\ lattice' = lattice
      BY DEF PickQubit, PickCheck, Clear, LongChain, Scatter, Rebuild, Undecided, Touch
<1>2. ASSUME Decoding PROVE Whole(session')
      <2>1. Whole(session)
            BY <1>2 DEF Inv
      <2>2. CASE PickQubit
            BY <2>1, <2>2, EditsAreWhole DEF PickQubit
      <2>3. CASE PickCheck
            BY <2>1, <2>3, EditsAreWhole DEF PickCheck
      <2>4. CASE Clear
            BY <2>1, <2>4, EditsAreWhole DEF Clear
      <2>5. CASE LongChain
            BY <2>1, <2>5, EditsAreWhole DEF LongChain, GrowChain
      <2>6. CASE Scatter
            BY <2>1, <2>6, EditsAreWhole DEF Scatter
      <2>7. CASE Rebuild
            BY <2>7, NewIsWhole DEF Rebuild
      <2> QED BY <2>2, <2>3, <2>4, <2>5, <2>6, <2>7
<1> QED BY <1>1, <1>2, Idling DEF Decoding

(* A heartbeat's act.  It begins only before the reader comes, when there is  *)
(* no verdict, and it says so if it goes on after.                          *)
LEMMA BeatInv ==
    ASSUME Inv, BeatBegins \/ BeatGoesOn
    PROVE  Inv'
<1>1. lattice' = lattice /\ theirs' = theirs /\ UNCHANGED reader
      BY DEF BeatBegins, BeatGoesOn
<1>2. ASSUME Decoding PROVE Whole(session')
      <2>1. Whole(session)
            BY <1>2 DEF Inv
      <2> QED BY <2>1, EditsAreWhole DEF BeatBegins, BeatGoesOn
<1>3. CASE verdict = "idle"
      BY <1>1, <1>2, <1>3, Idling DEF reader, Decoding
<1>4. CASE verdict # "idle"
      <2>1. theirs = TRUE /\ Decoding
            BY <1>4 DEF Inv
      <2>2. swept'
            BY <2>1 DEF BeatBegins, BeatGoesOn
      <2> QED BY <1>1, <1>2, <2>1, <2>2 DEF Inv, Decoding, VerdictIsCurrent
<1> QED BY <1>3, <1>4

LEMMA NextInv ==
    ASSUME Inv, [LatticeNext]_latticeVars
    PROVE  Inv'
<1>1. CASE UNCHANGED latticeVars
      BY <1>1 DEF latticeVars, Inv, Decoding, Whole, VerdictIsCurrent, Marks
<1>2. CASE Run
      BY <1>2, RunsInv DEF Run, Decoding, Touch
<1>3. CASE PickSyndrome \/ Chain \/ Hover \/ Tick \/ Turn \/ Resize
      BY <1>3, Elsewhere
         DEF PickSyndrome, Chain, Hover, Tick, Turn, Resize, Decoding, Touch, reader, heart, opener
<1>4. CASE Faded
      BY <1>4 DEF Faded, reader, heart, Inv, Decoding, Whole, VerdictIsCurrent, Marks
<1> QED BY <1>1, <1>2, <1>3, <1>4, SelectDecoderInv, EditInv, BeatInv DEF LatticeNext

LEMMA InitInv ==
    ASSUME LatticeInit
    PROVE  Inv
BY NewIsWhole DEF LatticeInit, Inv, VerdictIsCurrent

(* Whatever is clicked, selected, rebuilt or played in between, a verdict on  *)
(* show is that of the selected decoder on the present errors, unless an act  *)
(* of the heartbeat went on (decode.js, spacetime.js).                      *)
THEOREM VerdictsAreCurrent == LatticeSpec => []VerdictIsCurrent
<1>1. LatticeInit => Inv
      BY InitInv
<1>2. Inv /\ [LatticeNext]_latticeVars => Inv'
      BY NextInv
<1>3. Inv => VerdictIsCurrent
      BY DEF Inv
<1> QED BY <1>1, <1>2, <1>3, PTL DEF LatticeSpec

-----------------------------------------------------------------------------
(***************************************************************************)
(* The opener.  What it draws is a sequence of hits, and an error is on the  *)
(* patch if an odd number of them brought it.                               *)
(***************************************************************************)
Drawable(s)  == Reachable(DataQubits(s.d)) \X Noise
Bringing(p, e) == {i \in DOMAIN p : e \in ErrorsOf(p[i])}
Agree(s, p)  == s.errors = {e \in Hits(s) : Odd(Bringing(p, e))}

(* A patch that was only ever hit by noise, and what is drawn of it.         *)
Plain(s) == Whole(s) /\ s.lies = {}
InStep(s, p) == Plain(s) /\ p \in Seq(Drawable(s)) /\ Agree(s, p)
Size(s) == <<s.d, s.code, s.rounds>>

OpenerInv ==
    lattice = "opener" =>
        /\ InStep(session, pending)
        /\ lit = {x[1] : x \in DetectionEvents(session)}
        /\ drawn \in {Absent, session.d}
        /\ beat = "rest"

LEMMA OddWithOneMore ==
    ASSUME NEW S, IsFiniteSet(S), NEW x, x \notin S
    PROVE  Odd(S \cup {x}) <=> ~Odd(S)
<1>1. Cardinality(S) \in Nat
      BY FS_CardinalityType
<1>2. Cardinality(S \cup {x}) = Cardinality(S) + 1
      BY FS_AddElement
<1>3. \A n \in Nat : (n + 1) % 2 = 1 <=> ~(n % 2 = 1)
      OBVIOUS
<1> QED BY <1>1, <1>2, <1>3 DEF Odd

LEMMA EmptyIsEven == ~Odd({})
<1>1. Cardinality({}) = 0
      BY FS_EmptySet
<1> QED BY <1>1 DEF Odd

(* A patch that nothing happened to.                                        *)
LEMMA NewIsQuiet ==
    ASSUME NEW d, NEW code, NEW rounds
    PROVE  /\ InStep(NewSession(d, code, rounds), <<>>)
           /\ DetectionEvents(NewSession(d, code, rounds)) = {}
<1> DEFINE s == NewSession(d, code, rounds)
<1>1. Whole(s) /\ s.errors = {} /\ s.lies = {}
      BY NewIsWhole DEF NewSession
<1> HIDE DEF s
<1>2. \A e : Bringing(<<>>, e) = {}
      BY DEF Bringing
<1>3. InStep(s, <<>>)
      <2>1. \A e : ~Odd(Bringing(<<>>, e))
            BY <1>2, EmptyIsEven
      <2>2. Agree(s, <<>>)
            BY <1>1, <2>1 DEF Agree
      <2>3. <<>> \in Seq(Drawable(s))
            BY EmptySeq
      <2> QED BY <1>1, <2>2, <2>3 DEF InStep, Plain
<1>4. ASSUME NEW c, NEW t PROVE Fires(s, c, t) = FALSE
      <2> DEFINE seen == {e \in s.errors : e.t <= t /\ Touches(c, e.q) /\ e.type = Sees(s, c, e.q)}
      <2>1. seen = {}
            BY <1>1
      <2>2. Odd(seen) = FALSE
            BY <2>1, EmptyIsEven
      <2>3. (<<c, t>> \in s.lies) = FALSE
            BY <1>1
      <2>4. Fires(s, c, t) = (Odd(seen) # (<<c, t>> \in s.lies))
            BY DEF Fires
      <2> HIDE DEF seen
      <2> QED BY <2>2, <2>3, <2>4
<1>5. DetectionEvents(s) = {}
      <2>1. \A x : (Fires(s, x[1], x[2]) # (x[2] > 0 /\ Fires(s, x[1], x[2] - 1))) = FALSE
            <3> TAKE x
            <3>1. Fires(s, x[1], x[2]) = FALSE /\ (x[2] > 0 /\ Fires(s, x[1], x[2] - 1)) = FALSE
                  BY <1>4
            <3> QED BY <3>1
      <2> QED BY <2>1, Zenon DEF DetectionEvents
<1> QED BY <1>3, <1>5 DEF s

(* The kinds of errors that a hit brings are the ones that may be drawn.     *)
LEMMA HitsBring ==
    ASSUME NEW s, NEW hit \in Drawable(s)
    PROVE  ErrorsOf(hit) \subseteq Hits(s)
<1>1. hit[1] \in Reachable(DataQubits(s.d)) /\ hit[2] \in {"X", "Y", "Z"}
      BY NoiseAssumption DEF Drawable
<1> QED BY <1>1 DEF ErrorsOf, Hits

LEMMA HitInStep ==
    ASSUME NEW s, NEW p, InStep(s, p), NEW hit \in Drawable(s)
    PROVE  InStep(HitBy(s, hit), Append(p, hit)) /\ Size(HitBy(s, hit)) = Size(s)
<1> DEFINE E == (s.errors \ ErrorsOf(hit)) \cup (ErrorsOf(hit) \ s.errors)
           h == HitBy(s, hit)
           q == Append(p, hit)
<1>1. Plain(h) /\ Size(h) = Size(s) /\ h.d = s.d /\ h.errors = E
      <2>1. s = [d |-> s.d, code |-> s.code, rounds |-> s.rounds, errors |-> s.errors, lies |-> s.lies,
                 erased |-> s.erased, correction |-> s.correction]
            BY DEF InStep, Plain, Whole
      <2>2. h = [d |-> s.d, code |-> s.code, rounds |-> s.rounds, errors |-> E, lies |-> s.lies,
                 erased |-> s.erased, correction |-> <<>>]
            <3>1. h = [[s EXCEPT !.errors = E] EXCEPT !.correction = <<>>]
                  BY DEF HitBy
            <3> HIDE DEF E, h
            <3>2. [s EXCEPT !.errors = E] =
                    [d |-> s.d, code |-> s.code, rounds |-> s.rounds, errors |-> E, lies |-> s.lies,
                     erased |-> s.erased, correction |-> s.correction]
                  BY <2>1
            <3> QED BY <3>1, <3>2
      <2> HIDE DEF E, h
      <2>3. Size(h) = Size(s) /\ h.d = s.d /\ h.errors = E /\ h.lies = s.lies
            BY <2>2 DEF Size
      <2>4. Whole(h)
            BY <2>2 DEF Whole
      <2> QED BY <2>3, <2>4 DEF InStep, Plain
<1>2. p \in Seq(Drawable(s)) /\ q \in Seq(Drawable(s)) /\ Hits(h) = Hits(s) /\ Drawable(h) = Drawable(s)
      BY <1>1 DEF InStep, Drawable, Hits
<1>3. ASSUME NEW e \in Hits(s) PROVE e \in E <=> Odd(Bringing(q, e))
      <2>1. e \in s.errors <=> Odd(Bringing(p, e))
            BY DEF InStep, Agree
      <2>2. Len(p) \in Nat /\ DOMAIN p = 1..Len(p) /\ DOMAIN q = 1..(Len(p) + 1)
            BY <1>2, LenProperties
      <2>3. \A i \in DOMAIN p : q[i] = p[i]
            BY <1>2
      <2>4. q[Len(p) + 1] = hit
            BY <1>2
      <2>5. IsFiniteSet(Bringing(p, e)) /\ Len(p) + 1 \notin Bringing(p, e)
            <3>1. IsFiniteSet(1..Len(p))
                  BY <2>2, FS_Interval
            <3>2. Bringing(p, e) \subseteq 1..Len(p)
                  BY <2>2 DEF Bringing
            <3> QED BY <2>2, <3>1, <3>2, FS_Subset
      <2> HIDE DEF q
      <2>6. CASE e \in ErrorsOf(hit)
            <3>1. Bringing(q, e) = Bringing(p, e) \cup {Len(p) + 1}
                  BY <2>2, <2>3, <2>4, <2>6 DEF Bringing
            <3> QED BY <2>1, <2>5, <2>6, <3>1, OddWithOneMore
      <2>7. CASE e \notin ErrorsOf(hit)
            <3>1. Bringing(q, e) = Bringing(p, e)
                  BY <2>2, <2>3, <2>4, <2>7 DEF Bringing
            <3> QED BY <2>1, <2>7, <3>1
      <2> QED BY <2>6, <2>7
<1>4. E \subseteq Hits(s)
      BY HitsBring DEF InStep, Agree
<1> HIDE DEF E
<1>5. Agree(h, q)
      BY <1>1, <1>2, <1>3, <1>4 DEF Agree
<1> QED BY <1>1, <1>2, <1>5 DEF InStep

(* What the hits of a tick do, one after the other.                         *)
From(s, p) == [session |-> s, pending |-> p]
Follows(o, s, p) ==
    /\ o = From(o.session, o.pending) /\ InStep(o.session, o.pending) /\ Size(o.session) = Size(s)
    /\ o = From(s, p) \/ o.pending # p

LEMMA InjectFollows ==
    ASSUME NEW s, NEW p \in Seq(Drawable(s)), NEW o, Follows(o, s, p), Len(p) <= Len(o.pending), NEW hit \in Drawable(s)
    PROVE  Follows(Inject(o, hit), s, p) /\ Len(p) <= Len(Inject(o, hit).pending)
<1>1. Drawable(o.session) = Drawable(s)
      BY DEF Follows, Drawable, Size
<1>2. CASE Len(o.pending) >= MaxPending
      BY <1>2 DEF Inject
<1>3. CASE ~(Len(o.pending) >= MaxPending)
      <2> DEFINE h == HitBy(o.session, hit)
                 q == Append(o.pending, hit)
      <2>1. InStep(h, q) /\ Size(h) = Size(s)
            BY <1>1, HitInStep DEF Follows
      <2>2. Inject(o, hit) = From(h, q)
            BY <1>3 DEF Inject, From
      <2>3. Inject(o, hit).session = h /\ Inject(o, hit).pending = q
            BY <2>2 DEF From
      <2>4. o.pending \in Seq(Drawable(s))
            BY <1>1 DEF Follows, InStep
      <2>5. Len(q) = Len(o.pending) + 1 /\ Len(o.pending) \in Nat /\ Len(p) \in Nat
            BY <2>4
      <2>6. Len(p) <= Len(q) /\ q # p
            <3> HIDE DEF q
            <3> QED BY <2>5
      <2> HIDE DEF h, q
      <2> QED BY <2>1, <2>2, <2>3, <2>6 DEF Follows
<1> QED BY <1>2, <1>3

(* The fold takes the last hit last.                                        *)
Latest(s) == CHOOSE x \in s : \A y \in s : x >= y
Folds(h, b, q) ==
    h = [s \in SUBSET DOMAIN q |-> IF s = {} THEN b ELSE Inject(h[s \ {Latest(s)}], q[Latest(s)])]

LEMMA LastOf ==
    ASSUME NEW n \in Nat, n > 0
    PROVE  Latest(1..n) = n /\ (1..n) \ {Latest(1..n)} = 1..(n - 1)
<1>1. n \in 1..n /\ \A y \in 1..n : n >= y
      OBVIOUS
<1>2. Latest(1..n) \in 1..n /\ Latest(1..n) >= n
      BY <1>1 DEF Latest
<1> QED BY <1>2

(* Two hits at most, so that the fold can be written out.                    *)
LEMMA SomeFolds ==
    ASSUME NEW b, NEW q, NEW n \in 0..2, DOMAIN q = 1..n
    PROVE  \E h : Folds(h, b, q)
<1> DEFINE step(o, s) == Inject(o, q[Latest(s)])
           below(s) == s \ {Latest(s)}
           once(s) == IF s = {} THEN b ELSE step(b, s)
           h == [s \in SUBSET DOMAIN q |-> IF s = {} THEN b ELSE step(once(below(s)), s)]
<1>1. ASSUME NEW s \in SUBSET DOMAIN q, s # {} PROVE h[below(s)] = once(below(s))
      <2>1. below(s) \in SUBSET DOMAIN q /\ (below(s) # {} => below(below(s)) = {})
            <3>1. DOMAIN q \subseteq {1, 2}
                  OBVIOUS
            <3>2. \A r \in SUBSET DOMAIN q : r # {} => Latest(r) \in r
                  BY <3>1 DEF Latest
            <3>3. s \subseteq {1, 2}
                  BY <3>1
            <3>4. Latest(s) \in s
                  BY <1>1, <3>2
            <3>5. below(s) # {} => Latest(below(s)) \in below(s)
                  BY <3>2
            <3> QED BY <3>3, <3>4, <3>5
      <2>2. h[below(s)] = IF below(s) = {} THEN b ELSE step(once(below(below(s))), below(s))
            BY <2>1
      <2> HIDE DEF below, h
      <2>3. CASE below(s) = {}
            BY <2>2, <2>3
      <2>4. CASE below(s) # {}
            <3>1. once(below(below(s))) = b
                  BY <2>1, <2>4
            <3> QED BY <2>2, <2>4, <3>1
      <2> QED BY <2>3, <2>4
<1>2. h = [s \in SUBSET DOMAIN q |-> IF s = {} THEN b ELSE Inject(h[s \ {Latest(s)}], q[Latest(s)])]
      <2> DEFINE k == [s \in SUBSET DOMAIN q |-> IF s = {} THEN b ELSE step(h[below(s)], s)]
      <2>1. ASSUME NEW s \in SUBSET DOMAIN q PROVE h[s] = k[s]
            <3>1. h[s] = IF s = {} THEN b ELSE step(once(below(s)), s)
                  OBVIOUS
            <3>2. k[s] = IF s = {} THEN b ELSE step(h[below(s)], s)
                  <4> HIDE DEF h
                  <4> QED OBVIOUS
            <3> HIDE DEF h, k, once, step, below
            <3> QED BY <1>1, <3>1, <3>2
      <2>2. h = k
            BY <2>1
      <2> HIDE DEF h
      <2> QED BY <2>2
<1> HIDE DEF h
<1> QED BY <1>2 DEF Folds

LEMMA HitsInStep ==
    ASSUME NEW s, NEW p, InStep(s, p), NEW n \in 0..2, NEW q \in [1..n -> Drawable(s)]
    PROVE  Follows(FoldLeft(Inject, From(s, p), q), s, p)
<1> DEFINE b == From(s, p)
           h == CHOOSE g : Folds(g, b, q)
           good(o) == Follows(o, s, p) /\ Len(p) <= Len(o.pending)
<1>1. Folds(h, b, q)
      BY SomeFolds
<1>2. FoldLeft(Inject, b, q) = h[DOMAIN q]
      BY DEF FoldLeft, MapThenFoldSet, Folds, Max, Latest
<1> HIDE DEF h
<1>3. p \in Seq(Drawable(s)) /\ DOMAIN q = 1..n
      BY DEF InStep
<1>4. good(h[{}])
      <2>1. h[{}] = b
            BY <1>1 DEF Folds
      <2>2. b.session = s /\ b.pending = p /\ Len(p) <= Len(p)
            BY <1>3, LenProperties DEF From
      <2> QED BY <2>1, <2>2 DEF Follows, From
<1>5. ASSUME NEW m \in 1..n, good(h[1..(m - 1)]) PROVE good(h[1..m])
      <2>1. Latest(1..m) = m /\ (1..m) \ {Latest(1..m)} = 1..(m - 1) /\ 1..m # {} /\ 1..m \in SUBSET DOMAIN q
            BY <1>3, LastOf
      <2>2. h[1..m] = Inject(h[1..(m - 1)], q[m])
            <3>1. h[1..m] = Inject(h[(1..m) \ {Latest(1..m)}], q[Latest(1..m)])
                  BY <1>1, <2>1 DEF Folds
            <3> QED BY <2>1, <3>1
      <2>3. q[m] \in Drawable(s)
            OBVIOUS
      <2> QED BY <1>3, <1>5, <2>2, <2>3, InjectFollows
<1>6. good(h[1..n])
      <2> HIDE DEF good
      <2>1. 1..0 = {}
            OBVIOUS
      <2>2. CASE n = 0
            BY <1>4, <2>1, <2>2
      <2>3. CASE n = 1
            BY <1>4, <1>5, <2>1, <2>3
      <2>4. CASE n = 2
            <3>1. good(h[1..1])
                  BY <1>4, <1>5, <2>1, <2>4
            <3> QED BY <1>5, <2>4, <3>1
      <2> QED BY <2>2, <2>3, <2>4
<1> QED BY <1>2, <1>3, <1>6

-----------------------------------------------------------------------------
(* What the hits of a tick made of the patch, or a round after them.         *)
Ticked(o) ==
    \/ /\ session' = o.session /\ pending' = o.pending
       /\ lit' = IF o.pending # pending THEN {x[1] : x \in DetectionEvents(o.session)} ELSE lit
       /\ drawn' = drawn
    \/ session' = ClearErrors(o.session) /\ pending' = <<>> /\ lit' = {} /\ drawn' = session.d

LEMMA TickFollows ==
    ASSUME OpenerInv, Tick
    PROVE  \E o : Follows(o, session, pending) /\ Ticked(o)
<1>1. InStep(session, pending)
      BY DEF OpenerInv, Tick
<1>2. PICK q \in UNION {[1..n -> Drawable(session)] : n \in 0..2} :
          LET o     == FoldLeft(Inject, From(session, pending), <<>> \o q)
              fired == {x[1] : x \in DetectionEvents(o.session)}
          IN  \/ /\ session' = o.session /\ pending' = o.pending
                 /\ lit' = IF o.pending # pending THEN fired ELSE lit
                 /\ UNCHANGED drawn
              \/ /\ o.pending # <<>>
                 /\ session' = ClearErrors(o.session) /\ pending' = <<>> /\ lit' = {}
                 /\ drawn' = session.d
      BY DEF Tick, Drawable, From
<1>3. PICK n \in 0..2 : q \in [1..n -> Drawable(session)]
      OBVIOUS
<1>4. <<>> \o q = q
      <2>1. q \in Seq(Drawable(session))
            BY <1>3, SeqDef
      <2> QED BY <2>1
<1> DEFINE o == FoldLeft(Inject, From(session, pending), q)
<1>5. Follows(o, session, pending)
      BY <1>1, HitsInStep
<1>6. Ticked(o)
      BY <1>2, <1>4 DEF Ticked
<1> QED BY <1>5, <1>6

LEMMA TickOpener ==
    ASSUME OpenerInv, Tick
    PROVE  OpenerInv'
<1>1. lattice = "opener" /\ lattice' = lattice /\ beat' = beat /\ InStep(session, pending) /\ beat = "rest"
      BY DEF OpenerInv, Tick, heart
<1>2. PICK o : Follows(o, session, pending) /\ Ticked(o)
      BY TickFollows
<1>3. o.session.d = session.d
      BY <1>2 DEF Follows, Size
<1>4. CASE session' = ClearErrors(o.session) /\ pending' = <<>> /\ lit' = {} /\ drawn' = session.d
      <2>1. InStep(session', pending') /\ DetectionEvents(session') = {}
            BY <1>4, NewIsQuiet DEF ClearErrors
      <2>2. session'.d = session.d
            BY <1>3, <1>4 DEF ClearErrors, NewSession
      <2>3. lit' = {x[1] : x \in DetectionEvents(session')}
            BY <1>4, <2>1
      <2> QED BY <1>1, <1>4, <2>1, <2>2, <2>3 DEF OpenerInv, InStep
<1>5. CASE /\ session' = o.session /\ pending' = o.pending
           /\ lit' = IF o.pending # pending THEN {x[1] : x \in DetectionEvents(o.session)} ELSE lit
           /\ drawn' = drawn
      <2>1. InStep(session', pending') /\ session'.d = session.d
            BY <1>2, <1>3, <1>5 DEF Follows
      <2>2. lit' = {x[1] : x \in DetectionEvents(session')}
            <3>1. CASE o.pending # pending
                  BY <1>5, <3>1
            <3>2. CASE o.pending = pending
                  <4>1. o = From(session, pending)
                        BY <1>2, <3>2 DEF Follows
                  <4>2. session' = session
                        BY <1>5, <4>1 DEF From
                  <4>3. lit' = lit
                        BY <1>5, <3>2
                  <4>4. lit = {x[1] : x \in DetectionEvents(session)}
                        BY <1>1 DEF OpenerInv
                  <4> QED BY <4>2, <4>3, <4>4
            <3> QED BY <3>1, <3>2
      <2>3. drawn' \in {Absent, session'.d}
            BY <1>1, <1>5, <2>1 DEF OpenerInv
      <2> QED BY <1>1, <2>1, <2>2, <2>3 DEF OpenerInv, InStep
<1> QED BY <1>2, <1>4, <1>5 DEF Ticked

(* A patch that is new, and one that is as it was.                          *)
LEMMA NewOpener ==
    ASSUME NEW d, NEW code, NEW rounds,
           session' = NewSession(d, code, rounds), pending' = <<>>, lit' = {}, drawn' = Absent, beat' = "rest"
    PROVE  OpenerInv'
<1>1. InStep(session', pending') /\ DetectionEvents(session') = {}
      BY NewIsQuiet
<1>2. lit' = {x[1] : x \in DetectionEvents(session')}
      BY <1>1
<1> QED BY <1>1, <1>2 DEF OpenerInv, InStep

LEMMA SameOpener ==
    ASSUME OpenerInv, lattice' = lattice, lattice = "opener" => UNCHANGED <<session, pending, lit, beat>>,
           drawn' \in {Absent, drawn}
    PROVE  OpenerInv'
<1> SUFFICES ASSUME lattice = "opener"
             PROVE  OpenerInv'
    BY DEF OpenerInv
<1>1. session' = session /\ pending' = pending /\ lit' = lit /\ beat' = beat
      OBVIOUS
<1>2. InStep(session', pending') <=> InStep(session, pending)
      BY <1>1
<1>3. lit' = {x[1] : x \in DetectionEvents(session')}
      BY <1>1 DEF OpenerInv
<1> QED BY <1>1, <1>2, <1>3 DEF OpenerInv

LEMMA NextOpener ==
    ASSUME OpenerInv, [LatticeNext]_latticeVars
    PROVE  OpenerInv'
<1>1. CASE UNCHANGED latticeVars
      BY <1>1, SameOpener DEF latticeVars
<1>2. CASE PickQubit \/ PickCheck \/ Run \/ SelectDecoder \/ Clear \/ LongChain \/ Scatter \/ PickSyndrome \/ Chain
      <2>1. lattice' = lattice /\ lattice # "opener"
            BY <1>2 DEF PickQubit, PickCheck, Run, SelectDecoder, Clear, LongChain, Scatter, PickSyndrome, Chain, Touch
      <2> QED BY <2>1 DEF OpenerInv
<1>3. CASE Rebuild \/ Hover \/ BeatBegins
      <2>1. lattice' = lattice /\ lattice # "opener"
            BY <1>3 DEF Rebuild, Hover, BeatBegins
      <2> QED BY <2>1 DEF OpenerInv
<1>4. CASE BeatGoesOn
      <2>1. lattice' = lattice /\ lattice # "opener"
            BY <1>4 DEF BeatGoesOn, OpenerInv
      <2> QED BY <2>1 DEF OpenerInv
<1>5. CASE Faded \/ Turn
      BY <1>5, SameOpener DEF Faded, Turn, heart
<1>6. CASE Resize
      <2>1. beat' = "rest"
            BY <1>6 DEF Resize, heart, OpenerInv
      <2> QED BY <1>6, <2>1, NewOpener DEF Resize
<1> QED BY <1>1, <1>2, <1>3, <1>4, <1>5, <1>6, TickOpener DEF LatticeNext

LEMMA InitOpener ==
    ASSUME LatticeInit
    PROVE  OpenerInv
<1>1. PICK d, rounds : session = NewSession(d, "rotated", rounds)
      BY DEF LatticeInit
<1>2. pending = <<>> /\ lit = {} /\ drawn = Absent /\ beat = "rest"
      BY DEF LatticeInit
<1>3. InStep(session, pending) /\ DetectionEvents(session) = {}
      BY <1>1, <1>2, NewIsQuiet
<1>4. lit = {x[1] : x \in DetectionEvents(session)}
      BY <1>2, <1>3
<1> QED BY <1>2, <1>3, <1>4 DEF OpenerInv, InStep

(* Through full, resized and hidden patches, the opener draws the errors that *)
(* are on its patch, two on one qubit as their product, and the checks that   *)
(* they fire, and what fades is of the patch it is drawn on (opener.js).      *)
THEOREM OpenerDrawsItsPatch == LatticeSpec => []OpenerInStep
<1>1. LatticeInit => OpenerInv
      BY InitOpener
<1>2. OpenerInv /\ [LatticeNext]_latticeVars => OpenerInv'
      BY NextOpener
<1>3. OpenerInv => OpenerInStep
      BY DEF OpenerInv, OpenerInStep, InStep, Agree, Bringing
<1> QED BY <1>1, <1>2, <1>3, PTL DEF LatticeSpec

-----------------------------------------------------------------------------
(***************************************************************************)
(* What a click shows.  Two patches of one size are compared: where and when *)
(* a check reads otherwise on the second, and the events that this moves.    *)
(***************************************************************************)
Seen(s, c, t)     == {e \in s.errors : e.t <= t /\ Touches(c, e.q) /\ e.type = Sees(s, c, e.q)}
Flips(s, z, c, t) == Fires(s, c, t) # Fires(z, c, t)

LEMMA EventsBetween ==
    ASSUME NEW s, NEW z, s.d = z.d, s.rounds = z.rounds
    PROVE  Between(DetectionEvents(s), DetectionEvents(z)) =
               {x \in Checks(s.d) \X Rounds(s) : Flips(s, z, x[1], x[2]) # (x[2] > 0 /\ Flips(s, z, x[1], x[2] - 1))}
<1> DEFINE S == Checks(s.d) \X Rounds(s)
           at(r, x) == Fires(r, x[1], x[2]) # (x[2] > 0 /\ Fires(r, x[1], x[2] - 1))
           flips(x) == Flips(s, z, x[1], x[2]) # (x[2] > 0 /\ Flips(s, z, x[1], x[2] - 1))
<1>1. DetectionEvents(s) = {x \in S : at(s, x)} /\ DetectionEvents(z) = {x \in S : at(z, x)}
      BY DEF DetectionEvents, Rounds
<1>2. \A r, c, t : Fires(r, c, t) \in BOOLEAN
      BY DEF Fires
<1>3. ASSUME NEW x PROVE flips(x) <=> (at(s, x) # at(z, x))
      <2>1. /\ Fires(s, x[1], x[2]) \in BOOLEAN /\ Fires(z, x[1], x[2]) \in BOOLEAN
            /\ Fires(s, x[1], x[2] - 1) \in BOOLEAN /\ Fires(z, x[1], x[2] - 1) \in BOOLEAN
            BY <1>2
      <2>2. ASSUME NEW a \in BOOLEAN, NEW b \in BOOLEAN, NEW f \in BOOLEAN, NEW g \in BOOLEAN, NEW later \in BOOLEAN
            PROVE  ((a # b) # (later /\ (f # g))) <=> ((a # (later /\ f)) # (b # (later /\ g)))
            OBVIOUS
      <2>3. (x[2] > 0) \in BOOLEAN
            OBVIOUS
      <2> QED BY <2>1, <2>2, <2>3 DEF Flips
<1> HIDE DEF at, flips, S
<1>4. \A x : at(s, x) \in BOOLEAN /\ at(z, x) \in BOOLEAN
      BY DEF at
<1>5. Between(DetectionEvents(s), DetectionEvents(z)) = {x \in S : flips(x)}
      <2>1. ASSUME NEW x PROVE x \in Between(DetectionEvents(s), DetectionEvents(z)) <=> (x \in S /\ flips(x))
            <3>1. flips(x) <=> (at(s, x) # at(z, x))
                  BY <1>3
            <3>2. (at(s, x) # at(z, x)) <=> ((at(s, x) /\ ~at(z, x)) \/ (at(z, x) /\ ~at(s, x)))
                  BY <1>4
            <3>3. x \in DetectionEvents(s) <=> (x \in S /\ at(s, x))
                  BY <1>1
            <3>4. x \in DetectionEvents(z) <=> (x \in S /\ at(z, x))
                  BY <1>1
            <3> QED BY <3>1, <3>2, <3>3, <3>4, Zenon DEF Between
      <2> QED BY <2>1
<1> QED BY <1>5 DEF flips, S

LEMMA LieFlips ==
    ASSUME NEW s, NEW z, s.code = z.code, s.errors = z.errors, NEW c, NEW t
    PROVE  Flips(s, z, c, t) <=> <<c, t>> \in Between(s.lies, z.lies)
<1> DEFINE odd == Odd(Seen(s, c, t))
<1>1. Seen(s, c, t) = Seen(z, c, t)
      BY DEF Seen, Sees
<1>2. Fires(s, c, t) = (odd # (<<c, t>> \in s.lies))
      BY DEF Fires, Seen
<1>3. Fires(z, c, t) = (odd # (<<c, t>> \in z.lies))
      BY <1>1 DEF Fires, Seen
<1>4. odd \in BOOLEAN
      BY DEF Odd
<1> HIDE DEF odd
<1> QED BY <1>2, <1>3, <1>4 DEF Flips, Between

LEMMA ErrorFlips ==
    ASSUME NEW s, NEW z, s.code = z.code, s.lies = z.lies, IsFiniteSet(s.errors), IsFiniteSet(z.errors),
           NEW e, Between(s.errors, z.errors) = {e}, NEW c, NEW t
    PROVE  Flips(s, z, c, t) <=> (e.t <= t /\ Touches(c, e.q) /\ e.type = Sees(s, c, e.q))
<1> DEFINE seen(x) == x.t <= t /\ Touches(c, x.q) /\ x.type = Sees(s, c, x.q)
           S == Seen(s, c, t)
           Z == Seen(z, c, t)
<1>1. S = {x \in s.errors : seen(x)} /\ Z = {x \in z.errors : seen(x)}
      BY DEF Seen, Sees
<1>2. IsFiniteSet(S) /\ IsFiniteSet(Z)
      BY <1>1, FS_Subset
<1>3. \/ s.errors = z.errors \cup {e} /\ e \notin z.errors
      \/ z.errors = s.errors \cup {e} /\ e \notin s.errors
      BY DEF Between
<1>4. Flips(s, z, c, t) <=> (Odd(S) # Odd(Z))
      <2>1. Fires(s, c, t) = (Odd(S) # (<<c, t>> \in s.lies)) /\ Fires(z, c, t) = (Odd(Z) # (<<c, t>> \in s.lies))
            BY DEF Fires, Seen
      <2>2. Odd(S) \in BOOLEAN /\ Odd(Z) \in BOOLEAN
            BY DEF Odd
      <2> HIDE DEF S, Z
      <2> QED BY <2>1, <2>2 DEF Flips
<1> HIDE DEF S, Z, seen
<1>5. CASE ~seen(e)
      <2>1. S = Z
            BY <1>1, <1>3, <1>5
      <2> QED BY <1>4, <1>5, <2>1 DEF seen
<1>6. CASE seen(e)
      <2>1. (S = Z \cup {e} /\ e \notin Z) \/ (Z = S \cup {e} /\ e \notin S)
            BY <1>1, <1>3, <1>6
      <2>2. Odd(S) <=> ~Odd(Z)
            BY <1>2, <2>1, OddWithOneMore
      <2> QED BY <1>4, <1>6, <2>2 DEF seen
<1> QED BY <1>5, <1>6

-----------------------------------------------------------------------------
(* The geometry of a patch.                                                 *)
(* A check and a qubit by their halves: the check 2i, 2j and the qubit       *)
(* 2k - 1, 2l - 1.                                                         *)
CheckAt(i, j) == <<2 * i, 2 * j>>
QubitAt(k, l) == <<2 * k - 1, 2 * l - 1>>
Even(n)       == n % 2 = 0

LEMMA ZLikeAt ==
    ASSUME NEW i \in Int, NEW j \in Int
    PROVE  ZLike(CheckAt(i, j)) <=> Even(i + j)
<1>1. (2 * i + 2 * j) % 4 = 0 <=> (i + j) % 2 = 0
      <2>1. \A n \in Int : (2 * n) % 4 = 0 <=> n % 2 = 0
            OBVIOUS
      <2>2. 2 * i + 2 * j = 2 * (i + j) /\ i + j \in Int
            OBVIOUS
      <2> QED BY <2>1, <2>2
<1> QED BY <1>1 DEF ZLike, CheckAt, Even

InPatch(d, i, j) == IF Even(i + j) THEN i \in 1 .. d - 1 /\ j \in 0 .. d ELSE i \in 0 .. d /\ j \in 1 .. d - 1

LEMMA ChecksAre ==
    ASSUME NEW d \in Nat
    PROVE  /\ \A i, j \in 0 .. d : InPatch(d, i, j) => CheckAt(i, j) \in Checks(d)
           /\ \A c \in Checks(d) : \E i, j \in 0 .. d : c = CheckAt(i, j) /\ InPatch(d, i, j)
<1>1. ASSUME NEW i \in 0 .. d, NEW j \in 0 .. d, InPatch(d, i, j) PROVE CheckAt(i, j) \in Checks(d)
      <2>1. ZLike(CheckAt(i, j)) <=> Even(i + j)
            BY ZLikeAt
      <2>2. CASE Even(i + j)
            <3>1. i \in 1 .. d - 1 /\ j \in 0 .. d
                  BY <1>1, <2>2 DEF InPatch
            <3>2. CheckAt(i, j) \in Evens(1, d - 1) \X Evens(0, d)
                  BY <3>1 DEF CheckAt, Evens
            <3> QED BY <2>1, <2>2, <3>2 DEF Checks
      <2>3. CASE ~Even(i + j)
            <3>1. i \in 0 .. d /\ j \in 1 .. d - 1
                  BY <1>1, <2>3 DEF InPatch
            <3>2. CheckAt(i, j) \in Evens(0, d) \X Evens(1, d - 1)
                  BY <3>1 DEF CheckAt, Evens
            <3> QED BY <2>1, <2>3, <3>2 DEF Checks
      <2> QED BY <2>2, <2>3
<1>2. ASSUME NEW c \in Checks(d) PROVE \E i, j \in 0 .. d : c = CheckAt(i, j) /\ InPatch(d, i, j)
      <2>1. CASE ZLike(c)
            <3>1. c \in Evens(1, d - 1) \X Evens(0, d)
                  BY <2>1 DEF Checks
            <3>2. PICK i \in 1 .. d - 1, j \in 0 .. d : c[1] = 2 * i /\ c[2] = 2 * j
                  BY <3>1 DEF Evens
            <3>3. c = CheckAt(i, j)
                  BY <3>1, <3>2 DEF CheckAt
            <3>4. Even(i + j)
                  BY <2>1, <3>3, ZLikeAt
            <3>5. i \in 0 .. d /\ j \in 0 .. d
                  OBVIOUS
            <3> QED BY <3>3, <3>4, <3>5 DEF InPatch
      <2>2. CASE ~ZLike(c)
            <3>1. c \in Evens(0, d) \X Evens(1, d - 1)
                  BY <2>2 DEF Checks
            <3>2. PICK i \in 0 .. d, j \in 1 .. d - 1 : c[1] = 2 * i /\ c[2] = 2 * j
                  BY <3>1 DEF Evens
            <3>3. c = CheckAt(i, j)
                  BY <3>1, <3>2 DEF CheckAt
            <3>4. ~Even(i + j)
                  BY <2>2, <3>3, ZLikeAt
            <3>5. i \in 0 .. d /\ j \in 0 .. d
                  OBVIOUS
            <3> QED BY <3>3, <3>4, <3>5 DEF InPatch
      <2> QED BY <2>1, <2>2
<1> QED BY <1>1, <1>2

LEMMA QubitsAre ==
    ASSUME NEW d \in Nat
    PROVE  /\ \A k, l \in 1 .. d : QubitAt(k, l) \in DataQubits(d)
           /\ \A q \in DataQubits(d) : \E k, l \in 1 .. d : q = QubitAt(k, l)
           /\ \A k, l \in Int : QubitAt(k, l) \in DataQubits(d) => k \in 1 .. d /\ l \in 1 .. d
<1>1. \A k, l \in 1 .. d : QubitAt(k, l) \in DataQubits(d)
      BY DEF QubitAt, DataQubits
<1>2. ASSUME NEW q \in DataQubits(d) PROVE \E k, l \in 1 .. d : q = QubitAt(k, l)
      <2>1. PICK k \in 1 .. d, l \in 1 .. d : q[1] = 2 * k - 1 /\ q[2] = 2 * l - 1
            BY DEF DataQubits
      <2>2. q = QubitAt(k, l)
            BY <2>1 DEF DataQubits, QubitAt
      <2> QED BY <2>2
<1>3. ASSUME NEW k \in Int, NEW l \in Int, QubitAt(k, l) \in DataQubits(d) PROVE k \in 1 .. d /\ l \in 1 .. d
      <2>1. PICK m \in 1 .. d, n \in 1 .. d : 2 * k - 1 = 2 * m - 1 /\ 2 * l - 1 = 2 * n - 1
            BY <1>3 DEF DataQubits, QubitAt
      <2> QED BY <2>1
<1> QED BY <1>1, <1>2, <1>3

LEMMA TouchesAt ==
    ASSUME NEW i \in Int, NEW j \in Int, NEW k \in Int, NEW l \in Int
    PROVE  /\ Touches(CheckAt(i, j), QubitAt(k, l)) <=> i \in {k - 1, k} /\ j \in {l - 1, l}
           /\ (CheckAt(i, j)[1] - QubitAt(k, l)[1] = CheckAt(i, j)[2] - QubitAt(k, l)[2]) <=> (i - k = j - l)
BY DEF Touches, CheckAt, QubitAt

LEMMA EvenOrOdd ==
    ASSUME NEW n \in Int
    PROVE  /\ Even(n) <=> ~Even(n - 1)
           /\ Even(n) <=> ~Even(n + 1)
           /\ Even(n) <=> Even(n - 2)
BY DEF Even

(* Each kind of error on a qubit is seen by a check that touches it.        *)
LEMMA SomeCheckSees ==
    ASSUME NEW s, s.d \in Nat \ {0, 1}, s.code \in {"rotated", "xzzx"}, NEW q \in DataQubits(s.d), NEW type \in {"X", "Z"}
    PROVE  \E c \in Checks(s.d) : Touches(c, q) /\ type = Sees(s, c, q)
<1> DEFINE d == s.d
<1>1. PICK k \in 1 .. d, l \in 1 .. d : q = QubitAt(k, l)
      BY QubitsAre
<1> DEFINE near(x) == IF x < d THEN x ELSE x - 1
<1>2. ASSUME NEW x \in 1 .. d PROVE near(x) \in 1 .. d - 1 /\ near(x) \in {x - 1, x}
      OBVIOUS
<1>3. ASSUME NEW i \in 0 .. d, NEW j \in 0 .. d, InPatch(d, i, j), i \in {k - 1, k}, j \in {l - 1, l},
             s.code = "rotated" => (Even(i + j) <=> type = "X"),
             s.code = "xzzx" => (i - k = j - l <=> type = "Z")
      PROVE  \E c \in Checks(s.d) : Touches(c, q) /\ type = Sees(s, c, q)
      <2> DEFINE c == CheckAt(i, j)
      <2>1. c \in Checks(d) /\ (ZLike(c) <=> Even(i + j))
            <3>1. d \in Nat /\ i \in Int /\ j \in Int
                  BY <1>3
            <3> HIDE DEF d
            <3> QED BY <1>3, <3>1, ChecksAre, ZLikeAt
      <2>2. Touches(c, q) /\ ((c[1] - q[1] = c[2] - q[2]) <=> (i - k = j - l))
            BY <1>1, <1>3, TouchesAt
      <2> HIDE DEF c
      <2>3. type = Sees(s, c, q)
            BY <1>3, <2>1, <2>2 DEF Sees
      <2> QED BY <2>1, <2>2, <2>3
<1> DEFINE i == near(k)
           j == near(l)
<1>4. i \in 1 .. d - 1 /\ i \in {k - 1, k} /\ j \in 1 .. d - 1 /\ j \in {l - 1, l}
      BY <1>2
<1> HIDE DEF i, j, near, d
<1>5. d \in Nat
      BY DEF d
<1>6. CASE s.code = "rotated" /\ type = "X"
      <2>1. PICK n \in {l - 1, l} : Even(i + n)
            <3>1. Even(i + l) <=> ~Even(i + (l - 1))
                  BY <1>4, <1>5, EvenOrOdd, i + l \in Int, i + l - 1 = i + (l - 1)
            <3> QED BY <3>1
      <2>2. n \in 0 .. d /\ i \in 0 .. d
            BY <1>4, <1>5
      <2> QED BY <1>3, <1>4, <1>6, <2>1, <2>2 DEF InPatch
<1>7. CASE s.code = "rotated" /\ type = "Z"
      <2>1. PICK n \in {k - 1, k} : ~Even(n + j)
            <3>1. Even(k + j) <=> ~Even((k - 1) + j)
                  BY <1>4, <1>5, EvenOrOdd, k + j \in Int, k + j - 1 = (k - 1) + j
            <3> QED BY <3>1
      <2>2. n \in 0 .. d /\ j \in 0 .. d
            BY <1>4, <1>5
      <2> QED BY <1>3, <1>4, <1>7, <2>1, <2>2 DEF InPatch
<1>8. CASE s.code = "xzzx" /\ type = "Z"
      <2>1. CASE Even(k + l)
            <3> DEFINE n == l + i - k
            <3>1. n \in {l - 1, l} /\ n \in 0 .. d /\ i \in 0 .. d /\ i - k = n - l
                  BY <1>4, <1>5
            <3>2. Even(i + n)
                  <4>1. i + n \in {k + l, k + l - 2}
                        BY <1>4, <1>5
                  <4> QED BY <2>1, <4>1, EvenOrOdd, k + l \in Int
            <3> HIDE DEF n
            <3> QED BY <1>3, <1>4, <1>8, <3>1, <3>2 DEF InPatch
      <2>2. CASE ~Even(k + l)
            <3> DEFINE n == k + j - l
            <3>1. n \in {k - 1, k} /\ n \in 0 .. d /\ j \in 0 .. d /\ n - k = j - l
                  BY <1>4, <1>5
            <3>2. ~Even(n + j)
                  <4>1. n + j \in {k + l, k + l - 2}
                        BY <1>4, <1>5
                  <4> QED BY <2>2, <4>1, EvenOrOdd, k + l \in Int
            <3> HIDE DEF n
            <3> QED BY <1>3, <1>4, <1>8, <3>1, <3>2 DEF InPatch
      <2> QED BY <2>1, <2>2
<1>9. CASE s.code = "xzzx" /\ type = "X"
      <2>1. CASE ~Even(k + l)
            <3> DEFINE n == k + l - 1 - i
            <3>1. n \in {l - 1, l} /\ n \in 0 .. d /\ i \in 0 .. d /\ i - k # n - l
                  BY <1>4, <1>5
            <3>2. Even(i + n)
                  BY <2>1, <1>4, <1>5, EvenOrOdd, k + l \in Int, i + n = k + l - 1
            <3> HIDE DEF n
            <3> QED BY <1>3, <1>4, <1>9, <3>1, <3>2 DEF InPatch
      <2>2. CASE Even(k + l)
            <3> DEFINE n == k + l - 1 - j
            <3>1. n \in {k - 1, k} /\ n \in 0 .. d /\ j \in 0 .. d /\ n - k # j - l
                  BY <1>4, <1>5
            <3>2. ~Even(n + j)
                  BY <2>2, <1>4, <1>5, EvenOrOdd, k + l \in Int, n + j = k + l - 1
            <3> HIDE DEF n
            <3> QED BY <1>3, <1>4, <1>9, <3>1, <3>2 DEF InPatch
      <2> QED BY <2>1, <2>2
<1> QED BY <1>6, <1>7, <1>8, <1>9

-----------------------------------------------------------------------------
(* A patch, with marks that can be on it.                                   *)
Possible(s) == {Error(q, type, t) : q \in DataQubits(s.d), type \in {"X", "Z"}, t \in Rounds(s)}
Sized(s) == s.d \in Nat \ {0, 1} /\ s.code \in {"rotated", "xzzx"} /\ s.rounds \in Nat \ {0}
Patch(s) == Whole(s) /\ Sized(s) /\ s.errors \subseteq Possible(s) /\ s.lies \subseteq Checks(s.d) \X Rounds(s)

LEMMA QubitsAreFinite ==
    ASSUME NEW d \in Nat
    PROVE  IsFiniteSet(DataQubits(d))
<1> DEFINE S == 1 .. 2 * d
<1>1. IsFiniteSet(S \X S)
      <2>1. 1 \in Int /\ 2 * d \in Int
            OBVIOUS
      <2>2. IsFiniteSet(S)
            BY <2>1, FS_Interval
      <2> HIDE DEF S
      <2> QED BY <2>2, FS_Product
<1>2. DataQubits(d) \subseteq S \X S
      <2>1. ASSUME NEW q \in DataQubits(d) PROVE q \in S \X S
            <3>1. PICK k \in 1 .. d, l \in 1 .. d : q = QubitAt(k, l)
                  BY QubitsAre
            <3> QED BY <3>1 DEF QubitAt
      <2> QED BY <2>1
<1> QED BY <1>1, <1>2, FS_Subset

LEMMA ErrorsAreFinite ==
    ASSUME NEW s, Sized(s)
    PROVE  IsFiniteSet(Possible(s))
<1> DEFINE Q == DataQubits(s.d)
           S == (Q \X {"X", "Z"}) \X Rounds(s)
           f == [x \in S |-> Error(x[1][1], x[1][2], x[2])]
<1>1. IsFiniteSet(S)
      <2>1. IsFiniteSet(Q) /\ IsFiniteSet(Rounds(s))
            <3>1. s.d \in Nat /\ 0 \in Int /\ s.rounds - 1 \in Int
                  BY DEF Sized
            <3>2. IsFiniteSet(0 .. s.rounds - 1)
                  BY <3>1, FS_Interval
            <3> QED BY <3>1, <3>2, QubitsAreFinite DEF Rounds
      <2>2. IsFiniteSet({"X", "Z"})
            <3>1. {"X", "Z"} = {"X"} \cup {"Z"}
                  OBVIOUS
            <3>2. IsFiniteSet({"X"})
                  BY FS_Singleton
            <3> QED BY <3>1, <3>2, FS_AddElement
      <2> HIDE DEF Q
      <2>3. IsFiniteSet(Q \X {"X", "Z"})
            BY <2>1, <2>2, FS_Product
      <2> QED BY <2>1, <2>3, FS_Product
<1>2. f \in Surjection(S, Possible(s))
      <2> HIDE DEF Q
      <2>1. ASSUME NEW x \in S PROVE f[x] \in Possible(s)
            BY DEF Possible, Q
      <2>2. ASSUME NEW e \in Possible(s) PROVE \E x \in S : f[x] = e
            <3>1. PICK q \in Q, type \in {"X", "Z"}, t \in Rounds(s) : e = Error(q, type, t)
                  BY DEF Possible, Q
            <3>2. <<<<q, type>>, t>> \in S /\ f[<<<<q, type>>, t>>] = e
                  BY <3>1
            <3> QED BY <3>2
      <2> QED BY <2>1, <2>2 DEF Surjection
<1> QED BY <1>1, <1>2, FS_Surjection DEF ExistsSurjection

LEMMA ErrorFields ==
    ASSUME NEW q, NEW type, NEW t
    PROVE  Error(q, type, t).q = q /\ Error(q, type, t).type = type /\ Error(q, type, t).t = t
BY DEF Error

(* What a changed mark shows, of two patches of one size.                   *)
LEMMA NothingShows ==
    ASSUME NEW s, NEW z, Size(s) = Size(z), Between(s.errors, z.errors) = {}, Between(s.lies, z.lies) = {}
    PROVE  Between(DetectionEvents(s), DetectionEvents(z)) = {}
<1>1. s.errors = z.errors /\ s.lies = z.lies /\ s.d = z.d /\ s.code = z.code /\ s.rounds = z.rounds
      BY DEF Between, Size
<1>2. \A c, t : Flips(s, z, c, t) = FALSE
      <2> TAKE c, t
      <2>1. ~Flips(s, z, c, t)
            BY <1>1, LieFlips
      <2> QED BY <2>1 DEF Flips
<1>3. Between(DetectionEvents(s), DetectionEvents(z)) =
          {x \in Checks(s.d) \X Rounds(s) : Flips(s, z, x[1], x[2]) # (x[2] > 0 /\ Flips(s, z, x[1], x[2] - 1))}
      BY <1>1, EventsBetween
<1>4. \A x : ~(Flips(s, z, x[1], x[2]) # (x[2] > 0 /\ Flips(s, z, x[1], x[2] - 1)))
      BY <1>2
<1> QED BY <1>3, <1>4

LEMMA LieShows ==
    ASSUME NEW s, NEW z, Patch(s), Patch(z), Size(s) = Size(z), Between(s.errors, z.errors) = {},
           NEW x, Between(s.lies, z.lies) = {x}
    PROVE  Between(DetectionEvents(s), DetectionEvents(z)) = {<<x[1], t>> : t \in {x[2], x[2] + 1} \cap Rounds(s)}
<1> DEFINE C == Checks(s.d)
           shown == Between(DetectionEvents(s), DetectionEvents(z))
<1>1. s.errors = z.errors /\ s.d = z.d /\ s.code = z.code /\ s.rounds = z.rounds
      BY DEF Between, Size
<1>2. x \in C \X Rounds(s) /\ x = <<x[1], x[2]>> /\ Rounds(s) \subseteq Nat
      <2>1. Rounds(z) = Rounds(s) /\ Rounds(s) \subseteq Nat
            BY <1>1 DEF Rounds, Patch, Sized
      <2>2. x \in s.lies \/ x \in z.lies
            BY DEF Between
      <2>3. x \in C \X Rounds(s)
            BY <1>1, <2>1, <2>2 DEF Patch
      <2> QED BY <2>1, <2>3
<1>3. \A c, t : Flips(s, z, c, t) = (c = x[1] /\ t = x[2])
      <2> TAKE c, t
      <2>1. Flips(s, z, c, t) <=> <<c, t>> = x
            BY <1>1, LieFlips
      <2>2. <<c, t>> = x <=> (c = x[1] /\ t = x[2])
            BY <1>2
      <2>3. Flips(s, z, c, t) \in BOOLEAN
            BY DEF Flips
      <2> QED BY <2>1, <2>2, <2>3
<1>4. shown = {y \in C \X Rounds(s) : Flips(s, z, y[1], y[2]) # (y[2] > 0 /\ Flips(s, z, y[1], y[2] - 1))}
      BY <1>1, EventsBetween
<1> HIDE DEF C, shown
<1>5. ASSUME NEW y \in C \X Rounds(s) PROVE y \in shown <=> (y[1] = x[1] /\ y[2] \in {x[2], x[2] + 1})
      <2>1. y \in shown <=> ((y[1] = x[1] /\ y[2] = x[2]) # (y[2] > 0 /\ y[1] = x[1] /\ y[2] - 1 = x[2]))
            BY <1>3, <1>4
      <2>2. y[2] \in Nat /\ x[2] \in Nat
            BY <1>2
      <2> QED BY <2>1, <2>2
<1>6. shown \subseteq C \X Rounds(s)
      BY <1>4
<1>7. ASSUME NEW y \in shown PROVE \E t \in {x[2], x[2] + 1} \cap Rounds(s) : y = <<x[1], t>>
      BY <1>5, <1>6
<1>8. ASSUME NEW t \in {x[2], x[2] + 1} \cap Rounds(s) PROVE <<x[1], t>> \in shown
      <2>1. <<x[1], t>> \in C \X Rounds(s)
            BY <1>2
      <2> QED BY <1>5, <2>1
<1> QED BY <1>7, <1>8 DEF shown

LEMMA ErrorShows ==
    ASSUME NEW s, NEW z, Patch(s), Patch(z), Size(s) = Size(z), Between(s.lies, z.lies) = {},
           NEW e, Between(s.errors, z.errors) = {e}
    PROVE  /\ Between(DetectionEvents(s), DetectionEvents(z)) # {}
           /\ \A x \in Between(DetectionEvents(s), DetectionEvents(z)) : x[2] = e.t /\ Touches(x[1], e.q)
<1> DEFINE C == Checks(s.d)
           shown == Between(DetectionEvents(s), DetectionEvents(z))
           near(c) == Touches(c, e.q) /\ e.type = Sees(s, c, e.q)
<1>1. s.lies = z.lies /\ s.d = z.d /\ s.code = z.code /\ s.rounds = z.rounds
      BY DEF Between, Size
<1>2. Possible(z) = Possible(s) /\ Rounds(z) = Rounds(s) /\ Rounds(s) \subseteq Nat
      BY <1>1 DEF Possible, Rounds, Patch, Sized
<1>3. IsFiniteSet(s.errors) /\ IsFiniteSet(z.errors)
      BY <1>2, ErrorsAreFinite, FS_Subset DEF Patch
<1>4. PICK q \in DataQubits(s.d), type \in {"X", "Z"}, t \in Rounds(s) : e = Error(q, type, t)
      <2>1. e \in s.errors \/ e \in z.errors
            BY DEF Between
      <2>2. e \in Possible(s)
            BY <1>2, <2>1 DEF Patch
      <2> QED BY <2>2 DEF Possible
<1>5. e.q = q /\ e.type = type /\ e.t = t /\ t \in Nat
      BY <1>2, <1>4, ErrorFields
<1>6. \A c, u : Flips(s, z, c, u) = (t <= u /\ near(c))
      <2> TAKE c, u
      <2>1. Flips(s, z, c, u) <=> (e.t <= u /\ Touches(c, e.q) /\ e.type = Sees(s, c, e.q))
            BY <1>1, <1>3, ErrorFlips
      <2>2. Flips(s, z, c, u) \in BOOLEAN
            BY DEF Flips
      <2> QED BY <1>5, <2>1, <2>2
<1>7. shown = {y \in C \X Rounds(s) : Flips(s, z, y[1], y[2]) # (y[2] > 0 /\ Flips(s, z, y[1], y[2] - 1))}
      BY <1>1, EventsBetween
<1>8. \A c : near(c) \in BOOLEAN
      OBVIOUS
<1>9. \E c \in C : near(c)
      BY <1>4, <1>5, SomeCheckSees DEF Patch, Sized
<1>10. \A c : near(c) => Touches(c, e.q)
       OBVIOUS
<1> HIDE DEF C, shown, near
<1>11. ASSUME NEW y \in C \X Rounds(s) PROVE y \in shown <=> (near(y[1]) /\ y[2] = t)
       <2>1. y \in shown <=> ((t <= y[2] /\ near(y[1])) # (y[2] > 0 /\ t <= y[2] - 1 /\ near(y[1])))
             BY <1>6, <1>7
       <2>2. y[2] \in Nat
             BY <1>2
       <2> QED BY <1>5, <1>8, <2>1, <2>2
<1>12. shown # {}
       <2>1. PICK c \in C : near(c)
             BY <1>9
       <2>2. <<c, t>> \in shown
             BY <1>11, <2>1
       <2> QED BY <2>2
<1>13. \A x \in shown : x[2] = e.t /\ Touches(x[1], e.q)
       <2> TAKE x \in shown
       <2>1. x \in C \X Rounds(s)
             BY <1>7
       <2> QED BY <1>5, <1>10, <1>11, <2>1
<1> QED BY <1>12, <1>13 DEF shown

LEMMA MarksShow ==
    ASSUME Patch(session), Patch(session'), Size(session) = Size(session')
    PROVE  EachMarkShows
<1> DEFINE errors == Between(session.errors, session'.errors)
           lies == Between(session.lies, session'.lies)
           shown == Between(DetectionEvents(session), DetectionEvents(session'))
<1>1. ASSUME NEW x \in lies, lies = {x}, errors = {}
      PROVE  shown = {<<x[1], t>> : t \in {x[2], x[2] + 1} \cap Rounds(session)}
      BY <1>1, LieShows
<1>2. ASSUME NEW e \in errors, errors = {e}, lies = {}
      PROVE  shown # {} /\ \A x \in shown : x[2] = e.t /\ Touches(x[1], e.q)
      BY <1>2, ErrorShows
<1>3. ASSUME errors = {}, lies = {} PROVE shown = {}
      BY <1>3, NothingShows
<1> HIDE DEF errors, lies, shown
<1>4. EachMarkShows <=>
          /\ \A x \in lies : lies = {x} /\ errors = {} =>
                shown = {<<x[1], t>> : t \in {x[2], x[2] + 1} \cap Rounds(session)}
          /\ \A e \in errors : errors = {e} /\ lies = {} =>
                shown # {} /\ \A x \in shown : x[2] = e.t /\ Touches(x[1], e.q)
          /\ errors = {} /\ lies = {} => shown = {}
      BY DEF EachMarkShows, errors, lies, shown
<1> QED BY <1>1, <1>2, <1>3, <1>4

-----------------------------------------------------------------------------
(* A chain that is grown: where its kind shows, its ends are one step inside  *)
(* the patch, and a check in between lies beside two of its qubits.          *)
(* Along either axis: the n-th qubit of a line, and the checks beside it that *)
(* see the chains laid on that axis: Z checks on the first, X checks on the   *)
(* other.                                                                  *)
LineAt(axis, m, l)  == IF axis = 0 THEN QubitAt(m, l) ELSE QubitAt(l, m)
CrossAt(axis, i, j) == IF axis = 0 THEN CheckAt(i, j) ELSE CheckAt(j, i)
Kind(axis, n)       == IF axis = 0 THEN Even(n) ELSE ~Even(n)
Shown(axis)         == IF axis = 0 THEN "X" ELSE "Z"

LEMMA ChainsAre ==
    ASSUME NEW d \in Nat, d > 3, NEW axis \in {0, 1}, NEW chain \in Chains(d, ChainLength(d), axis)
    PROVE  \E l \in 1 .. d : chain = {LineAt(axis, m, l) : m \in 2 .. d - 1}
<1> DEFINE starts == {q \in DataQubits(d) : Along(q, (d - 2) - 1, axis) \in DataQubits(d)}
           interior == {q \in starts : {Along(q, -1, axis), Along(q, d - 2, axis)} \subseteq DataQubits(d)}
<1>1. ChainLength(d) = d - 2
      BY DEF ChainLength
<1>2. Chains(d, d - 2, axis) =
          {{Along(q, i, axis) : i \in 0 .. (d - 2) - 1} : q \in IF interior # {} THEN interior ELSE starts}
      BY DEF Chains
<1>3. ASSUME NEW k \in Int, NEW l \in Int, NEW n \in Int PROVE Along(LineAt(axis, k, l), n, axis) = LineAt(axis, k + n, l)
      BY DEF Along, LineAt, QubitAt
<1>4. ASSUME NEW q \in DataQubits(d) PROVE \E k, l \in 1 .. d : q = LineAt(axis, k, l)
      BY <1>4, QubitsAre DEF LineAt
<1>5. \A k, l \in 1 .. d : LineAt(axis, k, l) \in DataQubits(d)
      BY QubitsAre DEF LineAt
<1>6. \A k, l \in Int : LineAt(axis, k, l) \in DataQubits(d) => k \in 1 .. d /\ l \in 1 .. d
      BY QubitsAre DEF LineAt
<1>7. interior # {}
      <2> DEFINE q == LineAt(axis, 2, 1)
      <2>1. q \in DataQubits(d) /\ LineAt(axis, d - 1, 1) \in DataQubits(d) /\ LineAt(axis, 1, 1) \in DataQubits(d)
            /\ LineAt(axis, d, 1) \in DataQubits(d)
            BY <1>5
      <2>2. Along(q, (d - 2) - 1, axis) = LineAt(axis, d - 1, 1) /\ Along(q, -1, axis) = LineAt(axis, 1, 1)
            /\ Along(q, d - 2, axis) = LineAt(axis, d, 1)
            <3>1. 2 + ((d - 2) - 1) = d - 1 /\ 2 + (-1) = 1 /\ 2 + (d - 2) = d /\ (d - 2) - 1 \in Int /\ d - 2 \in Int
                  OBVIOUS
            <3>2. Along(q, (d - 2) - 1, axis) = LineAt(axis, 2 + ((d - 2) - 1), 1)
                  BY <1>3, <3>1
            <3>3. Along(q, -1, axis) = LineAt(axis, 2 + (-1), 1)
                  BY <1>3
            <3>4. Along(q, d - 2, axis) = LineAt(axis, 2 + (d - 2), 1)
                  BY <1>3, <3>1
            <3> QED BY <3>1, <3>2, <3>3, <3>4
      <2> HIDE DEF q
      <2>3. q \in interior
            BY <2>1, <2>2
      <2> QED BY <2>3
<1>8. PICK q \in interior : chain = {Along(q, i, axis) : i \in 0 .. (d - 2) - 1}
      BY <1>1, <1>2, <1>7
<1>9. PICK k \in 1 .. d, l \in 1 .. d : q = LineAt(axis, k, l)
      BY <1>4
<1>10. k = 2
       <2>1. LineAt(axis, k + (-1), l) \in DataQubits(d) /\ LineAt(axis, k + (d - 2), l) \in DataQubits(d)
             <3>1. Along(q, -1, axis) \in DataQubits(d) /\ Along(q, d - 2, axis) \in DataQubits(d)
                   BY <1>8
             <3> QED BY <1>3, <1>9, <3>1
       <2>2. k + (-1) \in 1 .. d /\ k + (d - 2) \in 1 .. d
             BY <1>6, <2>1
       <2> QED BY <2>2
<1>11. \A i \in 0 .. (d - 2) - 1 : Along(q, i, axis) = LineAt(axis, 2 + i, l)
       BY <1>3, <1>9, <1>10
<1>12. chain = {LineAt(axis, m, l) : m \in 2 .. d - 1}
       <2>1. ASSUME NEW x \in chain PROVE \E m \in 2 .. d - 1 : x = LineAt(axis, m, l)
             <3>1. PICK i \in 0 .. (d - 2) - 1 : x = LineAt(axis, 2 + i, l)
                   BY <1>8, <1>11
             <3>2. 2 + i \in 2 .. d - 1
                   OBVIOUS
             <3> QED BY <3>1, <3>2
       <2>2. ASSUME NEW m \in 2 .. d - 1 PROVE LineAt(axis, m, l) \in chain
             <3>1. m - 2 \in 0 .. (d - 2) - 1 /\ 2 + (m - 2) = m
                   OBVIOUS
             <3>2. Along(q, m - 2, axis) = LineAt(axis, m, l)
                   BY <1>11, <3>1
             <3> QED BY <1>8, <3>1, <3>2
       <2> QED BY <2>1, <2>2
<1> QED BY <1>12

LEMMA CrossesAre ==
    ASSUME NEW d \in Nat, NEW axis \in {0, 1}
    PROVE  /\ \A i \in 1 .. d - 1, j \in 0 .. d : Kind(axis, i + j) =>
                 CrossAt(axis, i, j) \in Checks(d) /\ (ZLike(CrossAt(axis, i, j)) <=> axis = 0)
           /\ \A c \in Checks(d) : (ZLike(c) <=> axis = 0) =>
                 \E i \in 1 .. d - 1, j \in 0 .. d : c = CrossAt(axis, i, j) /\ Kind(axis, i + j)
<1>1. ASSUME NEW i \in 1 .. d - 1, NEW j \in 0 .. d, Kind(axis, i + j)
      PROVE  CrossAt(axis, i, j) \in Checks(d) /\ (ZLike(CrossAt(axis, i, j)) <=> axis = 0)
      <2>1. i \in 0 .. d /\ j \in 0 .. d /\ i + j = j + i /\ i \in Int /\ j \in Int
            OBVIOUS
      <2>2. CASE axis = 0
            <3>1. Even(i + j) /\ CrossAt(axis, i, j) = CheckAt(i, j)
                  BY <1>1, <2>2 DEF Kind, CrossAt
            <3>2. InPatch(d, i, j)
                  BY <3>1 DEF InPatch
            <3> QED BY <2>1, <2>2, <3>1, <3>2, ChecksAre, ZLikeAt
      <2>3. CASE axis = 1
            <3>1. ~Even(j + i) /\ CrossAt(axis, i, j) = CheckAt(j, i)
                  BY <1>1, <2>1, <2>3 DEF Kind, CrossAt
            <3>2. InPatch(d, j, i)
                  BY <3>1 DEF InPatch
            <3> QED BY <2>1, <2>3, <3>1, <3>2, ChecksAre, ZLikeAt
      <2> QED BY <2>2, <2>3
<1>2. ASSUME NEW c \in Checks(d), ZLike(c) <=> axis = 0
      PROVE  \E i \in 1 .. d - 1, j \in 0 .. d : c = CrossAt(axis, i, j) /\ Kind(axis, i + j)
      <2>1. PICK i \in 0 .. d, j \in 0 .. d : c = CheckAt(i, j) /\ InPatch(d, i, j)
            BY ChecksAre
      <2>2. ZLike(c) <=> Even(i + j)
            <3>1. i \in Int /\ j \in Int
                  OBVIOUS
            <3> QED BY <2>1, <3>1, ZLikeAt
      <2>3. CASE axis = 0
            BY <1>2, <2>1, <2>2, <2>3 DEF InPatch, Kind, CrossAt
      <2>4. CASE axis = 1
            <3>1. ~Even(j + i)
                  BY <1>2, <2>2, <2>4, i + j = j + i
            <3>2. j \in 1 .. d - 1 /\ i \in 0 .. d
                  BY <1>2, <2>1, <2>2, <2>4 DEF InPatch
            <3>3. c = CrossAt(axis, j, i) /\ Kind(axis, j + i)
                  BY <2>1, <2>4, <3>1 DEF Kind, CrossAt
            <3> QED BY <3>2, <3>3
      <2> QED BY <2>3, <2>4
<1> QED BY <1>1, <1>2

LEMMA CrossTouches ==
    ASSUME NEW axis \in {0, 1}, NEW i \in Int, NEW j \in Int, NEW m \in Int, NEW l \in Int
    PROVE  /\ Touches(CrossAt(axis, i, j), LineAt(axis, m, l)) <=> (i \in {m - 1, m} /\ j \in {l - 1, l})
           /\ \A n \in Int : LineAt(axis, m, l) = LineAt(axis, n, l) => m = n
           /\ \A n, k \in Int : CrossAt(axis, i, j) = CrossAt(axis, n, k) => i = n /\ j = k
<1>1. Touches(CrossAt(axis, i, j), LineAt(axis, m, l)) <=> (i \in {m - 1, m} /\ j \in {l - 1, l})
      BY TouchesAt DEF CrossAt, LineAt
<1>2. \A n \in Int : LineAt(axis, m, l) = LineAt(axis, n, l) => m = n
      BY DEF LineAt, QubitAt
<1>3. \A n, k \in Int : CrossAt(axis, i, j) = CrossAt(axis, n, k) => i = n /\ j = k
      BY DEF CrossAt, CheckAt
<1> QED BY <1>1, <1>2, <1>3

LEMMA OddOfFew ==
    /\ \A x : Odd({x})
    /\ \A x, y : x # y => ~Odd({x, y}) /\ Cardinality({x, y}) = 2
<1>1. \A x : IsFiniteSet({x}) /\ Cardinality({x}) = 1
      BY FS_Singleton
<1>2. \A x : Odd({x})
      <2>1. 1 % 2 = 1
            OBVIOUS
      <2> QED BY <1>1, <2>1 DEF Odd
<1>3. ASSUME NEW x, NEW y, x # y PROVE ~Odd({x, y}) /\ Cardinality({x, y}) = 2
      <2>1. {x, y} = {x} \cup {y} /\ y \notin {x}
            BY <1>3
      <2>2. Cardinality({x, y}) = 2
            <3>1. Cardinality({x} \cup {y}) = Cardinality({x}) + 1
                  BY <1>1, <2>1, FS_AddElement
            <3>2. Cardinality({x}) + 1 = 2
                  BY <1>1
            <3> QED BY <2>1, <3>1, <3>2
      <2>3. 2 % 2 # 1
            OBVIOUS
      <2> QED BY <2>2, <2>3 DEF Odd
<1> QED BY <1>2, <1>3

LEMMA Grows ==
    ASSUME NEW s, NEW chain, NEW type
    PROVE  /\ Whole(GrowChain(s, chain, type)) /\ Size(GrowChain(s, chain, type)) = Size(s)
           /\ GrowChain(s, chain, type).lies = {}
           /\ GrowChain(s, chain, type).errors = {Error(q, type, 0) : q \in chain}
<1> DEFINE E == {Error(q, type, 0) : q \in chain}
           g == [d |-> s.d, code |-> s.code, rounds |-> s.rounds, errors |-> E, lies |-> {}, erased |-> {},
                 correction |-> <<>>]
<1>1. GrowChain(s, chain, type) = [ClearErrors(s) EXCEPT !.errors = E]
      BY DEF GrowChain, WithErrors
<1> HIDE DEF E
<1>2. [ClearErrors(s) EXCEPT !.errors = E] = g
      BY DEF ClearErrors, NewSession
<1>3. Whole(g) /\ Size(g) = Size(s) /\ g.lies = {} /\ g.errors = E
      BY DEF Whole, Size
<1> QED BY <1>1, <1>2, <1>3 DEF E

(* At its two ends, and nowhere else.                                       *)
LEMMA ChainShowsTwo ==
    ASSUME NEW s, s.d \in Nat, s.d > 3, s.code = "rotated", s.rounds = 1,
           NEW axis \in {0, 1}, NEW chain \in Chains(s.d, ChainLength(s.d), axis)
    PROVE  Defects(GrowChain(s, chain, Shown(axis))) = 2
<1> DEFINE d == s.d
           g == GrowChain(s, chain, Shown(axis))
<1>1. /\ g.d = d /\ g.code = "rotated" /\ g.rounds = 1 /\ g.lies = {}
      /\ g.errors = {Error(q, Shown(axis), 0) : q \in chain}
      BY Grows DEF Size
<1> HIDE DEF g, d
<1>2. d \in Nat /\ d > 3
      BY DEF d
<1>3. PICK l \in 1 .. d : chain = {LineAt(axis, m, l) : m \in 2 .. d - 1}
      BY <1>2, ChainsAre DEF d
<1> DEFINE err(m) == Error(LineAt(axis, m, l), Shown(axis), 0)
           seen(c) == Seen(g, c, 0)
<1>4. g.errors = {err(m) : m \in 2 .. d - 1}
      BY <1>1, <1>3
<1>5. \A m : err(m).q = LineAt(axis, m, l) /\ err(m).type = Shown(axis) /\ err(m).t = 0
      BY ErrorFields
<1>6. \A c, q : Shown(axis) = Sees(g, c, q) <=> (ZLike(c) <=> axis = 0)
      BY <1>1 DEF Sees, Shown
<1>7. \A m, n \in Int : err(m) = err(n) => m = n
      <2> TAKE m \in Int, n \in Int
      <2> HAVE err(m) = err(n)
      <2>1. LineAt(axis, m, l) = LineAt(axis, n, l)
            BY <1>5
      <2> QED BY <2>1, CrossTouches
<1>8. \A c : seen(c) = {e \in g.errors : e.t <= 0 /\ Touches(c, e.q) /\ e.type = Sees(g, c, e.q)}
      BY DEF Seen
<1> HIDE DEF err, seen
<1>9. ASSUME NEW c, ~(ZLike(c) <=> axis = 0) PROVE seen(c) = {}
      BY <1>4, <1>5, <1>6, <1>8, <1>9
<1>10. ASSUME NEW i \in 1 .. d - 1, NEW j \in 0 .. d, Kind(axis, i + j)
       PROVE  seen(CrossAt(axis, i, j)) = IF j \in {l - 1, l} THEN {err(m) : m \in {i, i + 1} \cap (2 .. d - 1)} ELSE {}
       <2> DEFINE c == CrossAt(axis, i, j)
       <2>1. ZLike(c) <=> axis = 0
             BY <1>2, <1>10, CrossesAre
       <2>2. \A m \in 2 .. d - 1 : Touches(c, LineAt(axis, m, l)) <=> (i \in {m - 1, m} /\ j \in {l - 1, l})
             BY <1>2, CrossTouches
       <2> HIDE DEF c
       <2>3. \A m \in 2 .. d - 1 : err(m) \in seen(c) <=> (i \in {m - 1, m} /\ j \in {l - 1, l})
             <3> TAKE m \in 2 .. d - 1
             <3>1. err(m) \in g.errors
                   BY <1>4
             <3>2. err(m).t <= 0 /\ err(m).type = Sees(g, c, err(m).q)
                   BY <1>5, <1>6, <2>1, 0 <= 0
             <3> QED BY <1>5, <1>8, <2>2, <3>1, <3>2
       <2>4. seen(c) \subseteq {err(m) : m \in 2 .. d - 1}
             BY <1>4, <1>8
       <2>5. \A m \in 2 .. d - 1 : i \in {m - 1, m} <=> m \in {i, i + 1}
             BY <1>2
       <2>6. CASE j \in {l - 1, l}
             <3>1. seen(c) = {err(m) : m \in {i, i + 1} \cap (2 .. d - 1)}
                   BY <2>3, <2>4, <2>5, <2>6
             <3> QED BY <2>6, <3>1 DEF c
       <2>7. CASE j \notin {l - 1, l}
             <3>1. seen(c) = {}
                   BY <2>3, <2>4, <2>7
             <3> QED BY <2>7, <3>1 DEF c
       <2> QED BY <2>6, <2>7
<1>11. ASSUME NEW i \in 1 .. d - 1, NEW j \in 0 .. d, Kind(axis, i + j)
       PROVE  Odd(seen(CrossAt(axis, i, j))) <=> (j \in {l - 1, l} /\ i \in {1, d - 1})
       <2> DEFINE S == {err(m) : m \in {i, i + 1} \cap (2 .. d - 1)}
       <2>1. CASE j \notin {l - 1, l}
             BY <1>10, <1>11, <2>1, EmptyIsEven
       <2>2. CASE j \in {l - 1, l}
             <3>1. seen(CrossAt(axis, i, j)) = S
                   BY <1>10, <1>11, <2>2
             <3>2. CASE i = 1
                   <4>1. {i, i + 1} \cap (2 .. d - 1) = {i + 1}
                         BY <1>2, <3>2
                   <4>2. S = {err(i + 1)}
                         BY <4>1
                   <4> HIDE DEF S
                   <4> QED BY <2>2, <3>1, <3>2, <4>2, OddOfFew
             <3>3. CASE i = d - 1
                   <4>1. {i, i + 1} \cap (2 .. d - 1) = {i}
                         BY <1>2, <3>3
                   <4>2. S = {err(i)}
                         BY <4>1
                   <4> HIDE DEF S
                   <4> QED BY <2>2, <3>1, <3>3, <4>2, OddOfFew
             <3>4. CASE i \notin {1, d - 1}
                   <4>1. {i, i + 1} \cap (2 .. d - 1) = {i, i + 1}
                         BY <1>2, <3>4
                   <4>2. S = {err(i), err(i + 1)}
                         BY <4>1
                   <4>3. err(i) # err(i + 1)
                         <5>1. i \in Int /\ i + 1 \in Int /\ i # i + 1
                               BY <1>2
                         <5> QED BY <1>7, <5>1
                   <4>4. ~Odd({err(i), err(i + 1)})
                         BY <4>3, OddOfFew
                   <4> HIDE DEF S
                   <4> QED BY <3>1, <3>4, <4>2, <4>4
             <3> QED BY <3>2, <3>3, <3>4
       <2> QED BY <2>1, <2>2
<1>12. ASSUME NEW n \in Int
       PROVE  \E j \in {l - 1, l} : Kind(axis, n + j) /\ \A k \in {l - 1, l} : Kind(axis, n + k) => k = j
       <2>1. Even(n + l) <=> ~Even(n + (l - 1))
             <3>1. n + l \in Int /\ n + l - 1 = n + (l - 1)
                   OBVIOUS
             <3> QED BY <3>1, EvenOrOdd
       <2>2. Kind(axis, n + l) <=> ~Kind(axis, n + (l - 1))
             BY <2>1 DEF Kind
       <2> QED BY <2>2
<1>13. PICK a \in {l - 1, l} : Kind(axis, 1 + a) /\ \A k \in {l - 1, l} : Kind(axis, 1 + k) => k = a
       BY <1>12, 1 \in Int
<1>14. PICK b \in {l - 1, l} : Kind(axis, (d - 1) + b) /\ \A k \in {l - 1, l} : Kind(axis, (d - 1) + k) => k = b
       BY <1>2, <1>12, d - 1 \in Int
<1> DEFINE first == <<CrossAt(axis, 1, a), 0>>
           last  == <<CrossAt(axis, d - 1, b), 0>>
<1>15. 1 \in 1 .. d - 1 /\ d - 1 \in 1 .. d - 1 /\ a \in 0 .. d /\ b \in 0 .. d
       BY <1>2
<1>16. first # last
       <2>1. 1 \in Int /\ d - 1 \in Int /\ a \in Int /\ b \in Int /\ 1 # d - 1
             BY <1>2, <1>15
       <2>2. \A n, k \in Int : CrossAt(axis, 1, a) = CrossAt(axis, n, k) => 1 = n /\ a = k
             BY <2>1, CrossTouches
       <2>3. CrossAt(axis, 1, a) # CrossAt(axis, d - 1, b)
             BY <2>1, <2>2
       <2> QED BY <2>3
<1>17. DetectionEvents(g) = {x \in Checks(d) \X {0} : Odd(seen(x[1]))}
       <2>1. Rounds(g) = {0}
             BY <1>1 DEF Rounds
       <2>2. \A c : Fires(g, c, 0) = Odd(seen(c))
             <3> TAKE c
             <3>1. Fires(g, c, 0) = (Odd(seen(c)) # (<<c, 0>> \in g.lies))
                   BY DEF Fires, seen, Seen
             <3>2. Odd(seen(c)) \in BOOLEAN
                   BY DEF Odd
             <3>3. (<<c, 0>> \in g.lies) = FALSE
                   BY <1>1
             <3> QED BY <3>1, <3>2, <3>3
       <2>3. ASSUME NEW x \in Checks(d) \X {0}
             PROVE  (Fires(g, x[1], x[2]) # (x[2] > 0 /\ Fires(g, x[1], x[2] - 1))) = Odd(seen(x[1]))
             <3>1. x[2] = 0 /\ (x[2] > 0) = FALSE
                   OBVIOUS
             <3>2. Fires(g, x[1], x[2]) = Odd(seen(x[1])) /\ Odd(seen(x[1])) \in BOOLEAN
                   BY <2>2, <3>1 DEF Odd
             <3> QED BY <3>1, <3>2
       <2>4. DetectionEvents(g) =
                 {x \in Checks(d) \X {0} : Fires(g, x[1], x[2]) # (x[2] > 0 /\ Fires(g, x[1], x[2] - 1))}
             BY <1>1, <2>1 DEF DetectionEvents
       <2> QED BY <2>3, <2>4, Zenon
<1>18. DetectionEvents(g) = {first, last}
       <2>1. CrossAt(axis, 1, a) \in Checks(d) /\ CrossAt(axis, d - 1, b) \in Checks(d)
             BY <1>2, <1>13, <1>14, <1>15, CrossesAre
       <2>2. Odd(seen(CrossAt(axis, 1, a))) /\ Odd(seen(CrossAt(axis, d - 1, b)))
             BY <1>11, <1>13, <1>14, <1>15
       <2>3. first \in DetectionEvents(g) /\ last \in DetectionEvents(g)
             BY <1>17, <2>1, <2>2
       <2>4. ASSUME NEW x \in DetectionEvents(g) PROVE x \in {first, last}
             <3> DEFINE c == x[1]
             <3>1. c \in Checks(d) /\ x = <<c, 0>> /\ Odd(seen(c))
                   BY <1>17
             <3> HIDE DEF c
             <3>2. ZLike(c) <=> axis = 0
                   BY <1>9, <3>1, EmptyIsEven
             <3>3. PICK i \in 1 .. d - 1, j \in 0 .. d : c = CrossAt(axis, i, j) /\ Kind(axis, i + j)
                   BY <1>2, <3>1, <3>2, CrossesAre
             <3>4. j \in {l - 1, l} /\ i \in {1, d - 1}
                   BY <1>11, <3>1, <3>3
             <3>5. (i = 1 => j = a) /\ (i = d - 1 => j = b)
                   BY <1>13, <1>14, <3>3, <3>4
             <3> QED BY <3>1, <3>3, <3>4, <3>5
       <2> HIDE DEF first, last
       <2> QED BY <2>3, <2>4
<1> HIDE DEF first, last
<1>19. Cardinality(DetectionEvents(g)) = 2
       BY <1>16, <1>18, OddOfFew
<1> QED BY <1>19 DEF Defects, g

-----------------------------------------------------------------------------
(* What the page does to a patch leaves it a patch of its size.             *)
Remade(s, errors, lies, erased, correction) ==
    [d |-> s.d, code |-> s.code, rounds |-> s.rounds, errors |-> errors, lies |-> lies, erased |-> erased,
     correction |-> correction]

LEMMA RemadeIsPatch ==
    ASSUME NEW s, Sized(s), NEW errors, errors \subseteq Possible(s),
           NEW lies, lies \subseteq Checks(s.d) \X Rounds(s), NEW erased, NEW correction
    PROVE  Patch(Remade(s, errors, lies, erased, correction)) /\ Size(Remade(s, errors, lies, erased, correction)) = Size(s)
<1> DEFINE z == Remade(s, errors, lies, erased, correction)
<1>1. /\ z.d = s.d /\ z.code = s.code /\ z.rounds = s.rounds /\ z.errors = errors /\ z.lies = lies
      /\ Whole(z)
      BY DEF Remade, Whole
<1> HIDE DEF z
<1>2. Possible(z) = Possible(s) /\ Rounds(z) = Rounds(s)
      BY <1>1 DEF Possible, Rounds
<1> QED BY <1>1, <1>2 DEF Patch, Sized, Size, z

LEMMA NewIsPatch ==
    ASSUME NEW d \in Nat \ {0, 1}, NEW code \in {"rotated", "xzzx"}, NEW rounds \in Nat \ {0}
    PROVE  Patch(NewSession(d, code, rounds)) /\ Size(NewSession(d, code, rounds)) = <<d, code, rounds>>
<1> DEFINE s == NewSession(d, code, rounds)
<1>1. s.d = d /\ s.code = code /\ s.rounds = rounds /\ s.errors = {} /\ s.lies = {} /\ Whole(s)
      BY NewIsWhole DEF NewSession
<1> QED BY <1>1 DEF Patch, Sized, Size

LEMMA EditsRemake ==
    ASSUME NEW s, Whole(s)
    PROVE  /\ \A e : ToggleError(s, e) = Remade(s, Toggled(s.errors, e), s.lies, s.erased, <<>>)
           /\ \A x : ToggleLie(s, x) = Remade(s, s.errors, Toggled(s.lies, x), s.erased, <<>>)
           /\ \A x : ToggleErasure(s, x) = Remade(s, s.errors, s.lies, Toggled(s.erased, x), <<>>)
           /\ \A by : Decode(s, by) = Remade(s, s.errors, s.lies, s.erased, <<Marks(s), by>>)
           /\ ClearErrors(s) = Remade(s, {}, {}, {}, <<>>)
           /\ \A E : WithErrors(s, E) = Remade(s, E, {}, {}, <<>>)
<1>1. s = [d |-> s.d, code |-> s.code, rounds |-> s.rounds, errors |-> s.errors, lies |-> s.lies, erased |-> s.erased,
           correction |-> s.correction]
      BY DEF Whole
<1>2. ASSUME NEW e PROVE ToggleError(s, e) = Remade(s, Toggled(s.errors, e), s.lies, s.erased, <<>>)
      <2> DEFINE T == Toggled(s.errors, e)
                 m == [s EXCEPT !.errors = T]
      <2>1. ToggleError(s, e) = [m EXCEPT !.correction = <<>>]
            BY DEF ToggleError
      <2> HIDE DEF T
      <2>2. m =
              [d |-> s.d, code |-> s.code, rounds |-> s.rounds, errors |-> T, lies |-> s.lies,
                  erased |-> s.erased, correction |-> s.correction]
            BY <1>1
      <2> HIDE DEF m
      <2>3. ToggleError(s, e) =
              [d |-> s.d, code |-> s.code, rounds |-> s.rounds, errors |-> T, lies |-> s.lies,
                  erased |-> s.erased, correction |-> <<>>]
            BY <2>1, <2>2
      <2> QED BY <2>3 DEF Remade, T
<1>3. ASSUME NEW x PROVE ToggleLie(s, x) = Remade(s, s.errors, Toggled(s.lies, x), s.erased, <<>>)
      <2> DEFINE T == Toggled(s.lies, x)
                 m == [s EXCEPT !.lies = T]
      <2>1. ToggleLie(s, x) = [m EXCEPT !.correction = <<>>]
            BY DEF ToggleLie
      <2> HIDE DEF T
      <2>2. m =
              [d |-> s.d, code |-> s.code, rounds |-> s.rounds, errors |-> s.errors, lies |-> T,
                  erased |-> s.erased, correction |-> s.correction]
            BY <1>1
      <2> HIDE DEF m
      <2>3. ToggleLie(s, x) =
              [d |-> s.d, code |-> s.code, rounds |-> s.rounds, errors |-> s.errors, lies |-> T,
                  erased |-> s.erased, correction |-> <<>>]
            BY <2>1, <2>2
      <2> QED BY <2>3 DEF Remade, T
<1>4. ASSUME NEW x PROVE ToggleErasure(s, x) = Remade(s, s.errors, s.lies, Toggled(s.erased, x), <<>>)
      <2> DEFINE T == Toggled(s.erased, x)
                 m == [s EXCEPT !.erased = T]
      <2>1. ToggleErasure(s, x) = [m EXCEPT !.correction = <<>>]
            BY DEF ToggleErasure
      <2> HIDE DEF T
      <2>2. m =
              [d |-> s.d, code |-> s.code, rounds |-> s.rounds, errors |-> s.errors, lies |-> s.lies,
                  erased |-> T, correction |-> s.correction]
            BY <1>1
      <2> HIDE DEF m
      <2>3. ToggleErasure(s, x) =
              [d |-> s.d, code |-> s.code, rounds |-> s.rounds, errors |-> s.errors, lies |-> s.lies,
                  erased |-> T, correction |-> <<>>]
            BY <2>1, <2>2
      <2> QED BY <2>3 DEF Remade, T
<1>5. ASSUME NEW by PROVE Decode(s, by) = Remade(s, s.errors, s.lies, s.erased, <<Marks(s), by>>)
      <2>1. [s EXCEPT !.correction = <<Marks(s), by>>] =
              [d |-> s.d, code |-> s.code, rounds |-> s.rounds, errors |-> s.errors, lies |-> s.lies,
               erased |-> s.erased, correction |-> <<Marks(s), by>>]
            BY <1>1
      <2> QED BY <2>1 DEF Decode, Remade
<1>6. ClearErrors(s) = Remade(s, {}, {}, {}, <<>>)
      BY DEF ClearErrors, NewSession, Remade
<1>7. ASSUME NEW E PROVE WithErrors(s, E) = Remade(s, E, {}, {}, <<>>)
      <2> DEFINE c    == ClearErrors(s)
                 none == {}
                 as(errors, correction) ==
                     [d |-> s.d, code |-> s.code, rounds |-> s.rounds, errors |-> errors, lies |-> none,
                      erased |-> none, correction |-> correction]
      <2>1. c = as(none, <<>>) /\ Remade(s, E, {}, {}, <<>>) = as(E, <<>>)
            BY DEF ClearErrors, NewSession, Remade
      <2>2. ASSUME NEW correction PROVE [as(none, correction) EXCEPT !.errors = E] = as(E, correction)
            <3> HIDE DEF none
            <3> QED OBVIOUS
      <2> HIDE DEF c, as
      <2>3. [c EXCEPT !.errors = E] = as(E, <<>>)
            BY <2>1, <2>2
      <2> QED BY <2>1, <2>3 DEF WithErrors, c
<1> QED BY <1>2, <1>3, <1>4, <1>5, <1>6, <1>7

(* z is a patch of the size of s.                                           *)
Follow(s, z) == Patch(z) /\ Size(z) = Size(s)

LEMMA EditsArePatches ==
    ASSUME NEW s, Patch(s)
    PROVE  /\ \A e \in Possible(s) : Follow(s, ToggleError(s, e))
           /\ \A x \in Checks(s.d) \X Rounds(s) : Follow(s, ToggleLie(s, x))
           /\ \A x : Follow(s, ToggleErasure(s, x))
           /\ \A by : Follow(s, Decode(s, by))
           /\ Follow(s, ClearErrors(s))
           /\ \A E \in SUBSET Possible(s) : Follow(s, WithErrors(s, E))
<1>1. ASSUME NEW errors, errors \subseteq Possible(s), NEW lies, lies \subseteq Checks(s.d) \X Rounds(s),
             NEW erased, NEW correction
      PROVE  Follow(s, Remade(s, errors, lies, erased, correction))
      <2>1. Sized(s)
            BY DEF Patch
      <2> QED BY <1>1, <2>1, RemadeIsPatch DEF Follow
<1>2. s.errors \subseteq Possible(s) /\ s.lies \subseteq Checks(s.d) \X Rounds(s) /\ Whole(s)
      BY DEF Patch
<1>3. ASSUME NEW e \in Possible(s) PROVE Toggled(s.errors, e) \subseteq Possible(s)
      BY <1>2 DEF Toggled
<1>4. ASSUME NEW x \in Checks(s.d) \X Rounds(s) PROVE Toggled(s.lies, x) \subseteq Checks(s.d) \X Rounds(s)
      BY <1>2 DEF Toggled
<1>5. {} \subseteq Possible(s) /\ {} \subseteq Checks(s.d) \X Rounds(s)
      OBVIOUS
<1>6. ASSUME NEW e \in Possible(s) PROVE Follow(s, ToggleError(s, e))
      <2>1. Follow(s, Remade(s, Toggled(s.errors, e), s.lies, s.erased, <<>>))
            BY <1>1, <1>2, <1>3
      <2> QED BY <1>2, <2>1, EditsRemake
<1>7. ASSUME NEW x \in Checks(s.d) \X Rounds(s) PROVE Follow(s, ToggleLie(s, x))
      <2>1. Follow(s, Remade(s, s.errors, Toggled(s.lies, x), s.erased, <<>>))
            BY <1>1, <1>2, <1>4
      <2> QED BY <1>2, <2>1, EditsRemake
<1>8. ASSUME NEW x PROVE Follow(s, ToggleErasure(s, x))
      <2>1. Follow(s, Remade(s, s.errors, s.lies, Toggled(s.erased, x), <<>>))
            BY <1>1, <1>2
      <2> QED BY <1>2, <2>1, EditsRemake
<1>9. ASSUME NEW by PROVE Follow(s, Decode(s, by))
      <2>1. Follow(s, Remade(s, s.errors, s.lies, s.erased, <<Marks(s), by>>))
            BY <1>1, <1>2
      <2> QED BY <1>2, <2>1, EditsRemake
<1>10. Follow(s, ClearErrors(s))
       <2>1. Follow(s, Remade(s, {}, {}, {}, <<>>))
             BY <1>1, <1>5
       <2> QED BY <1>2, <2>1, EditsRemake
<1>11. ASSUME NEW E \in SUBSET Possible(s) PROVE Follow(s, WithErrors(s, E))
       <2>1. Follow(s, Remade(s, E, {}, {}, <<>>))
             BY <1>1, <1>5
       <2> QED BY <1>2, <2>1, EditsRemake
<1> QED BY <1>6, <1>7, <1>8, <1>9, <1>10, <1>11

LEMMA ChainsAreInside ==
    ASSUME NEW d \in Nat, NEW length \in Nat \ {0}, NEW axis \in {0, 1}, NEW chain \in Chains(d, length, axis)
    PROVE  chain \subseteq DataQubits(d)
<1> DEFINE starts == {q \in DataQubits(d) : Along(q, length - 1, axis) \in DataQubits(d)}
<1>1. PICK q \in starts : chain = {Along(q, i, axis) : i \in 0 .. length - 1}
      BY DEF Chains
<1>2. PICK k \in 1 .. d, l \in 1 .. d : q = QubitAt(k, l)
      BY QubitsAre
<1>3. ASSUME NEW n \in Int
      PROVE  Along(q, n, axis) = IF axis = 0 THEN QubitAt(k + n, l) ELSE QubitAt(k, l + n)
      BY <1>2 DEF Along, QubitAt
<1>4. ASSUME NEW i \in 0 .. length - 1 PROVE Along(q, i, axis) \in DataQubits(d)
      <2>1. Along(q, length - 1, axis) \in DataQubits(d)
            BY <1>1
      <2>2. CASE axis = 0
            <3>1. QubitAt(k + (length - 1), l) \in DataQubits(d)
                  BY <1>3, <2>1, <2>2, length - 1 \in Int
            <3>2. k + (length - 1) \in 1 .. d
                  BY <3>1, QubitsAre, k + (length - 1) \in Int
            <3>3. k + i \in 1 .. d
                  BY <3>2
            <3> QED BY <1>3, <2>2, <3>3, QubitsAre
      <2>3. CASE axis = 1
            <3>1. QubitAt(k, l + (length - 1)) \in DataQubits(d)
                  BY <1>3, <2>1, <2>3, length - 1 \in Int
            <3>2. l + (length - 1) \in 1 .. d
                  BY <3>1, QubitsAre, l + (length - 1) \in Int
            <3>3. l + i \in 1 .. d
                  BY <3>2
            <3> QED BY <1>3, <2>3, <3>3, QubitsAre
      <2> QED BY <2>2, <2>3
<1> QED BY <1>1, <1>4

LEMMA GrowsAPatch ==
    ASSUME NEW s, Patch(s), NEW length \in Nat \ {0}, NEW axis \in {0, 1}, NEW chain \in Chains(s.d, length, axis),
           NEW type \in {"X", "Z"}
    PROVE  Follow(s, GrowChain(s, chain, type))
<1>1. chain \subseteq DataQubits(s.d)
      BY ChainsAreInside DEF Patch, Sized
<1>2. 0 \in Rounds(s)
      BY DEF Patch, Sized, Rounds
<1>3. {Error(q, type, 0) : q \in chain} \in SUBSET Possible(s)
      BY <1>1, <1>2 DEF Possible
<1> QED BY <1>3, EditsArePatches DEF GrowChain

LEMMA GrownShowsTwo ==
    ASSUME NEW s, Patch(s), s.code = "rotated", s.rounds = 1, NEW type \in {"X", "Z"}, NEW g \in Grown(s, type)
    PROVE  Follow(s, g) /\ (s.d > 3 => Defects(g) = 2)
<1> DEFINE On(axis) == {GrowChain(s, chain, type) : chain \in Chains(s.d, ChainLength(s.d), axis)}
<1>1. ChainLength(s.d) \in Nat \ {0}
      BY DEF ChainLength, Patch, Sized
<1>2. \A axis \in {0, 1} : \A h \in On(axis) : Follow(s, h)
      BY <1>1, GrowsAPatch
<1>3. s.d > 3 => \A h \in On(IF type = "X" THEN 0 ELSE 1) : Defects(h) = 2
      <2>1. s.d \in Nat
            BY DEF Patch, Sized
      <2>2. CASE type = "X"
            <3>1. Shown(0) = type
                  BY <2>2 DEF Shown
            <3> QED BY <2>1, <2>2, <3>1, ChainShowsTwo
      <2>3. CASE type = "Z"
            <3>1. Shown(1) = type
                  BY <2>3 DEF Shown
            <3> QED BY <2>1, <2>3, <3>1, ChainShowsTwo
      <2> QED BY <2>2, <2>3
<1>4. g \in {h \in On(0) : Defects(h) = 2} \cup (IF \E h \in On(0) : Defects(h) # 2 THEN On(1) ELSE {})
      BY DEF Grown
<1> HIDE DEF On
<1>5. g \in On(0) \/ g \in On(1)
      BY <1>4
<1>6. Follow(s, g)
      BY <1>2, <1>5
<1>7. ASSUME s.d > 3 PROVE Defects(g) = 2
      BY <1>3, <1>4, <1>7
<1> QED BY <1>6, <1>7

-----------------------------------------------------------------------------
(* Every figure has a patch; the syndrome figure's is rotated and of one     *)
(* round, and only its text tells of a chain.                               *)
ClicksInv ==
    /\ Patch(session)
    /\ lattice = "syndrome" => session.code = "rotated" /\ session.rounds = 1
    /\ told # Absent => lattice = "syndrome"
    /\ ChainShowsEnds

(* A step that leaves the patch its size, and one that replaces it.          *)
LEMMA KeepsClicks ==
    ASSUME ClicksInv, lattice' = lattice, Follow(session, session'), told' \in {told, Absent}
    PROVE  ClicksInv'
<1>1. Patch(session') /\ session'.d = session.d /\ session'.code = session.code /\ session'.rounds = session.rounds
      BY DEF Follow, Size
<1> QED BY <1>1 DEF ClicksInv, ChainShowsEnds

LEMMA RebuildsClicks ==
    ASSUME ClicksInv, lattice' = lattice, told' = Absent,
           NEW d \in Nat \ {0, 1}, NEW code \in {"rotated", "xzzx"}, NEW rounds \in Nat \ {0},
           session' = NewSession(d, code, rounds), lattice = "syndrome" => code = "rotated" /\ rounds = 1
    PROVE  ClicksInv'
<1>1. Patch(session') /\ session'.code = code /\ session'.rounds = rounds
      BY NewIsPatch DEF Size
<1> QED BY <1>1 DEF ClicksInv, ChainShowsEnds

LEMMA TickClicks ==
    ASSUME ClicksInv, OpenerInv, Tick
    PROVE  ClicksInv'
<1>1. lattice' = lattice /\ told' = told
      BY DEF Tick, reader
<1>2. PICK o : Follows(o, session, pending) /\ Ticked(o)
      BY TickFollows
<1>3. Size(o.session) = Size(session) /\ InStep(o.session, o.pending)
      BY <1>2 DEF Follows
<1>4. Sized(o.session)
      BY <1>3 DEF ClicksInv, Patch, Sized, Size
<1>5. o.session.errors \subseteq Possible(o.session)
      <2>1. 0 \in Rounds(o.session)
            BY <1>4 DEF Sized, Rounds
      <2>2. Hits(o.session) \subseteq Possible(o.session)
            BY <2>1 DEF Hits, Possible, Reachable
      <2> QED BY <1>3, <2>2 DEF InStep, Agree
<1>6. Patch(o.session)
      BY <1>3, <1>4, <1>5 DEF Patch, InStep, Plain
<1>7. Follow(session, o.session) /\ Follow(session, ClearErrors(o.session))
      BY <1>3, <1>6, EditsArePatches DEF Follow
<1>8. Follow(session, session')
      BY <1>2, <1>7 DEF Ticked
<1> QED BY <1>1, <1>8, KeepsClicks

(* What the reader clicks on a patch.                                       *)
LEMMA EditClicks ==
    ASSUME ClicksInv, PickQubit \/ PickCheck \/ Run \/ SelectDecoder \/ Clear \/ LongChain \/ Scatter \/ PickSyndrome
    PROVE  ClicksInv'
<1>1. Patch(session) /\ Follow(session, session) /\ 0 \in Rounds(session)
      BY DEF ClicksInv, Follow, Patch, Sized, Rounds
<1>2. lattice' = lattice /\ told' \in {told, Absent}
      BY DEF PickQubit, PickCheck, Run, SelectDecoder, Clear, LongChain, Scatter, PickSyndrome, Touch
<1>3. \A q \in Reachable(DataQubits(session.d)), type \in {"X", "Z"}, t \in Rounds(session) :
          Error(q, type, t) \in Possible(session)
      BY DEF Reachable, Possible
<1>4. CASE PickQubit
      <2>1. \E e \in Possible(session) : session' = ToggleError(session, e)
            BY <1>3, <1>4 DEF PickQubit
      <2> QED BY <1>1, <1>2, <2>1, EditsArePatches, KeepsClicks
<1>5. CASE PickCheck
      <2>1. \E x \in Checks(session.d) \X Rounds(session) : session' = ToggleLie(session, x)
            BY <1>5 DEF PickCheck, Reachable
      <2> QED BY <1>1, <1>2, <2>1, EditsArePatches, KeepsClicks
<1>6. CASE Run \/ SelectDecoder
      <2>1. session' = session \/ \E by : session' = Decode(session, by)
            BY <1>6 DEF Run, SelectDecoder, RunsDecoder
      <2> QED BY <1>1, <1>2, <2>1, EditsArePatches, KeepsClicks
<1>7. CASE Clear
      BY <1>1, <1>2, <1>7, EditsArePatches, KeepsClicks DEF Clear
<1>8. CASE LongChain
      <2>1. (session.d + 1) \div 2 + 1 \in Nat \ {0}
            BY <1>1 DEF Patch, Sized
      <2>2. PICK axis \in {0, 1} : \E chain \in Chains(session.d, (session.d + 1) \div 2 + 1, axis) :
                session' = GrowChain(session, chain, "X")
            BY <1>8 DEF LongChain
      <2>3. Follow(session, session')
            BY <1>1, <2>1, <2>2, GrowsAPatch
      <2> QED BY <1>2, <2>3, KeepsClicks
<1>9. CASE Scatter
      <2>1. PICK E \in Scatters(session) : session' = WithErrors(session, E)
            BY <1>9 DEF Scatter
      <2>2. E \in SUBSET Possible(session)
            BY <1>1, <1>3 DEF Scatters, Hits
      <2> QED BY <1>1, <1>2, <2>1, <2>2, EditsArePatches, KeepsClicks
<1>10. CASE PickSyndrome
       <2>1. \/ \E e \in Possible(session) : session' = ToggleError(session, e)
             \/ \E x : session' = ToggleErasure(session, x)
             BY <1>1, <1>3, <1>10 DEF PickSyndrome
       <2> QED BY <1>1, <1>2, <2>1, EditsArePatches, KeepsClicks
<1> QED BY <1>4, <1>5, <1>6, <1>7, <1>8, <1>9, <1>10

(* Whatever chain is grown, of two defects: the text tells of them and one.  *)
LEMMA ChainClicks ==
    ASSUME ClicksInv, Chain
    PROVE  ClicksInv'
<1>1. lattice = "syndrome" /\ lattice' = lattice /\ told' = Defects(session') + 1
      BY DEF Chain, Touch
<1>2. Patch(session) /\ session.code = "rotated" /\ session.rounds = 1
      BY <1>1 DEF ClicksInv
<1>3. PICK type \in {"X", "Z"} : session' \in Grown(session, type)
      BY DEF Chain
<1>4. Follow(session, session') /\ (session.d > 3 => Defects(session') = 2)
      BY <1>2, <1>3, GrownShowsTwo
<1>5. Patch(session') /\ session'.d = session.d /\ session'.code = "rotated" /\ session'.rounds = 1
      BY <1>2, <1>4 DEF Follow, Size
<1>6. ChainShowsEnds'
      BY <1>1, <1>4, <1>5 DEF ChainShowsEnds
<1> QED BY <1>1, <1>5, <1>6 DEF ClicksInv

LEMMA NextClicks ==
    ASSUME ClicksInv, OpenerInv, [LatticeNext]_latticeVars
    PROVE  ClicksInv'
<1>1. Patch(session) /\ Follow(session, session)
      BY DEF ClicksInv, Follow
<1>2. CASE UNCHANGED latticeVars \/ Hover \/ Faded \/ Turn
      <2>1. lattice' = lattice /\ session' = session /\ told' = told
            BY <1>2 DEF latticeVars, Hover, Faded, Turn, reader
      <2> QED BY <1>1, <2>1, KeepsClicks
<1>3. CASE Rebuild
      <2>1. lattice' = lattice /\ told' = Absent
            BY <1>3 DEF Rebuild
      <2>2. PICK d \in Distances \cup {3}, code \in {"rotated", "xzzx"}, rounds \in RoundCounts \cup {1} :
                /\ session' = NewSession(d, code, rounds)
                /\ lattice = "syndrome" => code = "rotated" /\ rounds = 1
            BY <1>3 DEF Rebuild
      <2>3. d \in Nat \ {0, 1} /\ rounds \in Nat \ {0}
            BY PatchAssumption
      <2> QED BY <2>1, <2>2, <2>3, RebuildsClicks
<1>4. CASE BeatBegins
      <2>1. lattice' = lattice /\ told' = told
            BY <1>4 DEF BeatBegins, reader
      <2>2. 0 \in Rounds(session) /\ Middle(session) \in Rounds(session)
            <3>1. session.rounds \in Nat \ {0}
                  BY <1>1 DEF Patch, Sized
            <3>2. \A n \in Nat \ {0} : 0 \in 0 .. n - 1 /\ (IF n \div 2 > 0 THEN n \div 2 - 1 ELSE 0) \in 0 .. n - 1
                  OBVIOUS
            <3> QED BY <3>1, <3>2 DEF Middle, Rounds
      <2>3. CASE lattice = "anatomy"
            <3>1. PICK q \in Reachable(DataQubits(session.d)), type \in {"X", "Z"} :
                      session' = ToggleError(session, Error(q, type, 0))
                  BY <1>4, <2>3 DEF BeatBegins
            <3>2. Error(q, type, 0) \in Possible(session)
                  BY <2>2 DEF Reachable, Possible
            <3> QED BY <1>1, <2>1, <3>1, <3>2, EditsArePatches, KeepsClicks
      <2>4. CASE lattice = "spacetime"
            <3>1. PICK c \in Reachable(Checks(session.d)) : session' = ToggleLie(session, <<c, Middle(session)>>)
                  BY <1>4, <2>4 DEF BeatBegins
            <3>2. <<c, Middle(session)>> \in Checks(session.d) \X Rounds(session)
                  BY <2>2 DEF Reachable
            <3> QED BY <1>1, <2>1, <3>1, <3>2, EditsArePatches, KeepsClicks
      <2> QED BY <1>4, <2>3, <2>4 DEF BeatBegins
<1>5. CASE BeatGoesOn
      <2>1. lattice' = lattice /\ told' = told
            BY <1>5 DEF BeatGoesOn, reader
      <2> QED BY <1>1, <1>5, <2>1, EditsArePatches, KeepsClicks DEF BeatGoesOn
<1>6. CASE Resize
      <2>1. lattice' = lattice /\ told' = told /\ lattice = "opener"
            BY <1>6 DEF Resize, reader
      <2>2. told' = Absent
            BY <2>1 DEF ClicksInv
      <2>3. PICK d \in Distances : session' = NewSession(d, "rotated", 1)
            BY <1>6 DEF Resize
      <2>4. d \in Nat \ {0, 1} /\ 1 \in Nat \ {0}
            BY PatchAssumption
      <2> QED BY <2>1, <2>2, <2>3, <2>4, RebuildsClicks
<1> QED BY <1>2, <1>3, <1>4, <1>5, <1>6, EditClicks, ChainClicks, TickClicks DEF LatticeNext

LEMMA InitClicks ==
    ASSUME LatticeInit
    PROVE  ClicksInv
<1>1. PICK d \in Distances, r \in RoundCounts :
          session = NewSession(IF lattice = "spacetime" THEN 3 ELSE d, "rotated", IF lattice = "spacetime" THEN r ELSE 1)
      BY DEF LatticeInit
<1>2. (IF lattice = "spacetime" THEN 3 ELSE d) \in Nat \ {0, 1} /\ (IF lattice = "spacetime" THEN r ELSE 1) \in Nat \ {0}
      BY PatchAssumption
<1>3. Patch(session) /\ session.code = "rotated" /\ session.rounds = IF lattice = "spacetime" THEN r ELSE 1
      BY <1>1, <1>2, NewIsPatch DEF Size
<1>4. told = Absent
      BY DEF LatticeInit
<1> QED BY <1>3, <1>4 DEF ClicksInv, ChainShowsEnds

(* What every click shows, on a patch of any distance, either geometry and   *)
(* any number of rounds (the Session of engine.js under the figures of        *)
(* js/sections and the opener): a lie in its round and the next, an error in  *)
(* its own round on the checks around it, an erasure nothing; and a grown     *)
(* chain its two ends, where there is room (syndrome.js).                    *)
THEOREM ClicksAreShown == LatticeSpec => ClicksShow
<1>1. LatticeInit => OpenerInv /\ ClicksInv
      BY InitOpener, InitClicks
<1>2. OpenerInv /\ ClicksInv /\ [LatticeNext]_latticeVars => (OpenerInv /\ ClicksInv)'
      BY NextOpener, NextClicks
<1>3. ClicksInv /\ ClicksInv' =>
          /\ /\ session' # session
             /\ <<session.d, session.code, session.rounds>> = <<session'.d, session'.code, session'.rounds>>
             => EachMarkShows
          /\ ChainShowsEnds'
      BY MarksShow DEF ClicksInv, Size
<1> QED BY <1>1, <1>2, <1>3, PTL DEF LatticeSpec, ClicksShow

-----------------------------------------------------------------------------
(* The qubit that every pattern's twin differs in.                          *)
LEMMA LeastQubit == Min(Qubits) \in Qubits
<1> DEFINE less == {x \in Nat \X Nat : x[1] < x[2]}
<1>1. IsWellFoundedOn(less, Nat)
      BY NatLessThanWellFounded DEF OpToRel
<1>2. PICK n \in Qubits : \A m \in Qubits : <<m, n>> \notin less
      <2> HIDE DEF less
      <2> QED BY <1>1, WFMin, QubitsAssumption
<1>3. ASSUME NEW m \in Qubits PROVE n <= m
      <2>1. m \in Nat /\ n \in Nat /\ <<m, n>> \notin less
            BY <1>2, QubitsAssumption
      <2> QED BY <2>1
<1> QED BY <1>3 DEF Min

(* A flip of one qubit changes the parity.                                  *)
LEMMA FlipsParity ==
    ASSUME NEW f \in SUBSET Qubits, NEW q \in Qubits
    PROVE  /\ Toggled(f, q) \in SUBSET Qubits /\ Toggled(Toggled(f, q), q) = f
           /\ Parity(Toggled(f, q)) = 1 - Parity(f) /\ Parity(f) \in {0, 1}
<1>1. IsFiniteSet(f) /\ Cardinality(f) \in Nat
      BY QubitsAssumption, FS_Subset, FS_CardinalityType
<1>2. Toggled(f, q) \in SUBSET Qubits /\ Toggled(Toggled(f, q), q) = f
      BY DEF Toggled
<1>3. Parity(f) \in {0, 1}
      BY <1>1 DEF Parity
<1>4. CASE q \in f
      <2>1. Cardinality(f \ {q}) = Cardinality(f) - 1 /\ Cardinality(f \ {q}) \in Nat
            BY <1>1, <1>4, FS_RemoveElement, FS_CardinalityType
      <2>2. Cardinality(Toggled(f, q)) = Cardinality(f) - 1
            BY <1>4, <2>1 DEF Toggled
      <2> QED BY <1>1, <1>2, <1>3, <2>1, <2>2 DEF Parity
<1>5. CASE q \notin f
      <2>1. Cardinality(f \cup {q}) = Cardinality(f) + 1
            BY <1>1, <1>5, FS_AddElement
      <2>2. Cardinality(Toggled(f, q)) = Cardinality(f) + 1
            BY <1>5, <2>1 DEF Toggled
      <2> QED BY <1>1, <1>2, <1>3, <2>2 DEF Parity
<1> QED BY <1>4, <1>5

(* Half of all patterns have the parity of f: flipping one qubit takes them  *)
(* to the other half and back.                                              *)
LEMMA TwinsAreHalf ==
    ASSUME NEW f \in SUBSET Qubits
    PROVE  Cardinality(Siblings(f)) \in Nat /\ 2 * Cardinality(Siblings(f)) = 2 ^ Cardinality(Qubits)
<1> DEFINE A == Siblings(f)
           B == (SUBSET Qubits) \ A
<1>1. PICK q : q \in Qubits
      BY QubitsAssumption
<1>2. \A g \in SUBSET Qubits : g \in A <=> Parity(g) = Parity(f)
      BY DEF Siblings
<1>3. A \subseteq SUBSET Qubits
      BY DEF Siblings
<1> HIDE DEF A
<1>4. IsFiniteSet(SUBSET Qubits) /\ Cardinality(SUBSET Qubits) = 2 ^ Cardinality(Qubits)
      BY QubitsAssumption, FS_SUBSET
<1>5. IsFiniteSet(A) /\ Cardinality(A) \in Nat
      BY <1>3, <1>4, FS_Subset, FS_CardinalityType
<1>6. Cardinality(B) = Cardinality(SUBSET Qubits) - Cardinality(A)
      <2>1. (SUBSET Qubits) \cap A = A
            BY <1>3
      <2> QED BY <1>4, <2>1, FS_Difference
<1>7. Cardinality(B) = Cardinality(A)
      <2> DEFINE h == [g \in A |-> Toggled(g, q)]
      <2>1. ASSUME NEW g \in SUBSET Qubits
            PROVE  /\ Toggled(g, q) \in SUBSET Qubits /\ Toggled(Toggled(g, q), q) = g
                   /\ (Toggled(g, q) \in B <=> g \in A)
            <3>1. /\ Toggled(g, q) \in SUBSET Qubits /\ Toggled(Toggled(g, q), q) = g
                  /\ Parity(Toggled(g, q)) = 1 - Parity(g) /\ Parity(g) \in {0, 1} /\ Parity(f) \in {0, 1}
                  BY <1>1, FlipsParity
            <3>2. Toggled(g, q) \in A <=> Parity(Toggled(g, q)) = Parity(f)
                  BY <1>2, <3>1
            <3>3. g \in A <=> Parity(g) = Parity(f)
                  BY <1>2
            <3>4. Parity(Toggled(g, q)) = Parity(f) <=> Parity(g) # Parity(f)
                  BY <3>1
            <3> QED BY <3>1, <3>2, <3>3, <3>4
      <2>2. h \in [A -> B]
            BY <1>3, <2>1
      <2>3. ASSUME NEW g \in A, NEW k \in A, h[g] = h[k] PROVE g = k
            BY <1>3, <2>1, <2>3
      <2>4. ASSUME NEW b \in B PROVE \E g \in A : h[g] = b
            <3> DEFINE a == Toggled(b, q)
            <3>1. a \in SUBSET Qubits /\ Toggled(a, q) = b
                  BY <2>1
            <3>2. a \in A
                  BY <2>1, <3>1
            <3> QED BY <3>1, <3>2
      <2> HIDE DEF h, B
      <2>5. h \in Bijection(A, B)
            BY <2>2, <2>3, <2>4 DEF Bijection, Injection, Surjection, IsInjective
      <2>6. ExistsBijection(A, B)
            BY <2>5 DEF ExistsBijection
      <2> QED BY <1>5, <2>6, FS_Bijection
<1> HIDE DEF B
<1>8. Cardinality(SUBSET Qubits) \in Nat
      BY <1>4, FS_CardinalityType
<1> QED BY <1>4, <1>5, <1>6, <1>7, <1>8 DEF A

(* What the plaquette's figure shows of a pattern.                          *)
LEMMA PicturedIs ==
    ASSUME NEW f \in SUBSET Qubits, NEW shown, shown = Pictured(f)
    PROVE  /\ shown.marked = f
           /\ shown.fires <=> \E n \in 0..Cardinality(Qubits) : Cardinality(f) = 2 * n + 1
           /\ 2 * (shown.alternatives + 1) = 2 ^ Cardinality(Qubits)
<1>1. /\ shown.marked = f /\ shown.alternatives = Cardinality(Siblings(f)) - 1
      /\ shown.fires <=> Parity(f) = 1
      BY DEF Pictured
<1>2. /\ IsFiniteSet(f) /\ Cardinality(f) \in Nat /\ Cardinality(Qubits) \in Nat
      /\ Cardinality(f) <= Cardinality(Qubits)
      BY QubitsAssumption, FS_Subset, FS_CardinalityType
<1>3. ASSUME NEW c \in Nat, NEW m \in Nat, c <= m
      PROVE  c % 2 = 1 <=> \E n \in 0..m : c = 2 * n + 1
      <2>1. ASSUME c % 2 = 1 PROVE \E n \in 0..m : c = 2 * n + 1
            <3>1. c = 2 * (c \div 2) + 1 /\ c \div 2 \in 0..m
                  BY <1>3, <2>1
            <3> QED BY <3>1
      <2>2. ASSUME NEW n \in 0..m, c = 2 * n + 1 PROVE c % 2 = 1
            BY <2>2
      <2> QED BY <2>1, <2>2
<1>4. shown.fires <=> \E n \in 0..Cardinality(Qubits) : Cardinality(f) = 2 * n + 1
      BY <1>1, <1>2, <1>3 DEF Parity
<1>5. 2 * (shown.alternatives + 1) = 2 ^ Cardinality(Qubits)
      <2>1. Cardinality(Siblings(f)) \in Nat /\ 2 * Cardinality(Siblings(f)) = 2 ^ Cardinality(Qubits)
            BY TwinsAreHalf
      <2> QED BY <1>1, <2>1
<1> QED BY <1>1, <1>4, <1>5

-----------------------------------------------------------------------------
(* What was started follows from where the boot stands and what it said.     *)
Started ==
    /\ boot \in {"script", "await", "booted", "stopped"} /\ message \in {"none", "workers", "engine"}
    /\ boot = "script" => ready = {}
    /\ boot = "await" =>
         /\ message # "engine"
         /\ ready = Parts \ (IF message = "none" THEN {"lattices"} ELSE {"monte carlo", "lattices"})
    /\ boot = "booted" => ready = (IF message = "none" THEN Parts ELSE Parts \ {"monte carlo"}) /\ message # "engine"
    /\ boot = "stopped" => message = "engine" /\ {"estimator", "coherent", "editor"} \subseteq ready
    /\ "rail" \in ready <=> boot # "script"

ShellInv ==
    /\ Started
    /\ boot # "script" /\ ~ticking => current = MarkedIn(read)
    /\ flipped \in SUBSET Qubits
    /\ boot # "script" => plaquette = Pictured(flipped)

LEMMA ShellStarts == ShellInit => ShellInv
BY DEF ShellInit, ShellInv, Started

LEMMA ShellSteps == ShellInv /\ [ShellNext]_shellVars => ShellInv'
<1> SUFFICES ASSUME ShellInv, [ShellNext]_shellVars PROVE ShellInv'
    OBVIOUS
<1> USE DEF ShellInv
<1>1. CASE Boot
      <2>1. Started'
            <3>1. PICK supported \in BOOLEAN : Pools(supported)
                  BY <1>1 DEF Boot
            <3>2. /\ boot' = "await" /\ message' = (IF supported THEN "none" ELSE "workers")
                  /\ ready' = Parts \ (IF supported THEN {"lattices"} ELSE {"monte carlo", "lattices"})
                  BY <3>1 DEF Pools
            <3>3. message' # "engine" /\ message' \in {"none", "workers", "engine"}
                  BY <3>2
            <3>4. ready' = Parts \ (IF message' = "none" THEN {"lattices"} ELSE {"monte carlo", "lattices"})
                  <4>1. CASE supported
                        BY <3>2, <4>1
                  <4>2. CASE ~supported
                        BY <3>2, <4>2
                  <4> QED BY <4>1, <4>2
            <3>5. "rail" \in ready'
                  BY <3>4 DEF Parts
            <3> QED BY <3>2, <3>3, <3>4, <3>5 DEF Started
      <2>2. (~ticking => current = MarkedIn(read))'
            <3>1. Update /\ LaidOut
                  BY <1>1 DEF Boot
            <3>2. current' = MarkedIn(layout) /\ read' = layout /\ height' = height
                  BY <3>1 DEF Update, LaidOut
            <3>3. ~ticking' => scroll' = scroll
                  BY <3>1 DEF LaidOut
            <3> QED BY <3>2, <3>3 DEF MarkedIn
      <2>3. (flipped \in SUBSET Qubits /\ plaquette = Pictured(flipped))'
            <3>1. Render({Min(Qubits)})
                  BY <1>1 DEF Boot
            <3>2. flipped' = {Min(Qubits)} /\ plaquette' = Pictured({Min(Qubits)})
                  BY <3>1 DEF Render
            <3>3. Pictured(flipped)' = Pictured({Min(Qubits)})
                  BY <3>2 DEF Pictured, Siblings
            <3> QED BY <3>2, <3>3, LeastQubit
      <2> QED BY <2>1, <2>2, <2>3
<1>2. ASSUME LaidOut, UNCHANGED <<current, read>>
      PROVE  (~ticking => current = MarkedIn(read)) => (~ticking => current = MarkedIn(read))'
      <2>1. height' = height /\ (~ticking' => ~ticking /\ scroll' = scroll)
            BY <1>2 DEF LaidOut
      <2> QED BY <1>2, <2>1 DEF MarkedIn
<1>3. CASE Arrives
      <2>1. Started'
            BY <1>3 DEF Arrives, Started, Parts
      <2>2. Pictured(flipped)' = Pictured(flipped) /\ boot # "script"
            BY <1>3 DEF Arrives, Pictured, Siblings
      <2>3. LaidOut /\ UNCHANGED <<current, read, flipped, plaquette>>
            BY <1>3 DEF Arrives
      <2> QED BY <1>2, <2>1, <2>2, <2>3
<1>4. CASE Fills
      <2>1. Pictured(flipped)' = Pictured(flipped) /\ boot # "script"
            BY <1>4 DEF Fills, Pictured, Siblings
      <2>2. LaidOut /\ UNCHANGED <<boot, ready, message, current, read, flipped, plaquette>>
            BY <1>4 DEF Fills
      <2> QED BY <1>2, <2>1, <2>2 DEF Started
<1>5. CASE Scrolls
      <2>1. Pictured(flipped)' = Pictured(flipped)
            BY <1>5 DEF Scrolls, Pictured, Siblings
      <2>2. ticking' = TRUE /\ UNCHANGED <<boot, ready, message, flipped, plaquette>>
            BY <1>5 DEF Scrolls
      <2> QED BY <2>1, <2>2 DEF Started
<1>6. CASE Frame
      <2>1. /\ current' = MarkedIn(layout) /\ read' = layout
            /\ UNCHANGED <<boot, ready, message, scroll, height, flipped, plaquette>>
            BY <1>6 DEF Frame, Update
      <2>2. (current = MarkedIn(read))' /\ Pictured(flipped)' = Pictured(flipped)
            BY <2>1 DEF MarkedIn, Pictured, Siblings
      <2> QED BY <2>1, <2>2 DEF Started
<1>7. CASE Plaquette
      <2>1. PICK g \in SUBSET Qubits : Render(g)
            <3>1. ASSUME NEW q \in Qubits PROVE (IF q \in flipped THEN flipped \ {q} ELSE flipped \cup {q}) \in SUBSET Qubits
                  OBVIOUS
            <3>2. Siblings(flipped) \subseteq SUBSET Qubits
                  BY DEF Siblings
            <3> QED BY <1>7, <3>1, <3>2 DEF Plaquette
      <2>2. flipped' = g /\ plaquette' = Pictured(g) /\ Pictured(flipped)' = Pictured(g)
            BY <2>1 DEF Render, Pictured, Siblings
      <2>3. LaidOut /\ UNCHANGED <<boot, ready, message, current, read>> /\ "plaquette" \in ready
            BY <1>7 DEF Plaquette
      <2> QED BY <1>2, <2>2, <2>3 DEF Started
<1>8. CASE UNCHANGED shellVars
      <2>1. /\ Pictured(flipped)' = Pictured(flipped)
            /\ UNCHANGED <<boot, ready, message, scroll, height, current, read, ticking, flipped, plaquette>>
            BY <1>8 DEF shellVars, Pictured, Siblings
      <2>2. MarkedIn(read)' = MarkedIn(read)
            BY <2>1 DEF MarkedIn
      <2> QED BY <2>1, <2>2 DEF Started
<1> QED BY <1>1, <1>3, <1>4, <1>5, <1>6, <1>7, <1>8 DEF ShellNext

(* ShellInStep for any layouts, heights and qubits: in every order of boot,   *)
(* scrolls, frames and clicks the page says what it could not start, and the  *)
(* plaquette fires and counts its twins (main.js, parity.js); and however the  *)
(* page is laid out anew at any time, no scroll or resize that one frame      *)
(* answers is lost (nav.js).  That update() last read the present layout is   *)
(* not claimed: nothing tells the rail of a new one.                         *)
THEOREM ShellSaysWhatIs == ShellSpec => []ShellInStep
<1>1. ShellInv => ShellInStep
      <2> SUFFICES ASSUME ShellInv PROVE ShellInStep
          OBVIOUS
      <2>1. boot \in {"booted", "stopped"} =>
              /\ message = "none" => ready = Parts
              /\ message = "workers" => ready = Parts \ {"monte carlo"}
              /\ {"estimator", "coherent", "editor"} \subseteq ready
            BY DEF ShellInv, Started, Parts
      <2>2. "plaquette" \in ready =>
               /\ plaquette.marked = flipped
               /\ plaquette.fires <=> \E n \in 0..Cardinality(Qubits) : Cardinality(flipped) = 2 * n + 1
               /\ 2 * (plaquette.alternatives + 1) = 2 ^ Cardinality(Qubits)
            <3> SUFFICES ASSUME "plaquette" \in ready
                         PROVE  /\ plaquette.marked = flipped
                                /\ plaquette.fires <=> \E n \in 0..Cardinality(Qubits) : Cardinality(flipped) = 2 * n + 1
                                /\ 2 * (plaquette.alternatives + 1) = 2 ^ Cardinality(Qubits)
                OBVIOUS
            <3>1. boot # "script" /\ flipped \in SUBSET Qubits /\ plaquette = Pictured(flipped)
                  BY DEF ShellInv, Started
            <3> QED BY <3>1, PicturedIs
      <2>3. RailFollowsReader
            BY DEF ShellInv, Started, RailFollowsReader
      <2> QED BY <2>1, <2>2, <2>3 DEF ShellInStep
<1> QED BY <1>1, ShellStarts, ShellSteps, PTL DEF ShellSpec
=============================================================================

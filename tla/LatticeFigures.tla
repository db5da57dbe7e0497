--------------------------- MODULE LatticeFigures ---------------------------
(***************************************************************************)
(* The page's lattices: the opener (js/opener.js) and the figures of the     *)
(* anatomy, syndrome, decode and spacetime sections (js/sections/*.js), each *)
(* with a patch of the engine on the page's own thread (class Session of     *)
(* js/engine.js over src/wasm_session.rs).                                  *)
(*                                                                         *)
(* The reader's clicks, the select controls, a heartbeat that plays until    *)
(* the reader comes (js/ambient.js) and the opener's clock all change the    *)
(* patch.  Figures share nothing: a behaviour is that of the one chosen in   *)
(* the beginning.  The patch is the code's own: its qubits, its checks and    *)
(* what each check sees.  What a decoder answers is abstract: a correction is *)
(* the marks it was computed for and the decoder, and it may fail.           *)
(***************************************************************************)
EXTENDS Integers, Sequences, FiniteSets, SequencesExt

CONSTANTS
    LatticeFigure,   \* the figures to run
    Distances,       \* the distances that can be selected
    RoundCounts,     \* the numbers of rounds of the spacetime figure
    Decoders,        \* the decoders that can be selected
    MaxPending,      \* the opener's MAX_PENDING
    Noise,           \* bound: the Paulis that hit the opener
    Reach,           \* bound: the coordinates of what is clicked or hit by noise
    MaxMarks         \* bound: the marks on a patch that is clicked on

(* The opener's noise is Pauli (pickPauli).                                 *)
ASSUME NoiseAssumption == Noise \subseteq {"X", "Y", "Z"}

(* A patch has more than one qubit, and is measured at least once.          *)
ASSUME PatchAssumption == Distances \subseteq Nat \ {0, 1} /\ RoundCounts \subseteq Nat \ {0}

VARIABLES
    lattice,    \* the figure
    session,    \* its patch
    decoder,    \* the decoder that is selected
    decoded,    \* the figure's flag: it shows what a decoder answered
    verdict,    \* "idle", "ok" or "fail"
    told,       \* the defects its text tells of, of the chain grown last, or Absent
    beat,       \* the step of the heartbeat's act that comes next, or "rest"
    theirs,     \* the reader has touched the figure
    hover,      \* the pointer is on an element
    swept,      \* history: a heartbeat's act went on after the reader came
    pending,    \* opener: the errors since the last round, as drawn
    lit,        \* opener: the checks drawn as fired
    drawn,      \* opener: the distance of the patch whose round is fading, or Absent
    running     \* opener: on screen, the clock runs

latticeVars == <<lattice, session, decoder, decoded, verdict, told, beat, theirs, hover, swept, pending, lit, drawn, running>>

reader == <<decoder, decoded, verdict, told>>
heart  == <<beat, theirs, hover, swept>>
opener == <<pending, lit, drawn, running>>

Absent == 0
Toggled(S, x) == IF x \in S THEN S \ {x} ELSE S \cup {x}
Odd(S) == Cardinality(S) % 2 = 1

-----------------------------------------------------------------------------
(***************************************************************************)
(* The patch: qubits at odd coordinates, checks at even ones.               *)
(***************************************************************************)
DataQubits(d) == LET odd == {2 * i - 1 : i \in 1 .. d} IN odd \X odd

Evens(lo, hi) == {2 * i : i \in lo .. hi}
ZLike(c) == (c[1] + c[2]) % 4 = 0
Checks(d) ==
    {c \in Evens(1, d - 1) \X Evens(0, d) : ZLike(c)} \cup {c \in Evens(0, d) \X Evens(1, d - 1) : ~ZLike(c)}

Touches(c, q) == c[1] - q[1] \in {-1, 1} /\ c[2] - q[2] \in {-1, 1}

(* The error that a check sees on a qubit it touches: a Z check the X errors *)
(* and an X check the Z errors; an XZZX check one kind on each diagonal.     *)
Sees(s, c, q) ==
    IF s.code = "rotated" THEN IF ZLike(c) THEN "X" ELSE "Z"
    ELSE IF c[1] - q[1] = c[2] - q[2] THEN "Z" ELSE "X"

Rounds(s) == 0 .. s.rounds - 1

(* Mutant of Fires: an error is seen in its own round only.                 *)
FiresOnce(s, c, t) ==
    Odd({e \in s.errors : e.t = t /\ Touches(c, e.q) /\ e.type = Sees(s, c, e.q)}) # (<<c, t>> \in s.lies)

(* Errors stay from their round on; a readout lies in its round only.       *)
Fires(s, c, t) ==
    Odd({e \in s.errors : e.t <= t /\ Touches(c, e.q) /\ e.type = Sees(s, c, e.q)}) # (<<c, t>> \in s.lies)

(* Detection events: a check that does not read as it did a round before.   *)
DetectionEvents(s) ==
    {x \in Checks(s.d) \X Rounds(s) :
        Fires(s, x[1], x[2]) # (x[2] > 0 /\ Fires(s, x[1], x[2] - 1))}

-----------------------------------------------------------------------------
(***************************************************************************)
(* Session.                                                                *)
(***************************************************************************)
NewSession(d, code, rounds) ==
    [d |-> d, code |-> code, rounds |-> rounds, errors |-> {}, lies |-> {}, erased |-> {}, correction |-> <<>>]

Error(q, type, t) == [q |-> q, type |-> type, t |-> t]
Marks(s) == <<s.errors, s.lies, s.erased>>

ToggleError(s, e)   == [s EXCEPT !.errors = Toggled(@, e), !.correction = <<>>]
ToggleErasure(s, x) == [s EXCEPT !.erased = Toggled(@, x), !.correction = <<>>]
ToggleLie(s, x)     == [s EXCEPT !.lies = Toggled(@, x), !.correction = <<>>]
ClearErrors(s)      == NewSession(s.d, s.code, s.rounds)
Decode(s, by)       == [s EXCEPT !.correction = <<Marks(s), by>>]

(***************************************************************************)
(* Patterns: growChain lays down a straight run, away from both edges along *)
(* its axis if it can; scatter hits qubits at random.                       *)
(***************************************************************************)
Along(q, k, axis) == IF axis = 0 THEN <<q[1] + 2 * k, q[2]>> ELSE <<q[1], q[2] + 2 * k>>

Chains(d, length, axis) ==
    LET starts   == {q \in DataQubits(d) : Along(q, length - 1, axis) \in DataQubits(d)}
        interior == {q \in starts : {Along(q, -1, axis), Along(q, length, axis)} \subseteq DataQubits(d)}
    IN  {{Along(q, i, axis) : i \in 0 .. length - 1} : q \in IF interior # {} THEN interior ELSE starts}

WithErrors(s, E) == [ClearErrors(s) EXCEPT !.errors = E]
GrowChain(s, chain, type) == WithErrors(s, {Error(q, type, 0) : q \in chain})

Reachable(S) == {x \in S : x[1] <= Reach /\ x[2] <= Reach}
Hits(s) == {Error(q, type, 0) : q \in Reachable(DataQubits(s.d)), type \in {"X", "Z"}}
Scatters(s) == {E \in SUBSET Hits(s) : Cardinality(E) <= MaxMarks}

Room == Cardinality(session.errors) + Cardinality(session.lies) + Cardinality(session.erased) < MaxMarks

-----------------------------------------------------------------------------
LatticeInit ==
    /\ lattice \in LatticeFigure
    /\ \E d \in Distances, r \in RoundCounts :
          session = NewSession(IF lattice = "spacetime" THEN 3 ELSE d, "rotated", IF lattice = "spacetime" THEN r ELSE 1)
    /\ decoder \in Decoders
    /\ decoded = FALSE /\ verdict = "idle" /\ told = Absent
    /\ beat = "rest" /\ theirs = FALSE /\ hover = FALSE /\ swept = FALSE
    /\ pending = <<>> /\ lit = {} /\ drawn = Absent /\ running = (lattice = "opener")

(* A click or a key on the lattice, or a control: the heartbeat stops.       *)
Touch == theirs' = TRUE /\ UNCHANGED <<lattice, beat, hover, swept, pending, lit, drawn, running>>

Undecided == decoded' = FALSE /\ verdict' = "idle"

(* The decode and spacetime figures: a qubit is clicked.                     *)
PickQubit ==
    /\ lattice \in {"decode", "spacetime"}
    /\ \E q \in Reachable(DataQubits(session.d)), type \in {"X", "Z"}, t \in Rounds(session) :
          /\ Room \/ Error(q, type, t) \in session.errors
          /\ session' = ToggleError(session, Error(q, type, t))
    /\ Undecided
    /\ UNCHANGED <<decoder, told>>
    /\ Touch

PickCheck ==
    /\ lattice = "spacetime"
    /\ \E c \in Reachable(Checks(session.d)), t \in Rounds(session) :
          /\ Room \/ <<c, t>> \in session.lies
          /\ session' = ToggleLie(session, <<c, t>>)
    /\ Undecided
    /\ UNCHANGED <<decoder, told>>
    /\ Touch

Nothing(s) == IF lattice = "decode" THEN s.errors = {} ELSE DetectionEvents(s) = {}

RunsDecoder(by) ==
    IF Nothing(session) THEN verdict' = "idle" /\ UNCHANGED <<session, decoded>>
    ELSE session' = Decode(session, by) /\ decoded' = TRUE /\ verdict' \in {"ok", "fail"}

Run ==
    /\ lattice \in {"decode", "spacetime"}
    /\ RunsDecoder(decoder)
    /\ UNCHANGED <<decoder, told>>
    /\ Touch

(* Mutant of SelectDecoder: the answer on show stays.                       *)
SelectDecoderOnly ==
    /\ lattice \in {"decode", "spacetime"}
    /\ decoder' \in Decoders \ {decoder}
    /\ UNCHANGED <<session, decoded, verdict, told>>
    /\ Touch

(* Another decoder is selected: it runs if one has.                         *)
SelectDecoder ==
    /\ lattice \in {"decode", "spacetime"}
    /\ decoder' \in Decoders \ {decoder}
    /\ IF decoded THEN RunsDecoder(decoder') ELSE UNCHANGED <<session, decoded, verdict>>
    /\ UNCHANGED told
    /\ Touch

Clear ==
    /\ lattice \in {"decode", "spacetime", "syndrome"}
    /\ session' = ClearErrors(session)
    /\ Undecided
    /\ told' = Absent
    /\ UNCHANGED decoder
    /\ Touch

(* Half the patch and one more.                                            *)
LongChain ==
    /\ lattice = "decode"
    /\ \E axis \in {0, 1} : \E chain \in Chains(session.d, (session.d + 1) \div 2 + 1, axis) :
          session' = GrowChain(session, chain, "X")
    /\ Undecided
    /\ UNCHANGED <<decoder, told>>
    /\ Touch

Scatter ==
    /\ lattice \in {"decode", "syndrome"}
    /\ \E E \in Scatters(session) : session' = WithErrors(session, E)
    /\ Undecided
    /\ told' = Absent
    /\ UNCHANGED decoder
    /\ Touch

(* The syndrome figure: errors, erasures, and a chain that tries the first   *)
(* axis, and the second if that does not show two defects.                  *)
PickSyndrome ==
    /\ lattice = "syndrome"
    /\ \E q \in Reachable(DataQubits(session.d)) :
          \/ \E type \in {"X", "Z"} :
                (Room \/ Error(q, type, 0) \in session.errors) /\ session' = ToggleError(session, Error(q, type, 0))
          \/ (Room \/ <<q, 0>> \in session.erased) /\ session' = ToggleErasure(session, <<q, 0>>)
    /\ told' = Absent
    /\ UNCHANGED <<decoder, decoded, verdict>>
    /\ Touch

Defects(s) == Cardinality(DetectionEvents(s))
ChainLength(d) == IF d > 4 THEN d - 2 ELSE 2

Grown(s, type) ==
    LET On(axis) == {GrowChain(s, chain, type) : chain \in Chains(s.d, ChainLength(s.d), axis)}
    IN  {g \in On(0) : Defects(g) = 2} \cup (IF \E g \in On(0) : Defects(g) # 2 THEN On(1) ELSE {})

Chain ==
    /\ lattice = "syndrome"
    /\ \E type \in {"X", "Z"} : session' \in Grown(session, type)
    /\ told' = Defects(session') + 1
    /\ UNCHANGED <<decoder, decoded, verdict>>
    /\ Touch

(* Another distance, geometry or number of rounds: a new patch.             *)
Rebuild ==
    /\ \/ lattice \in {"decode", "anatomy"} /\ \E d \in Distances, code \in {"rotated", "xzzx"} :
            session' = NewSession(d, code, 1)
       \/ lattice = "syndrome" /\ \E d \in Distances : session' = NewSession(d, "rotated", 1)
       \/ lattice = "spacetime" /\ \E r \in RoundCounts : session' = NewSession(3, "rotated", r)
    /\ Undecided
    /\ told' = Absent
    /\ hover' = FALSE
    /\ theirs' = TRUE
    /\ UNCHANGED <<lattice, decoder, beat, swept, pending, lit, drawn, running>>

-----------------------------------------------------------------------------
(***************************************************************************)
(* The heartbeats of the anatomy and spacetime figures.  An act is steps     *)
(* with waits between them; a touch or a pointer on an element keeps the     *)
(* next act from beginning and does not end the one in progress.  (The       *)
(* spacetime figure's first act only draws.)                               *)
(***************************************************************************)
Hover ==
    /\ lattice = "anatomy"
    /\ hover' = ~hover
    /\ UNCHANGED <<lattice, session, beat, theirs, swept>> /\ UNCHANGED reader /\ UNCHANGED opener

Middle(s) == IF s.rounds \div 2 > 0 THEN s.rounds \div 2 - 1 ELSE 0

BeatBegins ==
    /\ beat = "rest" /\ ~theirs /\ ~hover
    /\ \/ /\ lattice = "anatomy"
          /\ \E q \in Reachable(DataQubits(session.d)), type \in {"X", "Z"} :
                session' = ToggleError(session, Error(q, type, 0))
          /\ beat' = "decode"
       \/ /\ lattice = "spacetime" /\ DetectionEvents(session) = {}
          /\ \E c \in Reachable(Checks(session.d)) :
                session' = ToggleLie(session, <<c, Middle(session)>>)
          /\ beat' = "clear"
    /\ UNCHANGED <<lattice, theirs, hover, swept>> /\ UNCHANGED reader /\ UNCHANGED opener

BeatGoesOn ==
    /\ beat # "rest"
    /\ \/ beat = "decode" /\ session' = Decode(session, "mwpm") /\ beat' = "clear"
       \/ beat = "clear" /\ session' = ClearErrors(session) /\ beat' = "rest"
    /\ swept' = (swept \/ theirs)
    /\ UNCHANGED <<lattice, theirs, hover>> /\ UNCHANGED reader /\ UNCHANGED opener

-----------------------------------------------------------------------------
(***************************************************************************)
(* The opener: noise comes with the clock's ticks, and a round decodes what  *)
(* came since the last.  An error is drawn as the Pauli that hit.           *)
(***************************************************************************)
ErrorsOf(hit) == {Error(hit[1], type, 0) : type \in IF hit[2] = "Y" THEN {"X", "Z"} ELSE {hit[2]}}
HitBy(s, hit) == [s EXCEPT !.errors = (@ \ ErrorsOf(hit)) \cup (ErrorsOf(hit) \ @), !.correction = <<>>]

(* Mutant of Inject: an error that is not drawn any more still hits.        *)
InjectAlways(o, hit) ==
    [session |-> HitBy(o.session, hit),
     pending |-> IF Len(o.pending) >= MaxPending THEN o.pending ELSE Append(o.pending, hit)]

Inject(o, hit) ==
    IF Len(o.pending) >= MaxPending THEN o
    ELSE [session |-> HitBy(o.session, hit), pending |-> Append(o.pending, hit)]

(* A tick: as many errors as come at once (bound: two), then what the checks *)
(* say, if any came; then a round, if its time has come.                    *)
Tick ==
    /\ lattice = "opener" /\ running
    /\ \E hits \in UNION {[1 .. n -> Reachable(DataQubits(session.d)) \X Noise] : n \in 0 .. 2} :
          LET o     == FoldLeft(Inject, [session |-> session, pending |-> pending], <<>> \o hits)
              fired == {x[1] : x \in DetectionEvents(o.session)}
          IN  \/ /\ session' = o.session /\ pending' = o.pending
                 /\ lit' = IF o.pending # pending THEN fired ELSE lit
                 /\ UNCHANGED drawn
              \/ /\ o.pending # <<>>
                 /\ session' = ClearErrors(o.session) /\ pending' = <<>> /\ lit' = {}
                 /\ drawn' = session.d
    /\ UNCHANGED <<lattice, running>> /\ UNCHANGED reader /\ UNCHANGED heart

Faded ==
    /\ drawn # Absent
    /\ drawn' = Absent
    /\ UNCHANGED <<lattice, session, pending, lit, running>> /\ UNCHANGED reader /\ UNCHANGED heart

Turn ==
    /\ lattice = "opener"
    /\ running' = ~running
    /\ UNCHANGED <<lattice, session, pending, lit, drawn>> /\ UNCHANGED reader /\ UNCHANGED heart

(* The window is resized so that another distance fits.                     *)
Resize ==
    /\ lattice = "opener"
    /\ \E d \in Distances \ {session.d} : session' = NewSession(d, "rotated", 1)
    /\ pending' = <<>> /\ lit' = {} /\ drawn' = Absent
    /\ UNCHANGED <<lattice, running>> /\ UNCHANGED reader /\ UNCHANGED heart

-----------------------------------------------------------------------------
LatticeNext ==
    \/ PickQubit
    \/ PickCheck
    \/ Run
    \/ SelectDecoder
    \/ Clear
    \/ LongChain
    \/ Scatter
    \/ PickSyndrome
    \/ Chain
    \/ Rebuild
    \/ Hover
    \/ BeatBegins
    \/ BeatGoesOn
    \/ Tick
    \/ Faded
    \/ Turn
    \/ Resize

LatticeSpec == LatticeInit /\ [][LatticeNext]_latticeVars

-----------------------------------------------------------------------------
(* A verdict on show is that of the selected decoder on the errors that are  *)
(* there now, whatever was clicked, selected or rebuilt in between, unless   *)
(* a heartbeat's act went on after the reader came.                        *)
VerdictIsCurrent ==
    verdict # "idle" /\ ~swept => decoded /\ session.correction = <<Marks(session), decoder>>

(* What a click shows: a lying readout disagrees for one round, so two       *)
(* events stack on its check, but one in the last round; an error flips its  *)
(* checks in its own round and leaves them so; an erasure moves no check.   *)
Between(A, B) == (A \ B) \cup (B \ A)

EachMarkShows ==
    LET shown  == Between(DetectionEvents(session), DetectionEvents(session'))
        errors == Between(session.errors, session'.errors)
        lies   == Between(session.lies, session'.lies)
        lost   == Between(session.erased, session'.erased)
    IN  /\ \A x \in lies : lies = {x} /\ errors = {} =>
              shown = {<<x[1], t>> : t \in {x[2], x[2] + 1} \cap Rounds(session)}
        /\ \A e \in errors : errors = {e} /\ lies = {} =>
              shown # {} /\ \A x \in shown : x[2] = e.t /\ Touches(x[1], e.q)
        /\ errors = {} /\ lies = {} => shown = {}

(* The opener draws the errors that are on its patch, two on one qubit as    *)
(* their product, and the checks that they fire; what fades is of the patch  *)
(* it is drawn on: through full, resized and hidden patches.               *)
OpenerInStep ==
    lattice = "opener" =>
        /\ session.errors = {e \in Hits(session) : Odd({i \in DOMAIN pending : e \in ErrorsOf(pending[i])})}
        /\ lit = {x[1] : x \in DetectionEvents(session)}
        /\ drawn \in {Absent, session.d}

(* A grown chain shows both its ends and nothing between, whatever its kind  *)
(* and place ("exactly two defects appear"), where the patch has room for an *)
(* interior: not at distance three.                                        *)
ChainShowsEnds == told # Absent /\ session.d > 3 => told = 3

ClicksShow ==
    [][/\ /\ session' # session
          /\ <<session.d, session.code, session.rounds>> = <<session'.d, session'.code, session'.rounds>>
          => EachMarkShows
       /\ ChainShowsEnds']_latticeVars
=============================================================================

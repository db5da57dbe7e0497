----------------------------- MODULE PageShell -----------------------------
(***************************************************************************)
(* What holds the website's page together (js/main.js, js/nav.js) and its     *)
(* one figure without an engine (js/sections/parity.js): the order in which   *)
(* the page starts its parts and what it says of those it cannot start, the   *)
(* rail that marks the section being read, and the single plaquette.          *)
(***************************************************************************)
EXTENDS Integers, FiniteSets, FiniteSetsExt

CONSTANTS
    Layouts,    \* ways the page is laid out: [tops, end], the sections' tops
                \* in document order and the document's height
    Heights,    \* the heights the window may have
    Qubits      \* the plaquette's qubits

ASSUME QubitsAssumption == Qubits # {} /\ Qubits \subseteq Nat /\ IsFiniteSet(Qubits)

VARIABLES
    boot,      \* of the boot: "script", "await", "booted" or "stopped"
    ready,      \* the kinds of parts that were started
    message,    \* the boot error shown: "none", "workers" or "engine"
    layout,     \* how the page is laid out
    scroll,     \* where the page is scrolled to
    height,     \* the window's height
    current,    \* the section the rail marks, 0 before the first
    read,       \* auxiliary: the layout update() last read
    ticking,    \* an animation frame was asked for
    flipped,    \* the plaquette's qubits with an error
    plaquette   \* what its figure shows: [marked, fires, alternatives]

shellVars == <<boot, ready, message, layout, scroll, height, current, read, ticking, flipped, plaquette>>

-----------------------------------------------------------------------------
(***************************************************************************)
(* The layout.  A figure that is filled, a text that wraps otherwise or the  *)
(* boot error, shown above every section, lays the page out anew.  The rail    *)
(* listens for scrolls and resizes alone, so it hears of that only where the   *)
(* page has become too short for its place and the browser scrolls it.        *)
(***************************************************************************)
Flows(h) == layout' \in Layouts /\ scroll' = Min({scroll, layout'.end - h})

LaidOut == Flows(height) /\ UNCHANGED height /\ ticking' = (ticking \/ scroll' # scroll)

(* A section fills its host, when it is started or when its results come.   *)
Fills ==
    /\ boot # "script"
    /\ LaidOut
    /\ UNCHANGED <<boot, ready, message, current, read, flipped, plaquette>>

-----------------------------------------------------------------------------
(***************************************************************************)
(* The plaquette: a measurement gives the parity of four qubits.            *)
(***************************************************************************)
Parity(f) == Cardinality(f) % 2

Siblings(f) == {g \in SUBSET Qubits : Parity(g) = Parity(f)}

Blank == [marked |-> {}, fires |-> FALSE, alternatives |-> 0]
Pictured(f) == [marked |-> f, fires |-> Parity(f) = 1, alternatives |-> Cardinality(Siblings(f)) - 1]

Render(f) == flipped' = f /\ plaquette' = Pictured(f)

Plaquette ==
    /\ "plaquette" \in ready
    /\ \/ \E q \in Qubits : Render(IF q \in flipped THEN flipped \ {q} ELSE flipped \cup {q})
       \/ Render({})                                            \* clear
       \/ \E g \in Siblings(flipped) \ {flipped} : Render(g)    \* a twin
    /\ LaidOut
    /\ UNCHANGED <<boot, ready, message, current, read>>

-----------------------------------------------------------------------------
(***************************************************************************)
(* The rail marks the last section that begins above a line at 28% of the    *)
(* window, and the last of all at the page's end.                           *)
(***************************************************************************)
MarkedIn(l) ==
    LET Sections == DOMAIN l.tops
        Top(s) == l.tops[s] - scroll
    IN  IF scroll + height >= l.end - 4 THEN Max(Sections)
        ELSE Max({1} \cup {s \in Sections : 100 * Top(s) <= 28 * height})

Update == current' = MarkedIn(layout) /\ read' = layout

(* However many of its events come before the frame, one frame answers them. *)
Scrolls ==
    /\ boot # "script"
    /\ \/ scroll' \in 0..(layout.end - height) /\ UNCHANGED <<height, layout>>
       \/ height' \in Heights /\ Flows(height')
    /\ ticking' = TRUE
    /\ UNCHANGED <<boot, ready, message, current, read, flipped, plaquette>>

(* Mutant of Frame: it lets the next event through and reads nothing itself. *)
FrameLetsThrough ==
    /\ ticking
    /\ ticking' = FALSE
    /\ UNCHANGED <<boot, ready, message, layout, scroll, height, current, read, flipped, plaquette>>

Frame ==
    /\ ticking
    /\ ticking' = FALSE /\ Update
    /\ UNCHANGED <<boot, ready, message, layout, scroll, height, flipped, plaquette>>

-----------------------------------------------------------------------------
(***************************************************************************)
(* The boot.  Everything up to the engine's arrival runs in one turn: the     *)
(* rail reads the page first, then what is started and said changes it.       *)
(***************************************************************************)
Parts == {"rail", "plaquette", "monte carlo", "estimator", "coherent", "editor", "lattices"}

(* Mutant of Pools: the boot ends where the workers cannot be started.       *)
PoolsOrStops(supported) ==
    IF supported
    THEN boot' = "await" /\ message' = "none" /\ ready' = Parts \ {"lattices"}
    ELSE boot' = "stopped" /\ message' = "workers" /\ ready' = {"rail", "plaquette"}

(* Without module workers the Monte Carlo sections are not started.          *)
Pools(supported) ==
    /\ boot' = "await"
    /\ message' = IF supported THEN "none" ELSE "workers"
    /\ ready' = Parts \ (IF supported THEN {"lattices"} ELSE {"monte carlo", "lattices"})

Boot ==
    /\ boot = "script"
    /\ Update
    /\ Render({Min(Qubits)})
    /\ \E supported \in BOOLEAN : Pools(supported)
    /\ LaidOut

Arrives ==
    /\ boot = "await"
    /\ \/ boot' = "booted" /\ ready' = ready \cup {"lattices"} /\ UNCHANGED message
       \/ boot' = "stopped" /\ message' = "engine" /\ UNCHANGED ready
    /\ LaidOut
    /\ UNCHANGED <<current, read, flipped, plaquette>>

ShellInit ==
    /\ boot = "script" /\ ready = {} /\ message = "none"
    /\ layout \in Layouts /\ height \in Heights /\ scroll \in 0..(layout.end - height)
    /\ current = 0 /\ read = layout /\ ticking = FALSE
    /\ flipped = {} /\ plaquette = Blank

ShellNext == Boot \/ Arrives \/ Fills \/ Scrolls \/ Frame \/ Plaquette
ShellSpec == ShellInit /\ [][ShellNext]_shellVars

-----------------------------------------------------------------------------
(* No scroll and no resize is lost: with no frame asked for, the rail marks    *)
(* the section at the place and for the height the window has now, however     *)
(* many events one frame answered, as the page was laid out when update() last *)
(* read it.  That the page was not laid out anew since, as "marks the section  *)
(* nearest the top of the viewport" would need, the code does not ensure.      *)
RailFollowsReader == "rail" \in ready /\ ~ticking => current = MarkedIn(read)

(* What the page says is so.  A boot that ended without a message has         *)
(* started everything; "the interactive lattice figures below still work"     *)
(* where that message stands in the end, and what fits neither worker nor     *)
(* engine is started in any case.  The plaquette fires where an odd number of *)
(* its qubits flipped, and half of all patterns but one look the same from it. *)
(* The rail follows the reader.                                               *)
ShellInStep ==
    /\ boot \in {"booted", "stopped"} =>
         /\ message = "none" => ready = Parts
         /\ message = "workers" => ready = Parts \ {"monte carlo"}
         /\ {"estimator", "coherent", "editor"} \subseteq ready
    /\ "plaquette" \in ready =>
         /\ plaquette.marked = flipped
         /\ plaquette.fires <=> \E n \in 0..Cardinality(Qubits) : Cardinality(flipped) = 2 * n + 1
         /\ 2 * (plaquette.alternatives + 1) = 2 ^ Cardinality(Qubits)
    /\ RailFollowsReader
=============================================================================

------------------------------- MODULE MCPage -------------------------------
(***************************************************************************)
(* The website for TLC: the page and its rail, its figures that run jobs,     *)
(* its lattices, the circuit editor, one worker's jobs over the engine, the   *)
(* fits of a threshold and of Lambda, and the resource estimator.  They share *)
(* no state, so a behaviour is that of one part, and the others are as before *)
(* their start.                                                               *)
(***************************************************************************)
EXTENDS ResourceEstimate, EngineJobs, LambdaFit, ThresholdFit, LatticeFigures, PageFigures, PageShell,
        MCCircuitEditor, TLC

VARIABLE
    part     \* "shell", "figures", "lattices", "editor", "worker", "fit", "lambda" or "estimate"

-----------------------------------------------------------------------------
(* The estimator's numbers: a noise below the threshold and one above it,   *)
(* latencies measured up to distance 5, an algorithm whose Toffolis are      *)
(* shown rounded.                                                          *)
Falling(a, d) == a \div (2 ^ ((d - 1) \div 2))
MCEpsilon ==
    [n \in Noises |-> [d \in 1..MaxD |->
        IF n = "noisy" THEN Falling(64, d) ELSE d]]
MCMeasured == 3 :> 1 @@ 5 :> 4
MCBeyond   == [d \in 1..MaxD |-> (4 * d * d) \div 25 + 1]
MCPresets  == ("rsa" :> [qubits |-> 4, hot |-> 1, toffolis |-> 2, typed |-> 3])
           @@ ("small" :> [qubits |-> 1, hot |-> 1, toffolis |-> 1, typed |-> 1])
MCDefault  ==
    [preset |-> "rsa", qubits |-> 4, hot |-> 1, toffolis |-> 3, noise |-> "noisy", factory |-> "cultivation",
     block |-> "fast", storage |-> "surface", budget |-> 60, decoder |-> -1, parallel |-> 2]
MCCultivation == [noises |-> {"noisy", "above"}, error |-> 2]
MCProtocols ==
    {[noise |-> "noisy", states |-> 4, error |-> 1, cost |-> 2], [noise |-> "noisy", states |-> 1, error |-> 3, cost |-> 5]}
MCGross == [n \in Noises |-> IF n = "noisy" THEN 1 ELSE 0]

(* Two distances, one of them also measured too shortly to be used.          *)
MCExperiments ==
    [d : {3}, patch : {"a"}, rounds : {1, 3, 5}] \cup [d : {5}, patch : {"a"}, rounds : {3, 5}]

(* The largest patch measures below, beside or above the others.            *)
MCRatesAt == 3 :> {1} @@ 5 :> {1} @@ 7 :> {0, 1, 2}

(* Three sections as the page loads, with the boot's error above them, and    *)
(* with a figure filled in the second.                                        *)
MCLayouts ==
    {[tops |-> <<0, 3, 7>>, end |-> 12], [tops |-> <<1, 4, 8>>, end |-> 13], [tops |-> <<0, 3, 9>>, end |-> 14]}

-----------------------------------------------------------------------------
(* The variables of a part that is not run.                                 *)
NoFigure ==
    /\ figure = "vitals" /\ runs = <<>> /\ said = [l \in 1..3 |-> "ready"] /\ shown = {} /\ button = "on"
    /\ changes = 0 /\ general = FALSE /\ disturbed = FALSE
NoLattice ==
    /\ lattice = "none" /\ session = NewSession(0, "none", 0)
    /\ decoder = "none" /\ decoded = FALSE /\ verdict = "idle" /\ told = 0
    /\ beat = "rest" /\ theirs = FALSE /\ hover = FALSE /\ swept = FALSE
    /\ pending = <<>> /\ lit = {} /\ drawn = 0 /\ running = FALSE
NoJob ==
    /\ engine = "none" /\ job = Idle /\ statics = <<>> /\ asked = <<>>
    /\ cancelled = {} /\ reports = {} /\ ended = <<>>
NoSweep ==
    /\ sweep = <<>> /\ step = "screen" /\ leading = NoFit /\ corrected = NoFit
    /\ crossed = {} /\ report = NoReport
NoLambda ==
    /\ counts = <<>> /\ used = {} /\ draws = -1 /\ logged = {} /\ drawnUsed = {}
    /\ epsDraws = {} /\ lambdaDraws = 0
NoShell ==
    /\ boot = "script" /\ ready = {} /\ message = "none" /\ layout = (CHOOSE l \in Layouts : TRUE) /\ scroll = 0 /\ height = 0
    /\ current = 0 /\ read = layout /\ ticking = FALSE /\ flipped = {} /\ plaquette = Blank
NoEditor ==
    /\ layers = <<<<>>>> /\ coords = {} /\ markers = {} /\ layer = 1
    /\ pendingQubit = NoQubit /\ fresh = 0 /\ edits = 0

PageInit ==
    \/ /\ part = "shell" /\ ShellInit
       /\ NoFigure /\ NoLattice /\ NoEditor /\ NoJob /\ NoSweep /\ NoLambda /\ EstimateInit
    \/ /\ part = "figures" /\ FiguresInit
       /\ NoShell /\ NoLattice /\ NoEditor /\ NoJob /\ NoSweep /\ NoLambda /\ EstimateInit
    \/ /\ part = "lattices" /\ LatticeInit
       /\ NoShell /\ NoFigure /\ NoEditor /\ NoJob /\ NoSweep /\ NoLambda /\ EstimateInit
    \/ /\ part = "editor" /\ EditorInit
       /\ NoShell /\ NoFigure /\ NoLattice /\ NoJob /\ NoSweep /\ NoLambda /\ EstimateInit
    \/ /\ part = "worker" /\ JobsInit
       /\ NoShell /\ NoFigure /\ NoLattice /\ NoEditor /\ NoSweep /\ NoLambda /\ EstimateInit
    \/ /\ part = "fit" /\ FitInit
       /\ NoShell /\ NoFigure /\ NoLattice /\ NoEditor /\ NoJob /\ NoLambda /\ EstimateInit
    \/ /\ part = "lambda" /\ LambdaInit
       /\ NoShell /\ NoFigure /\ NoLattice /\ NoEditor /\ NoJob /\ NoSweep /\ EstimateInit
    \/ /\ part = "estimate" /\ EstimateInit
       /\ NoShell /\ NoFigure /\ NoLattice /\ NoEditor /\ NoJob /\ NoSweep /\ NoLambda

PageNext ==
    \/ /\ part = "shell" /\ ShellNext
       /\ UNCHANGED <<part, figureVars, latticeVars, editorVars, jobVars, fitVars, lambdaVars, estimateVars>>
    \/ /\ part = "figures" /\ FiguresNext
       /\ UNCHANGED <<part, shellVars, latticeVars, editorVars, jobVars, fitVars, lambdaVars, estimateVars>>
    \/ /\ part = "lattices" /\ LatticeNext
       /\ UNCHANGED <<part, shellVars, figureVars, editorVars, jobVars, fitVars, lambdaVars, estimateVars>>
    \/ /\ part = "editor" /\ EditorNext
       /\ UNCHANGED <<part, shellVars, figureVars, latticeVars, jobVars, fitVars, lambdaVars, estimateVars>>
    \/ /\ part = "worker" /\ JobsNext
       /\ UNCHANGED <<part, shellVars, figureVars, latticeVars, editorVars, fitVars, lambdaVars, estimateVars>>
    \/ /\ part = "fit" /\ FitNext
       /\ UNCHANGED <<part, shellVars, figureVars, latticeVars, editorVars, jobVars, lambdaVars, estimateVars>>
    \/ /\ part = "lambda" /\ LambdaNext
       /\ UNCHANGED <<part, shellVars, figureVars, latticeVars, editorVars, jobVars, fitVars, estimateVars>>
    \/ /\ part = "estimate" /\ EstimateNext
       /\ UNCHANGED <<part, shellVars, figureVars, latticeVars, editorVars, jobVars, fitVars, lambdaVars>>

PageSpec ==
    /\ PageInit
    /\ [][PageNext]_<<part, shellVars, figureVars, latticeVars, editorVars, jobVars, fitVars, lambdaVars, estimateVars>>
    /\ FiguresFairness
=============================================================================

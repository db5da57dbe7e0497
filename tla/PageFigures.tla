---------------------------- MODULE PageFigures -----------------------------
(***************************************************************************)
(* The page's figures that load recorded results and run jobs on the pool   *)
(* of workers (js/sections/*.js).  Figures share nothing but the pool, whose *)
(* answers come in any order and may be failures (WorkerPool), so a figure   *)
(* is modelled on its own: a behaviour is that of the one chosen at first.  *)
(*                                                                         *)
(* A figure's handlers are async functions.  Between two awaits a function   *)
(* runs in one step; an await is a stage: a fetch, jobs sent to the pool at  *)
(* once (Promise.all), one job, jobs sent one after the other, or a timer.   *)
(* Promise.all fails with the first job that does, and the others, which it  *)
(* forgets, go on reporting.                                                *)
(***************************************************************************)
EXTENDS Integers, Sequences

CONSTANTS
    Figures,     \* the figures to run
    Jobs,        \* bound: the jobs of a map, at least one
    MaxClicks,   \* bound: the runs of a figure that is run by a button
    MaxChanges   \* bound: the changes of the noise model

ASSUME FiguresAssumption ==
    /\ Figures \subseteq {"vitals", "table", "sweep", "bias", "channel", "bench", "hardware", "realtime", "gross",
                         "gauging", "surgery", "coherent", "xcheck"}
    /\ Jobs \in Nat \ {0}

VARIABLES
    figure,      \* the figure
    runs,        \* the calls of its functions so far, in order
    said,        \* what each of its status lines says
    shown,       \* the answers it draws, as <<run, stage, job>>
    button,      \* its button: "on", "off", or "stop" (bench)
    changes,     \* how often the noise model was changed
    general,     \* the noise model is SD6, which has no channel
    disturbed    \* history: a run failed, or the noise changed during one

figureVars == <<figure, runs, said, shown, button, changes, general, disturbed>>

-----------------------------------------------------------------------------
(***************************************************************************)
(* What the functions await.  "fails" is what a function does when what it   *)
(* awaits fails, "throws" what becomes of an exception in the code after it: *)
(*   "says"     it is caught, the line says so and the function returns,     *)
(*   "without"  it is caught and the function goes on,                      *)
(*   "escapes"  the function's promise is rejected,                         *)
(*   "safe"     nothing fails there.                                        *)
(* "tells" is what a job's progress does: it "puts" its cell of a table,      *)
(* "pushes" a point or redraws its "own" run, each with the line, or only    *)
(* changes the "line"; "back" puts each job's answer as it comes.            *)
(***************************************************************************)
Stage(what, fails, throws, tells) ==
    [what |-> what, fails |-> fails, throws |-> throws, tells |-> tells]

(* "escaped": what the chain does with a rejected promise: the line "says"  *)
(* so or it is "swallowed", and the next function runs, or all is "lost";    *)
(* "claimed": it is lost, and the line was written before the drawing.      *)
(* "draws": all its answers are drawn as it ends.                           *)
Function(stages, escaped, draws, line) ==
    [stages |-> stages, escaped |-> escaped, draws |-> draws, line |-> line]

Load(throws)        == Stage("load", "says", throws, "no")
Recorded(escaped, line) == Function(<<Load("escapes")>>, escaped, FALSE, line)

VitalsFigure  == <<Function(<<Stage("call", "says", "says", "no")>>, "lost", TRUE, 1)>>
Table   == <<Function(<<Stage("jobs", "says", "says", "puts")>>, "lost", FALSE, 1)>>
Sweep   == <<Function(<<Stage("jobs", "says", "safe", "pushes"), Stage("timer", "safe", "says", "no")>>, "lost", FALSE, 1)>>
Bias    == <<Function(<<Stage("jobs", "says", "says", "own")>>, "lost", TRUE, 1)>>
ChannelFigure == <<Function(<<Stage("call", "says", "says", "no")>>, "lost", TRUE, 1)>>
Bench   == <<Function(<<Stage("jobs", "says", "says", "own")>>, "lost", TRUE, 1)>>

(* Two fits of the recorded counts are needed, two more are left out if any  *)
(* of them or the file they are compared by is missing.                     *)
HwRecorded == Function(<<Load("safe"), Stage("jobs", "says", "safe", "line"),
                     Stage("jobs", "without", "escapes", "line")>>, "lost", TRUE, 1)
HwLive == Function(<<Load("escapes"), Stage("jobs", "says", "safe", "puts")>>, "lost", FALSE, 2)
Hardware == <<HwRecorded, HwLive>>

RtRecorded == Function(<<Load("safe"), Stage("call", "says", "escapes", "line")>>, "says", TRUE, 1)
RtLive == Function(<<Stage("jobs", "says", "says", "line")>>, "lost", TRUE, 2)
Realtime == <<RtRecorded, RtLive>>

BbLive == Function(<<Stage("jobs", "says", "safe", "line")>>, "lost", TRUE, 2)

(* Mutant of Gross: nothing catches what the recorded figure throws.        *)
GrossUncaught == <<Recorded("lost", 1), BbLive>>

Gross == <<Recorded("swallowed", 1), BbLive>>
Gauging == <<Recorded("says", 1), Recorded("says", 2)>>

LsLive == Function(<<Stage("jobs", "says", "says", "no")>>, "lost", TRUE, 3)

(* Mutant of Surgery: its second figure fails in silence.                   *)
SurgerySilent == <<Recorded("says", 1), Recorded("swallowed", 2), LsLive>>

Surgery == <<Recorded("says", 1), Recorded("says", 2), LsLive>>

Coherent == <<Recorded("claimed", 1)>>

(* Models, then all rates at once, then the timings one at a time; a button  *)
(* compares the larger models.  Both write the same line.                   *)
XcStart == Function(<<Load("escapes"), Stage("call", "says", "safe", "puts"),
                      Stage("jobs", "says", "says", "back"), Stage("timed", "says", "says", "back")>>, "lost", FALSE, 1)
XcMore == Function(<<Stage("call", "says", "says", "puts")>>, "lost", FALSE, 1)
Xcheck == <<XcStart, XcMore>>

Functions == [vitals |-> VitalsFigure, table |-> Table, sweep |-> Sweep, bias |-> Bias, channel |-> ChannelFigure,
              bench |-> Bench, hardware |-> Hardware, realtime |-> Realtime, gross |-> Gross,
              gauging |-> Gauging, surgery |-> Surgery, coherent |-> Coherent, xcheck |-> Xcheck]

Clicked == {"sweep", "bias", "channel", "bench"}

FunctionOf(r) == Functions[figure][runs[r].f]
StageOf(r, s) == FunctionOf(r).stages[s]
Line(f)       == Functions[figure][f].line
More(f)       == figure = "xcheck" /\ f = 2

-----------------------------------------------------------------------------
(* The jobs a stage sends as it is reached.                                 *)
Sent(stage) ==
    CASE stage.what = "jobs"  -> [j \in 1..Jobs |-> "out"]
      [] stage.what = "call"  -> <<"out">>
      [] stage.what = "timed" -> [j \in 1..Jobs |-> IF j = 1 THEN "out" ELSE "queued"]
      [] OTHER -> <<>>

(* Ended is the stage of a function that has returned.                      *)
Ended == 0
Begun(f) == [f |-> f, at |-> 1, jobs |-> <<Sent(Functions[figure][f].stages[1])>>]
Reached(run) ==
    [run EXCEPT !.at = run.at + 1, !.jobs = Append(@, Sent(Functions[figure][run.f].stages[run.at + 1]))]

Going(r) == runs[r].at # Ended
AtRest == \A r \in DOMAIN runs : ~Going(r)

Answers(R, r) == {<<r, s, j>> : s \in DOMAIN R[r].jobs, j \in 1..Jobs}
Drawable(R, r) ==
    {x \in Answers(R, r) : x[3] \in DOMAIN R[r].jobs[x[2]]
                           /\ \A k \in DOMAIN R[r].jobs[x[2]] : R[r].jobs[x[2]][k] \in {"back", "stopped"}}
OthersShown(r) == {x \in shown : runs[x[1]].f # runs[r].f}
Put(r, s, j)   == {x \in shown : ~(runs[x[1]].f = runs[r].f /\ x[2] = s /\ x[3] = j)} \cup {<<r, s, j>>}

(* A function returns: the next of its chain is called.                     *)
Returned(R, r) ==
    LET ended == [R EXCEPT ![r].at = Ended]
        next == R[r].f + 1
    IN  IF next \in DOMAIN Functions[figure] /\ ~More(next) THEN Append(ended, Begun(next)) ELSE ended
LineAfter(R, r, word) ==
    [l \in DOMAIN said |-> IF l = Line(R[r].f) THEN word
                           ELSE IF R[r].f + 1 \in DOMAIN Functions[figure] /\ ~More(R[r].f + 1) /\ l = Line(R[r].f + 1)
                           THEN "busy" ELSE said[l]]

(* The end of a run gives the button back: finally, or the end of the try.  *)
Free(f) ==
    IF figure = "channel" /\ general THEN "off"
    ELSE IF figure \in Clicked \/ More(f) THEN "on" ELSE button

Word(R, r) ==
    CASE More(R[r].f) -> "compared"
      [] \E j \in DOMAIN R[r].jobs[1] : R[r].jobs[1][j] = "stopped" -> "stopped"
      [] OTHER -> "done"

(* Mutant of GivesUp: the button is given back by runs that succeed.        *)
GivesUpHolding(R, r) ==
    /\ runs' = Returned(R, r)
    /\ said' = LineAfter(R, r, "failed")
    /\ UNCHANGED <<shown, button>>

GivesUp(R, r) ==
    /\ runs' = Returned(R, r)
    /\ said' = LineAfter(R, r, "failed")
    /\ button' = Free(R[r].f)
    /\ UNCHANGED shown

(* A rejected promise.                                                     *)
Escapes(R, r) ==
    LET escaped == Functions[figure][R[r].f].escaped IN
    /\ runs' = IF escaped \in {"lost", "claimed"} THEN [R EXCEPT ![r].at = Ended] ELSE Returned(R, r)
    /\ said' = CASE escaped = "lost" -> said
                 [] escaped = "claimed" -> LineAfter(R, r, "done")
                 [] escaped = "says" -> LineAfter(R, r, "failed")
                 [] escaped = "swallowed" -> LineAfter(R, r, said[Line(R[r].f)])
    /\ UNCHANGED <<shown, button>>

(* The stages whose beginning the line tells of, and each answer in them.    *)
Announced(stage) == stage.tells = "back" \/ stage.what = "timer"
Busy(r, stage)   == [said EXCEPT ![Line(runs[r].f)] = IF Announced(stage) THEN "busy" ELSE @]

GoesOn(R, r, drawn) ==
    \/ /\ R[r].at < Len(FunctionOf(r).stages)
       /\ runs' = [R EXCEPT ![r] = Reached(R[r])]
       /\ said' = Busy(r, StageOf(r, R[r].at + 1))
       /\ shown' = drawn
       /\ UNCHANGED button
    \/ /\ R[r].at = Len(FunctionOf(r).stages)
       /\ runs' = Returned(R, r)
       /\ said' = LineAfter(R, r, Word(R, r))
       /\ shown' = IF FunctionOf(r).draws THEN OthersShown(r) \cup Drawable(R, r) ELSE drawn
       /\ button' = IF More(R[r].f) THEN "off" ELSE Free(R[r].f)

(* What is awaited has come: the code after it runs, and may throw.         *)
Comes(R, r, drawn) ==
    \/ GoesOn(R, r, drawn)
    \/ StageOf(r, R[r].at).throws = "says" /\ GivesUp(R, r)
    \/ StageOf(r, R[r].at).throws = "escapes" /\ Escapes(R, r)

(* It has failed.                                                          *)
Lacks(R, r) ==
    \/ StageOf(r, R[r].at).fails = "says" /\ GivesUp(R, r)
    \/ StageOf(r, R[r].at).fails = "without" /\ Comes(R, r, shown)

-----------------------------------------------------------------------------
FiguresInit ==
    /\ figure \in Figures
    /\ runs = <<>>
    /\ said = [l \in 1..3 |-> "ready"]
    /\ shown = {}
    /\ button = "on"
    /\ changes = 0
    /\ general = FALSE
    /\ disturbed = FALSE

Begin(f) ==
    /\ runs' = Append(runs, Begun(f))
    /\ said' = [said EXCEPT ![Line(f)] = "busy"]

(* A figure that is not run by a button starts once, when it is nearly in    *)
(* view (vitals: at once).                                                  *)
Near ==
    /\ figure \notin Clicked
    /\ runs = <<>>
    /\ Begin(1)
    /\ UNCHANGED <<figure, shown, button, changes, general, disturbed>>

(* Mutant of Cleared: the points of the last sweep stay.                    *)
ClearedNothing == shown

Cleared == IF figure = "sweep" THEN {} ELSE shown

Click ==
    /\ figure \in Clicked
    /\ button = "on"
    /\ Len(runs) < MaxClicks
    /\ Begin(1)
    /\ shown' = Cleared
    /\ button' = IF figure = "bench" THEN "stop" ELSE "off"
    /\ UNCHANGED <<figure, changes, general, disturbed>>

ClickMore ==
    /\ figure = "xcheck"
    /\ button = "on"
    /\ \E r \in DOMAIN runs : runs[r].f = 1 /\ Len(runs[r].jobs) > 1
    /\ Len(runs) <= MaxClicks
    /\ Begin(2)
    /\ button' = "off"
    /\ UNCHANGED <<figure, shown, changes, general, disturbed>>

(* A second click on the bench's button stops the shots after their chunk.   *)
Stop ==
    /\ figure = "bench"
    /\ button = "stop"
    /\ button' = "off"
    /\ said' = [said EXCEPT ![1] = "stopping"]
    /\ UNCHANGED <<figure, runs, shown, changes, general, disturbed>>

(* Another noise model is selected.  The channel's button is enabled unless  *)
(* the model is SD6.                                                        *)
ChangeNoise ==
    /\ figure \in {"sweep", "channel"}
    /\ changes < MaxChanges
    /\ changes' = changes + 1
    /\ shown' = Cleared
    /\ said' = [said EXCEPT ![1] = "ready"]
    /\ general' \in BOOLEAN
    /\ \/ figure = "sweep" /\ UNCHANGED button
       \/ figure = "channel" /\ button' = IF general' THEN "off" ELSE "on"
    /\ disturbed' = (disturbed \/ ~AtRest)
    /\ UNCHANGED <<figure, runs>>

-----------------------------------------------------------------------------
Fetched(r) ==
    /\ Going(r) /\ StageOf(r, runs[r].at).what = "load"
    /\ Comes(runs, r, shown)
    /\ UNCHANGED <<figure, changes, general, disturbed>>

Unavailable(r) ==
    /\ Going(r) /\ StageOf(r, runs[r].at).what = "load"
    /\ Lacks(runs, r)
    /\ UNCHANGED <<figure, changes, general, disturbed>>

Fire(r) ==
    /\ Going(r) /\ StageOf(r, runs[r].at).what = "timer"
    /\ Comes(runs, r, shown)
    /\ UNCHANGED <<figure, changes, general, disturbed>>

With(r, s, j, state) == [runs EXCEPT ![r].jobs[s][j] = state]

Drawing(R, r, s, j) ==
    CASE StageOf(r, s).tells = "own"  -> OthersShown(r) \cup {x \in Answers(R, r) : x[2] = s /\ R[r].jobs[s][x[3]] # "out"}
      [] StageOf(r, s).tells = "puts" -> Put(r, s, j)
      [] StageOf(r, s).tells = "pushes" -> shown \cup {<<r, s, j>>}
      [] OTHER -> shown

(* A job reports: of a run that has failed, too.                            *)
Tell(r, s, j) ==
    /\ runs[r].jobs[s][j] = "out"
    /\ StageOf(r, s).tells \in {"line", "puts", "pushes", "own"}
    /\ runs' = With(r, s, j, "told")
    /\ shown' = Drawing(With(r, s, j, "told"), r, s, j)
    /\ said' = IF figure = "bench" THEN said ELSE [said EXCEPT ![Line(runs[r].f)] = "busy"]
    /\ UNCHANGED <<figure, button, changes, general, disturbed>>

(* The next of the jobs that are sent one after the other.                  *)
SendNext(R, r, s, j) ==
    IF StageOf(r, s).what = "timed" /\ j + 1 \in DOMAIN R[r].jobs[s] THEN [R EXCEPT ![r].jobs[s][j + 1] = "out"] ELSE R

Awaited(R, r, s) == R[r].at = s
AllBack(R, r, s) == \A k \in DOMAIN R[r].jobs[s] : R[r].jobs[s][k] \in {"back", "stopped"}

(* A job's answer.  One that draws by what it reports has reported.         *)
Back(r, s, j) ==
    \E state \in {"back", "stopped"} :
        LET R == With(r, s, j, state)
            drawn == IF StageOf(r, s).tells = "back" THEN Put(r, s, j) ELSE shown
        IN
        /\ runs[r].jobs[s][j] \in {"out", "told"}
        /\ state = "stopped" => figure = "bench" /\ button = "off" /\ r = Len(runs)
        /\ StageOf(r, s).tells \in {"puts", "pushes", "own"} /\ state = "back" => runs[r].jobs[s][j] = "told"
        /\ \/ /\ Awaited(R, r, s) /\ AllBack(R, r, s)
              /\ Comes(R, r, drawn)
           \/ /\ ~(Awaited(R, r, s) /\ AllBack(R, r, s))
              /\ runs' = IF Awaited(R, r, s) THEN SendNext(R, r, s, j) ELSE R
              /\ shown' = drawn
              /\ said' = Busy(r, StageOf(r, s))
              /\ UNCHANGED button
        /\ UNCHANGED <<figure, changes, general, disturbed>>

(* A job fails.                                                            *)
Cut(r, s, j) ==
    LET R == With(r, s, j, "cut") IN
    /\ runs[r].jobs[s][j] \in {"out", "told"}
    /\ \/ Awaited(R, r, s) /\ Lacks(R, r)
       \/ ~Awaited(R, r, s) /\ runs' = R /\ UNCHANGED <<said, shown, button>>
    /\ disturbed' = TRUE
    /\ UNCHANGED <<figure, changes, general>>

Job(A(_, _, _)) ==
    \E r \in DOMAIN runs : \E s \in DOMAIN runs[r].jobs : \E j \in DOMAIN runs[r].jobs[s] : A(r, s, j)

Answered ==
    \/ Job(Back)
    \/ Job(Cut)
    \/ \E r \in DOMAIN runs : Fetched(r) \/ Unavailable(r) \/ Fire(r)

FiguresNext ==
    \/ Near
    \/ Click
    \/ ClickMore
    \/ Stop
    \/ ChangeNoise
    \/ Job(Tell)
    \/ Answered

(* The pool answers every call (WorkerPool), a fetch ends, a timer fires.    *)
FiguresFairness == WF_figureVars(Job(Tell)) /\ WF_figureVars(Answered)
FiguresSpec     == FiguresInit /\ [][FiguresNext]_figureVars
FairFiguresSpec == FiguresSpec /\ FiguresFairness

-----------------------------------------------------------------------------
Latest(f) == CHOOSE r \in DOMAIN runs : runs[r].f = f /\ \A q \in DOMAIN runs : runs[q].f = f => q <= r

(* A figure that says it is done draws every answer of its latest run, once, *)
(* and none of an earlier one.  The sweep, the bench and the channel do not  *)
(* promise it once a run has failed with jobs still out, or the noise model  *)
(* has changed under one: their late jobs draw on.                          *)
DoneIsWhole ==
    \A f \in DOMAIN Functions[figure] :
        (said[Line(f)] = IF More(f) THEN "compared" ELSE "done")
        /\ ~(disturbed /\ figure \in {"sweep", "bench", "channel"})
        => {x \in shown : runs[x[1]].f = f} = Drawable(runs, Latest(f))

(* Whatever loading or drawing fails in the recorded figures of these        *)
(* sections, their live figure runs to its end ("the live figure runs        *)
(* whatever became of the recorded one", "the rest still run").             *)
LiveRunsAnyway ==
    figure \in {"realtime", "gross", "surgery"} /\ runs # <<>>
        ~> \E r \in DOMAIN runs : runs[r].f = Len(Functions[figure]) /\ ~Going(r)

(* A figure of the gauging and surgery sections that fails to draw says so:  *)
(* none is left as if it were still loading.                                *)
FailuresAreSaid ==
    figure \in {"gauging", "surgery"} /\ AtRest /\ runs # <<>>
        => \A f \in DOMAIN Functions[figure] : said[Line(f)] \in {"done", "failed"}

(* A button that a run has taken comes back, however the run ends.           *)
ButtonsComeBack == figure \in Clicked /\ button # "on" ~> button = "on" \/ general
=============================================================================

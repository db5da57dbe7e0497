---------------------------- MODULE WindowStream ----------------------------
(***************************************************************************)
(* Decoding a stream of rounds window by window: the schedule of windows    *)
(* (src/window.rs), the stream decoder that takes rounds as they come and   *)
(* lets them go (src/stream.rs), and the decoder of whole shots, which      *)
(* decodes the same windows phase after phase (WindowDecoder).             *)
(*                                                                         *)
(* A layer has one detector, and one lane is decoded; an edge joins two     *)
(* layers at most Reach apart, or a layer and the boundary.  The matching   *)
(* decoder is any function from a window's defects to a correction that     *)
(* explains them: it is asked once for each window, and the whole-shot      *)
(* decoder, which sees the same graph, is given the same answer.           *)
(***************************************************************************)
EXTENDS Integers, Sequences, FiniteSets, FiniteSetsExt

CONSTANTS
    Schedules,    \* records of mode, commit, buffer and total (the layers)
    Reach         \* the most layers an edge of the error model spans

(* check_schedule, and what it supposes of the model: an edge that leaves a *)
(* parallel window's commit region ends in a gap, 2 * buffer layers wide.  *)
ASSUME ScheduleAssumption ==
    \A s \in Schedules :
        /\ s.mode \in {"sliding", "parallel"}
        /\ s.commit \in Nat \ {0} /\ s.buffer \in Nat /\ s.total \in Nat
        /\ s.mode = "parallel" => s.buffer # 0 /\ Reach <= 2 * s.buffer

ASSUME ReachAssumption == Reach \in Nat

VARIABLES
    plan,       \* the schedule and its windows, in the order they are planned
    shot,       \* the layers whose defect the sampler has pushed
    \* the stream
    complete,   \* the layers that have been pushed
    pos,        \* the windows decoded
    live,       \* the defects in the layers that are held
    base,       \* the first layer that is held
    dropped,    \* the defects in the layers that were let go
    declined,   \* the matching decoder had no answer, and the stream is given up
    \* the matching decoder
    seen,       \* by window: the defects it was asked about
    picked,     \* by window: the edges of its answer that were committed
    \* the decoder of whole shots
    shotPos, shotLive

streamVars == <<complete, pos, live, base, dropped, declined>>
vars == <<plan, shot, streamVars, seen, picked, shotPos, shotLive>>

Boundary == -1

-----------------------------------------------------------------------------
(***************************************************************************)
(* plan: where the windows sit.                                            *)
(***************************************************************************)
Place(a, b, c0, c1, past, future, phase) ==
    [a |-> a, b |-> b, commit |-> <<c0, c1>>, past |-> past, future |-> future, phase |-> phase]

(* The sliding window from start on is the last one.                       *)
IsLast(s, start) == start + s.commit + s.buffer >= s.total

Sliding(s) ==
    LET starts == {i * s.commit : i \in 0 .. s.total}
        n == Min({i \in 1 .. s.total : IsLast(s, (i - 1) * s.commit)} \cup {s.total})
        At(start) == IF IsLast(s, start)
                       THEN Place(start, s.total, start, s.total, FALSE, FALSE, start \div s.commit)
                       ELSE Place(start, start + s.commit + s.buffer, start, start + s.commit,
                                 FALSE, TRUE, start \div s.commit)
    IN  [i \in 1 .. n |-> At((i - 1) * s.commit)]

(* Layer A's windows are a period apart; the gaps between their commit     *)
(* regions are layer B's.                                                  *)
Period(s) == s.commit + 2 * s.buffer
Starts(s) == (s.total + Period(s) - 1) \div Period(s)
Start(s, i) == (i - 1) * Period(s)
CommitEnd(s, i) == Min({Start(s, i) + s.commit, s.total})
WindowEnd(s, i) == Min({Start(s, i) + s.commit + s.buffer, s.total})

GapStart(s, i) == CommitEnd(s, i)
GapEnd(s, i) == IF i < Starts(s) THEN Start(s, i + 1) ELSE s.total

(* The gaps that are not empty: all but, maybe, the last.                  *)
Gaps(s) == Cardinality({i \in 1 .. Starts(s) : GapStart(s, i) < GapEnd(s, i)})

Parallel(s) ==
    LET A == [i \in 1 .. Starts(s) |->
                LET a == Max({0, Start(s, i) - s.buffer})
                    b == WindowEnd(s, i)
                IN  Place(a, b, Start(s, i), CommitEnd(s, i), a > 0, b < s.total, 0)]
        B == [i \in 1 .. Gaps(s) |->
                LET a == GapStart(s, i)
                    b == GapEnd(s, i)
                IN  Place(a, b, a, b, FALSE, FALSE, 1)]
    IN  A \o B

Windows(s) == IF s.mode = "sliding" THEN Sliding(s) ELSE Parallel(s)

(* The elements of S, each after those that are before it.                 *)
Sorted(S, before) ==
    [i \in 1 .. Cardinality(S) |-> CHOOSE x \in S : Cardinality({y \in S : <<y, x>> \in before}) = i - 1]

W == plan.windows
InCommit(w, l) == W[w].commit[1] <= l /\ l < W[w].commit[2]
Layers(w) == W[w].a .. W[w].b - 1

(***************************************************************************)
(* StreamDecoder::plan: what a window waits for, and the order in which     *)
(* they are decoded.                                                       *)
(***************************************************************************)
Dependencies(s, ws) ==
    [w \in DOMAIN ws |->
       IF s.mode = "sliding" THEN {w - 1} \ {0}
       ELSE IF ws[w].phase = 0 THEN {}
       ELSE {v \in DOMAIN ws : /\ ws[v].phase = 0
                               /\ \/ ws[v].commit[2] = ws[w].commit[1]
                                  \/ ws[v].commit[1] = ws[w].commit[2]}]

(* Mutant of ReadyLayers: a window waits for its own layers alone.         *)
ReadyAlone(ws, deps) == [w \in DOMAIN ws |-> ws[w].b]

ReadyLayers(ws, deps) ==
    [w \in DOMAIN ws |-> Max({ws[v].b : v \in deps[w] \cup {w}})]

Order(ws, ready) ==
    LET Key(w) == <<ready[w], Min({ws[w].phase, 1}), ws[w].commit[1]>>
        Before(v, w) == \E i \in 1 .. 3 : /\ Key(v)[i] < Key(w)[i]
                                          /\ \A j \in 1 .. i - 1 : Key(v)[j] = Key(w)[j]
    IN  Sorted(DOMAIN ws, {x \in (DOMAIN ws) \X (DOMAIN ws) : Before(x[1], x[2])})

PlanOf(s) ==
    LET ws == Windows(s)
        deps == Dependencies(s, ws)
        ready == ReadyLayers(ws, deps)
    IN  [of |-> s, windows |-> ws, deps |-> deps, ready |-> ready, order |-> Order(ws, ready)]

Total == plan.of.total

Init ==
    /\ plan \in {PlanOf(s) : s \in Schedules}
    /\ shot = {}
    /\ complete = 0 /\ pos = 0 /\ live = {} /\ base = 0 /\ dropped = 0 /\ declined = FALSE
    /\ seen = [w \in DOMAIN W |-> {}]
    /\ picked = [w \in DOMAIN W |-> {}]
    /\ shotPos = 0 /\ shotLive = {}

-----------------------------------------------------------------------------
(***************************************************************************)
(* Window graphs and corrections.                                          *)
(***************************************************************************)
Edges == {{u, v} : u \in 0 .. Total - 1, v \in 0 .. Total - 1} \cup {{u, Boundary} : u \in 0 .. Total - 1}
ModelEdges == {e \in Edges : Cardinality(e) = 2 /\ (Boundary \notin e => Max(e) - Min(e) <= Reach)}

(* Mutant of Kept: the virtual boundary of the past is always there.       *)
KeptBothWays(w, l) == l = Boundary \/ l \in Layers(w) \/ l >= W[w].b \/ l < W[w].a

(* Model::window: of an edge with an end inside, the other end is inside,  *)
(* the real boundary, or on a side that has a virtual one.                 *)
Kept(w, l) ==
    \/ l = Boundary \/ l \in Layers(w)
    \/ l >= W[w].b /\ W[w].future
    \/ 0 <= l /\ l < W[w].a /\ W[w].past

WindowEdges(w) == {e \in ModelEdges : e \cap Layers(w) # {} /\ \A l \in e : Kept(w, l)}

(* The layers that the edges c meet an odd number of times.                *)
Syndrome(c, layers) == {l \in layers : Cardinality({e \in c : l \in e}) % 2 = 1}

Toggle(x, y) == (x \ y) \cup (y \ x)

(* Mutant of Committed: an edge is committed if it lies in the region.     *)
CommittedInside(w, c) == {e \in c : \A l \in e : InCommit(w, l) \/ l = Boundary}

(* The edges of a correction with an end in the commit region.             *)
Committed(w, c) == {e \in c : \E l \in e : InCommit(w, l)}

(* The defects that committing c toggles.                                  *)
Ends(c) == Syndrome(c, 0 .. Total - 1)

-----------------------------------------------------------------------------
(***************************************************************************)
(* Stream.                                                                 *)
(***************************************************************************)
Upcoming == plan.order[pos + 1]
Ready == pos < Len(plan.order) /\ plan.ready[Upcoming] <= complete /\ ~declined

(* push_layer, of a layer with a defect or without.                        *)
Push ==
    /\ complete < Total
    /\ ~Ready /\ ~declined
    /\ \E d \in {{}, {complete}} :
          /\ shot' = shot \cup d
          /\ live' = Toggle(live, d)
          /\ shotLive' = shotLive \cup d
    /\ complete' = complete + 1
    /\ UNCHANGED <<plan, pos, base, dropped, declined, seen, picked, shotPos>>

(* Mutant of Keep: only the next window is asked what it reads.            *)
KeepForNext(n) == IF n < Len(plan.order) THEN Min({W[plan.order[n + 1]].a, complete}) ELSE complete

(* The first layer that a window still to come reads, n being decoded.     *)
Keep(n) == Min({W[plan.order[i]].a : i \in n + 1 .. Len(plan.order)} \cup {complete})

(* advance and decode_window: the next window is decoded, its correction   *)
(* committed, and the layers nobody will read are let go.                  *)
Decode ==
    LET w == Upcoming
        defects == live \cap Layers(w)
    IN  /\ Ready
        /\ \E c \in SUBSET WindowEdges(w) :
              /\ Syndrome(c, Layers(w)) = defects
              /\ LET after == Toggle(live, Ends(Committed(w, c)))
                 IN  /\ live' = {l \in after : l >= Keep(pos + 1)}
                     /\ dropped' = dropped + Cardinality(after \ live')
              /\ picked' = [picked EXCEPT ![w] = Committed(w, c)]
        /\ seen' = [seen EXCEPT ![w] = defects]
        /\ base' = Keep(pos + 1)
        /\ pos' = pos + 1
        /\ UNCHANGED <<plan, shot, complete, declined, shotPos, shotLive>>

(* An error of the matching decoder ends advance before the window counts  *)
(* as decoded; the callers return the error or flag the shots, and use the *)
(* stream no more.                                                         *)
Decline ==
    /\ Ready
    /\ declined' = TRUE
    /\ UNCHANGED <<plan, shot, complete, pos, live, base, dropped, seen, picked, shotPos, shotLive>>

Finished == complete = Total /\ ~Ready /\ ~declined

(***************************************************************************)
(* WindowDecoder::decode_with: the same shot, the windows phase by phase.  *)
(***************************************************************************)
ShotOrder ==
    LET Before(v, w) == W[v].phase < W[w].phase \/ (W[v].phase = W[w].phase /\ v < w)
    IN  Sorted(DOMAIN W, {x \in (DOMAIN W) \X (DOMAIN W) : Before(x[1], x[2])})

DecodeShot ==
    LET w == ShotOrder[shotPos + 1]
    IN  /\ Finished
        /\ shotPos < Len(W)
        /\ shotLive' = Toggle(shotLive, Ends(picked[w]))
        /\ shotPos' = shotPos + 1
        /\ UNCHANGED <<plan, shot, streamVars, seen, picked>>

Done ==
    /\ declined \/ (Finished /\ shotPos = Len(W))
    /\ UNCHANGED vars

Next == Push \/ Decode \/ Decline \/ DecodeShot \/ Done

Spec == Init /\ [][Next]_vars

-----------------------------------------------------------------------------
Decoded == {plan.order[i] : i \in 1 .. pos}

(* Once a window has committed, its region is clean for good: no later     *)
(* window's correction reaches into it.  So in the end every defect is     *)
(* explained, and none was let go with its layer.                          *)
RegionsStayClean ==
    /\ \A w \in Decoded : \A l \in live : ~InCommit(w, l)
    /\ dropped = 0
    /\ Finished => pos = Len(W) /\ live = {}

(* No edge is committed twice.                                             *)
CommittedOnce ==
    \A v, w \in DOMAIN W : v # w => picked[v] \cap picked[w] = {}

(* A layer is held as long as a window to come reads it, or may commit an  *)
(* edge that ends in it: the difference to base, which is unsigned, never  *)
(* goes below zero.  Yet the stream holds no more layers than the schedule's *)
(* windows need, long as it may be.                                        *)
HeldWhileNeeded ==
    \A w \in DOMAIN W \ Decoded :
        /\ W[w].a >= base
        /\ \A e \in Committed(w, WindowEdges(w)) : \A l \in e : l = Boundary \/ l >= base

FewLayersHeld ==
    ~Ready => complete - base <= plan.of.commit + IF plan.of.mode = "sliding" THEN plan.of.buffer
                                                                              ELSE 3 * plan.of.buffer

HoldsWhatItNeeds == HeldWhileNeeded /\ FewLayersHeld

(* "decodes every one of 64 streams exactly as windows cut from the full   *)
(* model": the whole-shot decoder asks the matching decoder about each     *)
(* window with the same defects as the stream did.                         *)
StreamDecodesTheShot ==
    Finished /\ shotPos < Len(W) =>
        LET w == ShotOrder[shotPos + 1] IN shotLive \cap Layers(w) = seen[w]
=============================================================================

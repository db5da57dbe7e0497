---------------------------- MODULE FigureProofs ----------------------------
(***************************************************************************)
(* For any choice of the figures and any number of jobs, clicks and changes  *)
(* of the noise: a figure that says it is done draws the answers of its       *)
(* latest run, and where recorded results are missing the page says so.      *)
(***************************************************************************)
EXTENDS PageFigures, FiniteSetTheorems, SequenceTheorems, TLAPS

-----------------------------------------------------------------------------
(* The figures whose late jobs draw on: they are excused once a run failed    *)
(* with jobs out, or the noise changed under one.                           *)
Excused(dis) == dis /\ figure \in {"sweep", "bench", "channel"}

JobStates == {"out", "queued", "told", "back", "stopped", "cut"}
Runs == [f : Nat, at : Nat, jobs : Seq(Seq(JobStates))]

(* A run has the jobs of the stages it reached, and awaits those of the last. *)
Shaped(R) ==
    /\ R \in Seq(Runs)
    /\ \A r \in DOMAIN R :
         /\ R[r].f \in DOMAIN Functions[figure]
         /\ Len(R[r].jobs) \in 1..Len(Functions[figure][R[r].f].stages)
         /\ R[r].at \in {Ended, Len(R[r].jobs)}
         /\ \A s \in DOMAIN R[r].jobs :
               DOMAIN R[r].jobs[s] = DOMAIN Sent(Functions[figure][R[r].f].stages[s])

(* Functions are called in turn; a button has one run going at a time.        *)
InTurn(R, b, dis) ==
    /\ figure \notin Clicked \cup {"xcheck"} =>
         \A r \in DOMAIN R : R[r].f = r /\ (R[r].at # Ended => r = Len(R))
    /\ figure = "xcheck" => \A r \in DOMAIN R : R[r].f = IF r = 1 THEN 1 ELSE 2
    /\ figure \in Clicked \cup {"xcheck"} /\ ~Excused(dis) =>
         \A r \in DOMAIN R : R[r].at # Ended /\ (figure = "xcheck" => r # 1) => r = Len(R) /\ b # "on"

(* What was awaited before is back; and all of it where no job is left to     *)
(* draw on.                                                                *)
Kept(R, dis) ==
    \A r \in DOMAIN R :
       /\ R[r].at # Ended => \A s \in DOMAIN R[r].jobs : s < R[r].at => AllBack(R, r, s)
       /\ R[r].at = Ended /\ figure \in {"sweep", "bench", "channel"} /\ ~dis =>
            \A s \in DOMAIN R[r].jobs : AllBack(R, r, s)
       /\ R[r].at = Ended /\ figure = "xcheck" /\ R[r].f = 2 => R[r].jobs[1][1] \in {"back", "stopped", "cut"}

(* What is drawn are jobs, as they are put or as they come back.              *)
OnShow(R, sh) ==
    \A x \in sh : \E r \in DOMAIN R : \E s \in DOMAIN R[r].jobs : \E j \in DOMAIN R[r].jobs[s] : x = <<r, s, j>>

Newest(R, r) == \A q \in DOMAIN R : R[q].f = R[r].f => q <= r
Reported(R, r, s, j) ==
    R[r].jobs[s][j] \in {"back", "stopped"} \cup
        (IF Functions[figure][R[r].f].stages[s].tells = "back" THEN {} ELSE {"told"})

Drawn(R, sh, dis) ==
    ~Excused(dis) =>
        \A r \in DOMAIN R : R[r].at # Ended /\ ~Functions[figure][R[r].f].draws =>
            /\ \A s \in DOMAIN R[r].jobs : \A j \in DOMAIN R[r].jobs[s] : Reported(R, r, s, j) => <<r, s, j>> \in sh
            /\ \A x \in sh : R[x[1]].f = R[r].f /\ x[1] # r =>
                  figure = "xcheck" /\ R[r].f = 2 /\ R[r].jobs[1][1] \in {"out", "cut"}

(* A line that says a figure is done is that of its newest run, which has      *)
(* ended with all its answers, or without those of a stage it can do without. *)
Settled(R, r) ==
    \A s \in DOMAIN R[r].jobs : AllBack(R, r, s) \/ \E k \in DOMAIN R[r].jobs[s] : R[r].jobs[s][k] = "cut"
ShownOf(R, sh, f) == {x \in sh : R[x[1]].f = f}
Done(f) == IF More(f) THEN "compared" ELSE "done"

Finished(R, sd, sh, dis) ==
    ~Excused(dis) =>
        \A f \in DOMAIN Functions[figure] : sd[Line(f)] = Done(f) =>
            \E r \in DOMAIN R : /\ R[r].f = f /\ Newest(R, r) /\ R[r].at = Ended /\ Settled(R, r)
                                /\ ShownOf(R, sh, f) = Drawable(R, r)

(* Only the bench's jobs are stopped.                                        *)
StopsAtBench(R) ==
    figure # "bench" => \A r \in DOMAIN R : \A s \in DOMAIN R[r].jobs : \A j \in DOMAIN R[r].jobs[s] :
                            R[r].jobs[s][j] # "stopped"

(* The functions of these figures end with a word, and the next is called.   *)
Spoken(R, sd) ==
    figure \in {"gauging", "surgery"} =>
        \A r \in DOMAIN R : R[r].at = Ended =>
            /\ sd[Line(R[r].f)] \in {"done", "failed"}
            /\ r + 1 \in DOMAIN Functions[figure] => r + 1 \in DOMAIN R

FigureParts(R, sd, sh, b, dis) ==
    /\ Shaped(R) /\ DOMAIN sd = 1..3
    /\ InTurn(R, b, dis)
    /\ Kept(R, dis)
    /\ OnShow(R, sh)
    /\ Drawn(R, sh, dis)
    /\ Finished(R, sd, sh, dis)
    /\ StopsAtBench(R)
FigureInv(R, sd, sh, b, dis) == FigureParts(R, sd, sh, b, dis) /\ Spoken(R, sd)

-----------------------------------------------------------------------------
(* What the functions have in common.                                       *)
FigureNames == {"vitals", "table", "sweep", "bias", "channel", "bench", "hardware", "realtime", "gross",
                "gauging", "surgery", "coherent", "xcheck"}

SoundStage(F, s) ==
    /\ F.stages[s].what \in {"load", "call", "jobs", "timed", "timer"}
    /\ F.draws => F.stages[s].tells \in {"no", "line", "own"}
    /\ ~F.draws /\ F.stages[s].what \in {"call", "jobs", "timed"} => F.stages[s].tells \in {"puts", "pushes", "back"}
    /\ F.stages[s].tells = "own" => F.stages[s].what = "jobs"
    /\ F.stages[s].fails = "without" => F.draws /\ s = Len(F.stages)
    /\ F.escaped = "claimed" => F.stages[s].what = "load"
Sound(F) ==
    /\ F.draws \in BOOLEAN /\ F.line \in 1..3
    /\ F.escaped \in {"says", "swallowed", "lost", "claimed"}
    /\ DOMAIN F.stages = 1..Len(F.stages) /\ Len(F.stages) \in Nat \ {0}
    /\ \A s \in DOMAIN F.stages : SoundStage(F, s)

(* The points of a sweep; what a click awaits says how it failed; and so do   *)
(* the figures of these sections, with no word before.                      *)
Apart(F, g) ==
    /\ g \in Clicked => F.line = 1 /\ (F.draws \/ g = "sweep")
    /\ g = "xcheck" => F.escaped = "lost"
    /\ \A s \in DOMAIN F.stages :
          /\ F.stages[s].tells = "pushes" => g = "sweep"
          /\ F.stages[s].tells = "back" => g = "xcheck"
          /\ g \in Clicked => F.stages[s].throws # "escapes"
          /\ g \in {"gauging", "surgery"} =>
               /\ F.stages[s].tells = "no" /\ F.stages[s].what # "timer" /\ F.stages[s].fails = "says"
               /\ F.stages[s].throws = "escapes" => F.escaped = "says"

(* The functions of a figure have lines of their own, but for xcheck's two.   *)
Lines(g) ==
    /\ \E n \in 1..3 : DOMAIN Functions[g] = 1..n
    /\ g \in Clicked => DOMAIN Functions[g] = {1}
    /\ g = "xcheck" => DOMAIN Functions[g] = {1, 2}
    /\ g # "xcheck" => \A f, h \in DOMAIN Functions[g] : f # h => Functions[g][f].line # Functions[g][h].line

(* A figure with a single function.                                         *)
LEMMA OneFunction ==
    ASSUME NEW g, g # "xcheck", NEW F, Functions[g] = <<F>>, Sound(F), Apart(F, g)
    PROVE  Lines(g) /\ \A f \in DOMAIN Functions[g] : Sound(Functions[g][f]) /\ Apart(Functions[g][f], g)
<1>1. DOMAIN Functions[g] = 1..1 /\ Functions[g][1] = F
      OBVIOUS
<1>2. \A f \in 1..1 : f = 1
      OBVIOUS
<1> QED BY <1>1, <1>2 DEF Lines

(* A figure of two functions, neither of them behind a button.              *)
LEMMA TwoFunctions ==
    ASSUME NEW g, g \notin Clicked, NEW F, NEW G, Functions[g] = <<F, G>>, Sound(F), Apart(F, g), Sound(G), Apart(G, g),
           g # "xcheck" => F.line # G.line
    PROVE  Lines(g) /\ \A f \in DOMAIN Functions[g] : Sound(Functions[g][f]) /\ Apart(Functions[g][f], g)
<1>1. DOMAIN Functions[g] = 1..2 /\ Functions[g][1] = F /\ Functions[g][2] = G
      OBVIOUS
<1>2. \A f \in 1..2 : f = 1 \/ f = 2
      OBVIOUS
<1> QED BY <1>1, <1>2 DEF Lines

(* Each figure's functions, checked against what is said of all.            *)
LEMMA FunctionsAre ==
    ASSUME NEW g \in FigureNames
    PROVE  Lines(g) /\ \A f \in DOMAIN Functions[g] : Sound(Functions[g][f]) /\ Apart(Functions[g][f], g)
<1> USE DEF Function, Stage, Load, Recorded
<1>1. CASE g = "vitals"
      <2> DEFINE F == Function(<<Stage("call", "says", "says", "no")>>, "lost", TRUE, 1)
      <2>1. Sound(F) /\ Apart(F, g)
            BY <1>1 DEF Sound, SoundStage, Apart, Clicked
      <2>2. Functions[g] = <<F>>
            BY <1>1 DEF Functions, VitalsFigure
      <2> HIDE DEF F
      <2> QED BY <1>1, <2>1, <2>2, OneFunction
<1>2. CASE g = "table"
      <2> DEFINE F == Function(<<Stage("jobs", "says", "says", "puts")>>, "lost", FALSE, 1)
      <2>1. Sound(F) /\ Apart(F, g)
            BY <1>2 DEF Sound, SoundStage, Apart, Clicked
      <2>2. Functions[g] = <<F>>
            BY <1>2 DEF Functions, Table
      <2> HIDE DEF F
      <2> QED BY <1>2, <2>1, <2>2, OneFunction
<1>3. CASE g = "sweep"
      <2> DEFINE F == Function(<<Stage("jobs", "says", "safe", "pushes"), Stage("timer", "safe", "says", "no")>>, "lost", FALSE, 1)
      <2>1. Sound(F) /\ Apart(F, g)
            BY <1>3 DEF Sound, SoundStage, Apart, Clicked
      <2>2. Functions[g] = <<F>>
            BY <1>3 DEF Functions, Sweep
      <2> HIDE DEF F
      <2> QED BY <1>3, <2>1, <2>2, OneFunction
<1>4. CASE g = "bias"
      <2> DEFINE F == Function(<<Stage("jobs", "says", "says", "own")>>, "lost", TRUE, 1)
      <2>1. Sound(F) /\ Apart(F, g)
            BY <1>4 DEF Sound, SoundStage, Apart, Clicked
      <2>2. Functions[g] = <<F>>
            BY <1>4 DEF Functions, Bias
      <2> HIDE DEF F
      <2> QED BY <1>4, <2>1, <2>2, OneFunction
<1>5. CASE g = "channel"
      <2> DEFINE F == Function(<<Stage("call", "says", "says", "no")>>, "lost", TRUE, 1)
      <2>1. Sound(F) /\ Apart(F, g)
            BY <1>5 DEF Sound, SoundStage, Apart, Clicked
      <2>2. Functions[g] = <<F>>
            BY <1>5 DEF Functions, ChannelFigure
      <2> HIDE DEF F
      <2> QED BY <1>5, <2>1, <2>2, OneFunction
<1>6. CASE g = "bench"
      <2> DEFINE F == Function(<<Stage("jobs", "says", "says", "own")>>, "lost", TRUE, 1)
      <2>1. Sound(F) /\ Apart(F, g)
            BY <1>6 DEF Sound, SoundStage, Apart, Clicked
      <2>2. Functions[g] = <<F>>
            BY <1>6 DEF Functions, Bench
      <2> HIDE DEF F
      <2> QED BY <1>6, <2>1, <2>2, OneFunction
<1>7. CASE g = "hardware"
      <2>1. Functions[g] = <<HwRecorded, HwLive>>
            BY <1>7 DEF Functions, Hardware
      <2>2. Sound(HwRecorded) /\ Apart(HwRecorded, g)
            BY <1>7 DEF Sound, SoundStage, Apart, Clicked, HwRecorded
      <2>3. Sound(HwLive) /\ Apart(HwLive, g)
            BY <1>7 DEF Sound, SoundStage, Apart, Clicked, HwLive
      <2>4. HwRecorded.line # HwLive.line
            BY DEF HwRecorded, HwLive
      <2> HIDE DEF Function, Recorded
      <2> QED BY <1>7, <2>1, <2>2, <2>3, <2>4, TwoFunctions DEF Clicked
<1>8. CASE g = "realtime"
      <2>1. Functions[g] = <<RtRecorded, RtLive>>
            BY <1>8 DEF Functions, Realtime
      <2>2. Sound(RtRecorded) /\ Apart(RtRecorded, g)
            BY <1>8 DEF Sound, SoundStage, Apart, Clicked, RtRecorded
      <2>3. Sound(RtLive) /\ Apart(RtLive, g)
            BY <1>8 DEF Sound, SoundStage, Apart, Clicked, RtLive
      <2>4. (RtRecorded).line # (RtLive).line
            BY DEF RtRecorded, RtLive
      <2> HIDE DEF Function, Recorded
      <2> QED BY <1>8, <2>1, <2>2, <2>3, <2>4, TwoFunctions DEF Clicked
<1>9. CASE g = "gross"
      <2>1. Functions[g] = <<Recorded("swallowed", 1), BbLive>>
            BY <1>9 DEF Functions, Gross
      <2>2. Sound(Recorded("swallowed", 1)) /\ Apart(Recorded("swallowed", 1), g)
            BY <1>9 DEF Sound, SoundStage, Apart, Clicked
      <2>3. Sound(BbLive) /\ Apart(BbLive, g)
            BY <1>9 DEF Sound, SoundStage, Apart, Clicked, BbLive
      <2>4. (Recorded("swallowed", 1)).line # (BbLive).line
            BY DEF BbLive
      <2> HIDE DEF Function, Recorded
      <2> QED BY <1>9, <2>1, <2>2, <2>3, <2>4, TwoFunctions DEF Clicked
<1>10. CASE g = "gauging"
       <2>1. Functions[g] = <<Recorded("says", 1), Recorded("says", 2)>>
             BY <1>10 DEF Functions, Gauging
       <2>2. Sound(Recorded("says", 1)) /\ Apart(Recorded("says", 1), g)
             BY <1>10 DEF Sound, SoundStage, Apart, Clicked
       <2>3. Sound(Recorded("says", 2)) /\ Apart(Recorded("says", 2), g)
             BY <1>10 DEF Sound, SoundStage, Apart, Clicked
       <2>4. (Recorded("says", 1)).line # (Recorded("says", 2)).line
             OBVIOUS
       <2> HIDE DEF Function, Recorded
       <2> QED BY <1>10, <2>1, <2>2, <2>3, <2>4, TwoFunctions DEF Clicked
<1>11. CASE g = "surgery"
       <2> DEFINE F == Recorded("says", 1)
                  G == Recorded("says", 2)
       <2>1. Sound(F) /\ Apart(F, g)
             BY <1>11 DEF Sound, SoundStage, Apart, Clicked
       <2>2. Sound(G) /\ Apart(G, g)
             BY <1>11 DEF Sound, SoundStage, Apart, Clicked
       <2>3. Sound(LsLive) /\ Apart(LsLive, g)
             BY <1>11 DEF Sound, SoundStage, Apart, Clicked, LsLive
       <2>4. F.line = 1 /\ G.line = 2 /\ LsLive.line = 3
             BY DEF LsLive
       <2>5. Functions[g] = <<F, G, LsLive>>
             BY <1>11 DEF Functions, Surgery
       <2> HIDE DEF F, G
       <2>6. DOMAIN Functions[g] = 1..3 /\ Functions[g][1] = F /\ Functions[g][2] = G /\ Functions[g][3] = LsLive
             BY <2>5
       <2>7. \A f \in 1..3 : f = 1 \/ f = 2 \/ f = 3
             OBVIOUS
       <2> QED BY <1>11, <2>1, <2>2, <2>3, <2>4, <2>6, <2>7 DEF Lines, Clicked
<1>12. CASE g = "coherent"
       <2> DEFINE F == Recorded("claimed", 1)
       <2>1. Sound(F) /\ Apart(F, g)
             BY <1>12 DEF Sound, SoundStage, Apart, Clicked
       <2>2. Functions[g] = <<F>>
             BY <1>12 DEF Functions, Coherent
       <2> HIDE DEF F
       <2> QED BY <1>12, <2>1, <2>2, OneFunction
<1>13. CASE g = "xcheck"
       <2>1. Functions[g] = <<XcStart, XcMore>>
             BY <1>13 DEF Functions, Xcheck
       <2>2. Sound(XcStart) /\ Apart(XcStart, g)
             BY <1>13 DEF Sound, SoundStage, Apart, Clicked, XcStart
       <2>3. Sound(XcMore) /\ Apart(XcMore, g)
             BY <1>13 DEF Sound, SoundStage, Apart, Clicked, XcMore
       <2> HIDE DEF Function, Recorded
       <2> QED BY <1>13, <2>1, <2>2, <2>3, TwoFunctions DEF Clicked
<1> QED BY <1>1, <1>2, <1>3, <1>4, <1>5, <1>6, <1>7, <1>8, <1>9, <1>10, <1>11, <1>12, <1>13 DEF FigureNames

(* The comparison of decoders: its second function is one call.             *)
LEMMA XcheckIs ==
    /\ Functions["xcheck"][1] = XcStart /\ Functions["xcheck"][2] = XcMore
    /\ XcStart.draws = FALSE /\ XcStart.line = 1 /\ XcStart.escaped = "lost"
    /\ XcMore.draws = FALSE /\ XcMore.line = 1
    /\ Len(XcMore.stages) = 1 /\ DOMAIN XcMore.stages = {1} /\ XcMore.stages[1].what = "call"
    /\ XcMore.stages[1].fails = "says" /\ XcMore.stages[1].throws = "says" /\ XcMore.stages[1].tells = "puts"
<1>1. Functions["xcheck"][1] = XcStart /\ Functions["xcheck"][2] = XcMore
      BY DEF Functions, Xcheck
<1>2. XcStart.draws = FALSE /\ XcStart.line = 1 /\ XcStart.escaped = "lost"
      BY DEF XcStart, Function
<1>3. XcMore.draws = FALSE /\ XcMore.line = 1 /\ XcMore.stages = <<Stage("call", "says", "says", "puts")>>
      BY DEF XcMore, Function
<1> QED BY <1>1, <1>2, <1>3 DEF Stage

-----------------------------------------------------------------------------
(* The steps of a run, as what they change.                                 *)
Elsewhere(R, N, r) == \A q \in DOMAIN R : q # r => N[q] = R[q]

JobMoved(R, N, r, s, j, v) ==
    /\ Shaped(N) /\ DOMAIN N = DOMAIN R /\ Len(N) = Len(R)
    /\ \A q \in DOMAIN R : /\ N[q].f = R[q].f /\ N[q].at = R[q].at /\ DOMAIN N[q].jobs = DOMAIN R[q].jobs
                           /\ q # r => N[q].jobs = R[q].jobs
    /\ \A q \in DOMAIN R : \A t \in DOMAIN R[q].jobs :
          DOMAIN N[q].jobs[t] = DOMAIN R[q].jobs[t] /\ (q # r \/ t # s => N[q].jobs[t] = R[q].jobs[t])
    /\ \A k \in DOMAIN R[r].jobs[s] : k # j => N[r].jobs[s][k] = R[r].jobs[s][k]
    /\ N[r].jobs[s][j] = v

RunEnded(R, N, r) ==
    /\ Shaped(N) /\ Len(N) = Len(R) /\ DOMAIN N = DOMAIN R
    /\ Elsewhere(R, N, r)
    /\ N[r].f = R[r].f /\ N[r].at = Ended /\ N[r].jobs = R[r].jobs

RunBegun(R, N, f) ==
    /\ Shaped(N) /\ Len(N) = Len(R) + 1 /\ DOMAIN N = DOMAIN R \cup {Len(N)} /\ Len(N) \notin DOMAIN R
    /\ \A q \in DOMAIN R : N[q] = R[q] /\ q < Len(N)
    /\ N[Len(N)] = Begun(f)

StageReached(R, N, r) ==
    /\ Shaped(N) /\ Len(N) = Len(R) /\ DOMAIN N = DOMAIN R
    /\ Elsewhere(R, N, r)
    /\ N[r].f = R[r].f /\ N[r].at = R[r].at + 1
    /\ DOMAIN N[r].jobs = DOMAIN R[r].jobs \cup {R[r].at + 1} /\ R[r].at + 1 \notin DOMAIN R[r].jobs
    /\ \A t \in DOMAIN R[r].jobs : t < R[r].at + 1 /\ N[r].jobs[t] = R[r].jobs[t]
    /\ N[r].jobs[R[r].at + 1] = Sent(Functions[figure][R[r].f].stages[R[r].at + 1])

SoundFigure == figure \in FigureNames /\ Jobs \in Nat \ {0}

(* What a stage sends are jobs within the bound, and none of them is back.    *)
LEMMA SentIs ==
    ASSUME Jobs \in Nat \ {0}, NEW stage, stage.what \in {"load", "call", "jobs", "timed", "timer"}
    PROVE  /\ Sent(stage) \in Seq(JobStates) /\ DOMAIN Sent(stage) \subseteq 1..Jobs
           /\ \A j \in DOMAIN Sent(stage) : Sent(stage)[j] \in {"out", "queued"}
           /\ stage.what \in {"load", "timer"} => DOMAIN Sent(stage) = {}
           /\ stage.what = "call" => Sent(stage) = <<"out">>
           /\ stage.what = "jobs" => DOMAIN Sent(stage) = 1..Jobs
<1>1. CASE stage.what = "jobs"
      <2>1. Sent(stage) = [j \in 1..Jobs |-> "out"]
            BY <1>1 DEF Sent
      <2>2. [j \in 1..Jobs |-> "out"] \in Seq(JobStates)
            BY DEF JobStates
      <2> QED BY <1>1, <2>1, <2>2
<1>2. CASE stage.what = "call"
      <2>1. Sent(stage) = <<"out">>
            BY <1>2 DEF Sent
      <2> QED BY <1>2, <2>1 DEF JobStates
<1>3. CASE stage.what = "timed"
      <2>1. Sent(stage) = [j \in 1..Jobs |-> IF j = 1 THEN "out" ELSE "queued"]
            BY <1>3 DEF Sent
      <2>2. [j \in 1..Jobs |-> IF j = 1 THEN "out" ELSE "queued"] \in Seq(JobStates)
            BY DEF JobStates
      <2> QED BY <1>3, <2>1, <2>2
<1>4. CASE stage.what \in {"load", "timer"}
      <2>1. Sent(stage) = <<>>
            BY <1>4 DEF Sent
      <2> QED BY <1>4, <2>1
<1> QED BY <1>1, <1>2, <1>3, <1>4

(* So it is of the figure that was chosen.                                  *)
LEMMA FigureIs ==
    ASSUME SoundFigure
    PROVE  Lines(figure) /\ \A f \in DOMAIN Functions[figure] : Sound(Functions[figure][f]) /\ Apart(Functions[figure][f], figure)
BY FunctionsAre DEF SoundFigure

(* A run of the right shape.                                                *)
RunShaped(run) ==
    /\ run.f \in DOMAIN Functions[figure]
    /\ Len(run.jobs) \in 1..Len(Functions[figure][run.f].stages)
    /\ run.at \in {Ended, Len(run.jobs)}
    /\ \A s \in DOMAIN run.jobs : DOMAIN run.jobs[s] = DOMAIN Sent(Functions[figure][run.f].stages[s])

(* The runs as a sequence.                                                  *)
LEMMA ShapedIs ==
    ASSUME NEW R, Shaped(R)
    PROVE  /\ R \in Seq(Runs) /\ DOMAIN R = 1..Len(R) /\ Len(R) \in Nat
           /\ \A r \in DOMAIN R : R[r] \in Runs /\ RunShaped(R[r])
BY DEF Shaped, RunShaped

(* The stage of a run, as its function has it.                              *)
LEMMA RunIs ==
    ASSUME SoundFigure, NEW R, Shaped(R), NEW r \in DOMAIN R
    PROVE  /\ R[r].f \in DOMAIN Functions[figure] /\ R[r].f \in Nat /\ R[r].at \in Nat /\ r \in Nat \ {0}
           /\ R[r].jobs \in Seq(Seq(JobStates))
           /\ DOMAIN R[r].jobs = 1..Len(R[r].jobs) /\ Len(R[r].jobs) \in Nat /\ 1 \in DOMAIN R[r].jobs
           /\ R[r].at # Ended => R[r].at = Len(R[r].jobs) /\ R[r].at \in DOMAIN R[r].jobs
           /\ DOMAIN R[r].jobs \subseteq DOMAIN Functions[figure][R[r].f].stages
           /\ \A s \in DOMAIN R[r].jobs :
                /\ SoundStage(Functions[figure][R[r].f], s)
                /\ DOMAIN R[r].jobs[s] \subseteq 1..Jobs
                /\ DOMAIN R[r].jobs[s] = DOMAIN Sent(Functions[figure][R[r].f].stages[s])
                /\ \A j \in DOMAIN R[r].jobs[s] : R[r].jobs[s][j] \in JobStates
<1> DEFINE F == Functions[figure][R[r].f]
<1>1. R[r] \in Runs /\ RunShaped(R[r]) /\ DOMAIN R = 1..Len(R) /\ Len(R) \in Nat
      BY ShapedIs
<1>2. R[r].f \in Nat /\ R[r].at \in Nat /\ R[r].jobs \in Seq(Seq(JobStates))
      BY <1>1 DEF Runs
<1>3. /\ R[r].f \in DOMAIN Functions[figure] /\ Len(R[r].jobs) \in 1..Len(F.stages)
      /\ R[r].at \in {Ended, Len(R[r].jobs)}
      /\ \A s \in DOMAIN R[r].jobs : DOMAIN R[r].jobs[s] = DOMAIN Sent(F.stages[s])
      BY <1>1 DEF RunShaped
<1>4. Sound(F)
      BY <1>3, FigureIs
<1> DEFINE J == R[r].jobs
<1>5. J \in Seq(Seq(JobStates)) /\ Len(J) \in 1..Len(F.stages) /\ DOMAIN F.stages = 1..Len(F.stages) /\ Len(F.stages) \in Nat
      BY <1>2, <1>3, <1>4 DEF Sound
<1>6. DOMAIN J = 1..Len(J) /\ Len(J) \in Nat /\ 1 \in DOMAIN J /\ DOMAIN J \subseteq DOMAIN F.stages /\ Len(J) \in DOMAIN J
      <2> HIDE DEF J, F
      <2> QED BY <1>5
<1>7. \A s \in DOMAIN J : \A j \in DOMAIN J[s] : J[s][j] \in JobStates
      <2> HIDE DEF J, F
      <2> QED BY <1>5
<1>8. ASSUME NEW s \in DOMAIN J
      PROVE  SoundStage(F, s) /\ DOMAIN J[s] \subseteq 1..Jobs
      <2>1. SoundStage(F, s)
            BY <1>4, <1>6 DEF Sound
      <2>2. F.stages[s].what \in {"load", "call", "jobs", "timed", "timer"}
            BY <2>1 DEF SoundStage
      <2>3. DOMAIN Sent(F.stages[s]) \subseteq 1..Jobs
            BY <2>2, SentIs DEF SoundFigure
      <2> QED BY <1>3, <2>1, <2>3
<1> HIDE DEF F, J
<1>9. /\ R[r].f \in DOMAIN Functions[figure] /\ R[r].f \in Nat /\ R[r].at \in Nat /\ r \in Nat \ {0}
      /\ J \in Seq(Seq(JobStates)) /\ DOMAIN J = 1..Len(J) /\ Len(J) \in Nat /\ 1 \in DOMAIN J
      /\ R[r].at # Ended => R[r].at = Len(J) /\ R[r].at \in DOMAIN J
      /\ DOMAIN J \subseteq DOMAIN F.stages
      BY <1>1, <1>2, <1>3, <1>5, <1>6 DEF J
<1>10. \A s \in DOMAIN J :
         /\ SoundStage(F, s)
         /\ DOMAIN J[s] \subseteq 1..Jobs
         /\ DOMAIN J[s] = DOMAIN Sent(F.stages[s])
         /\ \A j \in DOMAIN J[s] : J[s][j] \in JobStates
       BY <1>3, <1>7, <1>8 DEF J
<1> QED BY <1>9, <1>10 DEF F, J

(* A sequence of runs of the right shape.                                   *)
LEMMA ShapeMade ==
    ASSUME NEW N, N \in Seq(Runs), \A r \in DOMAIN N : RunShaped(N[r])
    PROVE  Shaped(N)
BY DEF Shaped, RunShaped

(* Writing one job's state changes nothing else.                            *)
LEMMA JobMoves ==
    ASSUME SoundFigure, NEW R, Shaped(R), NEW r \in DOMAIN R, NEW s \in DOMAIN R[r].jobs, NEW j \in DOMAIN R[r].jobs[s],
           NEW v \in JobStates
    PROVE  JobMoved(R, [R EXCEPT ![r].jobs[s][j] = v], r, s, j, v)
<1> DEFINE N == [R EXCEPT ![r].jobs[s][j] = v]
           J == R[r].jobs
           row == [J[s] EXCEPT ![j] = v]
           K == [J EXCEPT ![s] = row]
           run == [R[r] EXCEPT !.jobs = K]
<1>1. R \in Seq(Runs) /\ R[r] \in Runs /\ RunShaped(R[r]) /\ DOMAIN R = 1..Len(R)
      BY ShapedIs
<1>2. N = [R EXCEPT ![r] = run]
      OBVIOUS
<1>3. J \in Seq(Seq(JobStates)) /\ s \in DOMAIN J /\ DOMAIN J = 1..Len(J)
      BY RunIs
<1>4. J[s] \in Seq(JobStates)
      <2> HIDE DEF J
      <2> QED BY <1>3
<1>5. row \in Seq(JobStates) /\ DOMAIN row = DOMAIN J[s] /\ \A k \in DOMAIN J[s] : row[k] = IF k = j THEN v ELSE J[s][k]
      <2> DEFINE old == J[s]
      <2>1. old \in Seq(JobStates) /\ j \in DOMAIN old
            BY <1>4
      <2> HIDE DEF old, J
      <2>2. [old EXCEPT ![j] = v] \in Seq(JobStates)
            BY <2>1
      <2> USE DEF old
      <2> QED BY <2>2
<1>6. K \in Seq(Seq(JobStates)) /\ DOMAIN K = DOMAIN J /\ Len(K) = Len(J) /\ K[s] = row /\ \A t \in DOMAIN J : t # s => K[t] = J[t]
      <2> HIDE DEF J, row
      <2> QED BY <1>3, <1>5
<1>7. run \in Runs /\ run.f = R[r].f /\ run.at = R[r].at /\ run.jobs = K
      <2> HIDE DEF K
      <2> QED BY <1>1, <1>6 DEF Runs
<1>8. N \in Seq(Runs) /\ Len(N) = Len(R) /\ DOMAIN N = DOMAIN R /\ N[r] = run /\ \A q \in DOMAIN R : q # r => N[q] = R[q]
      <2> HIDE DEF run
      <2> QED BY <1>1, <1>2, <1>7
<1>9. \A t \in DOMAIN K : DOMAIN K[t] = DOMAIN J[t]
      <2> HIDE DEF K, row, J
      <2> QED BY <1>5, <1>6
<1>10. RunShaped(run)
       <2> HIDE DEF K, run
       <2> QED BY <1>1, <1>6, <1>7, <1>9 DEF RunShaped
<1>11. Shaped(N)
       <2> HIDE DEF N, run
       <2>1. \A q \in DOMAIN N : RunShaped(N[q])
             BY <1>8, <1>10, ShapedIs
       <2> QED BY <1>8, <2>1, ShapeMade
<1> HIDE DEF N, run, K, row
<1> HIDE DEF J
<1>12. /\ Elsewhere(R, N, r) /\ N[r].f = R[r].f /\ N[r].at = R[r].at /\ N[r].jobs = K
       BY <1>7, <1>8 DEF Elsewhere
<1>13. JobMoved(R, N, r, s, j, v)
       <2>1. \A t \in DOMAIN J : DOMAIN K[t] = DOMAIN J[t] /\ (t # s => K[t] = J[t])
             BY <1>6, <1>9
       <2>2. \A k \in DOMAIN J[s] : K[s][k] = IF k = j THEN v ELSE J[s][k]
             BY <1>5, <1>6
       <2>3. ASSUME NEW q \in DOMAIN R
             PROVE  /\ N[q].f = R[q].f /\ N[q].at = R[q].at /\ DOMAIN N[q].jobs = DOMAIN R[q].jobs
                    /\ q # r => N[q].jobs = R[q].jobs
                    /\ \A t \in DOMAIN R[q].jobs :
                         DOMAIN N[q].jobs[t] = DOMAIN R[q].jobs[t] /\ (q # r \/ t # s => N[q].jobs[t] = R[q].jobs[t])
             <3>1. CASE q = r
                   BY <1>6, <1>12, <2>1, <3>1 DEF J
             <3>2. CASE q # r
                   BY <1>12, <3>2 DEF Elsewhere
             <3> QED BY <3>1, <3>2
       <2>4. N[r].jobs[s][j] = v /\ \A k \in DOMAIN R[r].jobs[s] : k # j => N[r].jobs[s][k] = R[r].jobs[s][k]
             BY <1>6, <1>12, <2>2 DEF J
       <2> QED BY <1>8, <1>11, <2>3, <2>4 DEF JobMoved
<1> QED BY <1>13 DEF N

(* Ending a run changes nothing but its stage.                              *)
LEMMA RunEnds ==
    ASSUME SoundFigure, NEW R, Shaped(R), NEW r \in DOMAIN R
    PROVE  RunEnded(R, [R EXCEPT ![r].at = Ended], r)
<1> DEFINE N == [R EXCEPT ![r].at = Ended]
           run == [R[r] EXCEPT !.at = Ended]
<1>1. R \in Seq(Runs) /\ R[r] \in Runs /\ RunShaped(R[r]) /\ DOMAIN R = 1..Len(R)
      BY ShapedIs
<1>2. N = [R EXCEPT ![r] = run]
      OBVIOUS
<1>3. run \in Runs /\ run.f = R[r].f /\ run.at = Ended /\ run.jobs = R[r].jobs
      BY <1>1 DEF Runs, Ended
<1> HIDE DEF run
<1>4. N \in Seq(Runs) /\ Len(N) = Len(R) /\ DOMAIN N = DOMAIN R /\ N[r] = run /\ \A q \in DOMAIN R : q # r => N[q] = R[q]
      BY <1>1, <1>2, <1>3
<1>5. RunShaped(run)
      BY <1>1, <1>3 DEF RunShaped
<1> HIDE DEF N
<1>6. \A q \in DOMAIN N : RunShaped(N[q])
      BY <1>4, <1>5, ShapedIs
<1>7. Shaped(N)
      BY <1>4, <1>6, ShapeMade
<1>8. RunEnded(R, N, r)
      BY <1>3, <1>4, <1>7 DEF RunEnded, Elsewhere
<1> QED BY <1>8 DEF N

(* A run begins with the jobs of its first stage.                           *)
LEMMA BegunIs ==
    ASSUME SoundFigure, NEW f \in DOMAIN Functions[figure]
    PROVE  /\ Begun(f) \in Runs /\ RunShaped(Begun(f))
           /\ Begun(f).f = f /\ Begun(f).at = 1 /\ DOMAIN Begun(f).jobs = {1}
           /\ Begun(f).jobs[1] = Sent(Functions[figure][f].stages[1])
           /\ \A j \in DOMAIN Begun(f).jobs[1] : Begun(f).jobs[1][j] \in {"out", "queued"}
           /\ figure = "xcheck" /\ f = 2 => Begun(f).jobs[1][1] = "out"
<1> DEFINE F == Functions[figure][f]
           J == <<Sent(F.stages[1])>>
<1>1. Sound(F) /\ Lines(figure)
      BY FigureIs
<1>2. 1 \in DOMAIN F.stages /\ Len(F.stages) \in Nat \ {0} /\ SoundStage(F, 1)
      <2> HIDE DEF F
      <2> QED BY <1>1 DEF Sound
<1>3. F.stages[1].what \in {"load", "call", "jobs", "timed", "timer"}
      BY <1>2 DEF SoundStage
<1>4. Sent(F.stages[1]) \in Seq(JobStates) /\ \A j \in DOMAIN Sent(F.stages[1]) : Sent(F.stages[1])[j] \in {"out", "queued"}
      BY <1>3, SentIs DEF SoundFigure
<1>5. f \in Nat
      BY <1>1 DEF Lines
<1>6. figure = "xcheck" /\ f = 2 => Sent(F.stages[1]) = <<"out">>
      BY <1>3, XcheckIs, SentIs DEF SoundFigure
<1>7. Begun(f) = [f |-> f, at |-> 1, jobs |-> J]
      BY DEF Begun
<1> DEFINE first == Sent(F.stages[1])
<1>8. J = <<first>>
      OBVIOUS
<1> HIDE DEF first
<1>9. J \in Seq(Seq(JobStates)) /\ DOMAIN J = {1} /\ Len(J) = 1 /\ J[1] = first
      <2>1. first \in Seq(JobStates)
            BY <1>4 DEF first
      <2> HIDE DEF J
      <2> QED BY <1>8, <2>1
<1> HIDE DEF J, F
<1>10. Begun(f) \in Runs
       BY <1>5, <1>7, <1>9 DEF Runs
<1>11. RunShaped(Begun(f))
       <2>1. DOMAIN J[1] = DOMAIN Sent(F.stages[1]) /\ Len(J) \in 1..Len(F.stages)
             BY <1>2, <1>9 DEF first
       <2>2. Begun(f).f = f /\ Begun(f).at = 1 /\ Begun(f).jobs = J
             BY <1>7
       <2> DEFINE run == Begun(f)
       <2> HIDE DEF run
       <2>3. run.f = f /\ run.at = 1 /\ run.jobs = J
             BY <2>2 DEF run
       <2>4. \A s \in DOMAIN run.jobs : DOMAIN run.jobs[s] = DOMAIN Sent(Functions[figure][run.f].stages[s])
             BY <1>9, <2>1, <2>3 DEF F
       <2>5. RunShaped(run)
             BY <1>9, <2>1, <2>3, <2>4 DEF RunShaped, F
       <2> QED BY <2>5 DEF run
<1>12. /\ J[1] = Sent(Functions[figure][f].stages[1]) /\ \A j \in DOMAIN J[1] : J[1][j] \in {"out", "queued"}
       /\ figure = "xcheck" /\ f = 2 => J[1] = <<"out">>
       BY <1>4, <1>6, <1>9 DEF F, first
<1> QED BY <1>7, <1>9, <1>10, <1>11, <1>12

(* Appending it leaves the other runs.                                      *)
LEMMA RunBegins ==
    ASSUME SoundFigure, NEW R, Shaped(R), NEW f \in DOMAIN Functions[figure]
    PROVE  RunBegun(R, Append(R, Begun(f)), f)
<1> DEFINE run == Begun(f)
           N == Append(R, run)
<1>1. run \in Runs /\ RunShaped(run)
      BY BegunIs
<1>2. R \in Seq(Runs) /\ DOMAIN R = 1..Len(R) /\ Len(R) \in Nat
      BY ShapedIs
<1> HIDE DEF run
<1>3. N \in Seq(Runs) /\ Len(N) = Len(R) + 1 /\ DOMAIN N = 1..(Len(R) + 1) /\ N[Len(R) + 1] = run /\ \A q \in DOMAIN R : N[q] = R[q]
      BY <1>1, <1>2
<1> HIDE DEF N
<1>4. DOMAIN N = DOMAIN R \cup {Len(N)} /\ Len(N) \notin DOMAIN R /\ \A q \in DOMAIN R : q < Len(N)
      BY <1>2, <1>3
<1>5. \A q \in DOMAIN N : RunShaped(N[q])
      BY <1>1, <1>3, <1>4, ShapedIs
<1>6. Shaped(N)
      BY <1>3, <1>5, ShapeMade
<1> QED BY <1>3, <1>4, <1>6 DEF RunBegun, N, run

(* Reaching a stage adds its jobs and leaves the others.                    *)
LEMMA StageReaches ==
    ASSUME SoundFigure, NEW R, Shaped(R), NEW r \in DOMAIN R, R[r].at # Ended,
           R[r].at < Len(Functions[figure][R[r].f].stages)
    PROVE  StageReached(R, [R EXCEPT ![r] = Reached(R[r])], r)
<1> DEFINE N == [R EXCEPT ![r] = Reached(R[r])]
           J == R[r].jobs
           F == Functions[figure][R[r].f]
           next == Sent(F.stages[R[r].at + 1])
           run == Reached(R[r])
<1>1. R \in Seq(Runs) /\ R[r] \in Runs /\ RunShaped(R[r]) /\ DOMAIN R = 1..Len(R)
      BY ShapedIs
<1>2. /\ J \in Seq(Seq(JobStates)) /\ DOMAIN J = 1..Len(J) /\ Len(J) \in Nat /\ R[r].at = Len(J)
      /\ R[r].f \in DOMAIN Functions[figure]
      BY RunIs
<1>3. Sound(F)
      BY <1>2, FigureIs
<1>4. Len(J) + 1 \in DOMAIN F.stages /\ Len(F.stages) \in Nat
      <2>1. Len(J) < Len(F.stages)
            BY <1>2
      <2> HIDE DEF F, J
      <2> QED BY <1>2, <1>3, <2>1 DEF Sound
<1>5. SoundStage(F, R[r].at + 1)
      <2> HIDE DEF F
      <2> QED BY <1>2, <1>3, <1>4 DEF Sound
<1>6. next \in Seq(JobStates)
      <2>1. F.stages[R[r].at + 1].what \in {"load", "call", "jobs", "timed", "timer"}
            BY <1>5 DEF SoundStage
      <2> QED BY <2>1, SentIs DEF SoundFigure
<1>7. run = [R[r] EXCEPT !.at = R[r].at + 1, !.jobs = Append(J, next)]
      BY DEF Reached
<1> DEFINE K == Append(J, next)
<1>8. K \in Seq(Seq(JobStates)) /\ Len(K) = Len(J) + 1 /\ DOMAIN K = 1..(Len(J) + 1) /\ K[Len(J) + 1] = next /\ \A t \in DOMAIN J : K[t] = J[t]
      <2> HIDE DEF J, next
      <2> QED BY <1>2, <1>6
<1> HIDE DEF K
<1>9. run \in Runs /\ run.f = R[r].f /\ run.at = R[r].at + 1 /\ run.jobs = K
      <2>1. run = [R[r] EXCEPT !.at = R[r].at + 1, !.jobs = K]
            BY <1>7 DEF K
      <2>2. R[r].at + 1 \in Nat
            BY <1>2
      <2> HIDE DEF run
      <2> QED BY <1>1, <1>8, <2>1, <2>2 DEF Runs
<1> HIDE DEF run
<1>10. N \in Seq(Runs) /\ Len(N) = Len(R) /\ DOMAIN N = DOMAIN R /\ N[r] = run /\ \A q \in DOMAIN R : q # r => N[q] = R[q]
       <2>1. N = [R EXCEPT ![r] = run]
             BY DEF run
       <2> HIDE DEF N
       <2> QED BY <1>1, <1>9, <2>1
<1>11. RunShaped(run)
       <2>1. \A t \in DOMAIN J : DOMAIN J[t] = DOMAIN Sent(F.stages[t])
             BY <1>1 DEF RunShaped
       <2>2. \A t \in DOMAIN K : DOMAIN K[t] = DOMAIN Sent(F.stages[t])
             <3>1. K[Len(J) + 1] = Sent(F.stages[Len(J) + 1])
                   BY <1>2, <1>8
             <3>2. DOMAIN K = DOMAIN J \cup {Len(J) + 1}
                   <4> HIDE DEF J
                   <4> QED BY <1>2, <1>8
             <3> HIDE DEF J, F
             <3> QED BY <1>8, <2>1, <3>1, <3>2
       <2>3. Len(K) \in 1..Len(F.stages) /\ run.at = Len(K)
             <3> DEFINE n == Len(F.stages)
             <3>1. Len(J) < n
                   BY <1>2
             <3> HIDE DEF J, n
             <3> QED BY <1>2, <1>4, <1>8, <1>9, <3>1 DEF n
       <2> HIDE DEF J
       <2> QED BY <1>2, <1>9, <2>2, <2>3 DEF RunShaped
<1> HIDE DEF N
<1>12. \A q \in DOMAIN N : RunShaped(N[q])
       BY <1>10, <1>11, ShapedIs
<1>13. Shaped(N)
       BY <1>10, <1>12, ShapeMade
<1>14. DOMAIN K = DOMAIN J \cup {R[r].at + 1} /\ R[r].at + 1 \notin DOMAIN J /\ \A t \in DOMAIN J : t < R[r].at + 1
       <2> DEFINE a == R[r].at
       <2>1. a = Len(J)
             BY <1>2
       <2> HIDE DEF J, a
       <2>2. DOMAIN K = DOMAIN J \cup {a + 1} /\ a + 1 \notin DOMAIN J /\ \A t \in DOMAIN J : t < a + 1
             BY <1>2, <1>8, <2>1
       <2> QED BY <2>2 DEF a
<1>15. K[R[r].at + 1] = next /\ \A t \in DOMAIN J : K[t] = J[t]
       BY <1>2, <1>8
<1> HIDE DEF J, F
<1>16. StageReached(R, N, r)
       <2>1. /\ DOMAIN N[r].jobs = DOMAIN R[r].jobs \cup {R[r].at + 1} /\ R[r].at + 1 \notin DOMAIN R[r].jobs
             /\ \A t \in DOMAIN R[r].jobs : t < R[r].at + 1 /\ N[r].jobs[t] = R[r].jobs[t]
             BY <1>9, <1>10, <1>14, <1>15 DEF J
       <2>2. N[r].jobs[R[r].at + 1] = Sent(Functions[figure][R[r].f].stages[R[r].at + 1])
             BY <1>9, <1>10, <1>15 DEF F
       <2> QED BY <1>9, <1>10, <1>13, <2>1, <2>2 DEF StageReached, Elsewhere
<1> QED BY <1>16 DEF N, run

-----------------------------------------------------------------------------
(* What is said of a run's jobs does not depend on the other runs.           *)
LEMMA SameJobs ==
    ASSUME NEW R, NEW N, NEW q, N[q].jobs = R[q].jobs
    PROVE  /\ Settled(N, q) <=> Settled(R, q)
           /\ Drawable(N, q) = Drawable(R, q)
           /\ \A t : AllBack(N, q, t) <=> AllBack(R, q, t)
BY DEF Settled, Drawable, AllBack, Answers

(* A run that is going is the newest of its function.                       *)
LEMMA GoingIsNewest ==
    ASSUME SoundFigure, NEW R, NEW b, NEW dis, Shaped(R), InTurn(R, b, dis), ~Excused(dis),
           NEW r \in DOMAIN R, R[r].at # Ended
    PROVE  Newest(R, r)
<1> SUFFICES ASSUME NEW q \in DOMAIN R, R[q].f = R[r].f
             PROVE  q <= r
    BY DEF Newest
<1>1. DOMAIN R = 1..Len(R) /\ Len(R) \in Nat
      BY ShapedIs
<1>2. q \in Nat /\ r \in Nat /\ q <= Len(R)
      BY <1>1
<1>3. CASE figure \notin Clicked \cup {"xcheck"}
      <2>1. R[q].f = q /\ R[r].f = r
            BY <1>3 DEF InTurn
      <2>2. q = r
            BY <2>1
      <2> QED BY <1>2, <2>2
<1>4. CASE figure = "xcheck" /\ r = 1
      <2>1. R[r].f = 1 /\ R[q].f = IF q = 1 THEN 1 ELSE 2
            BY <1>4 DEF InTurn
      <2>2. q = 1
            BY <2>1
      <2> QED BY <2>2, <1>4
<1>5. CASE figure \in Clicked \/ (figure = "xcheck" /\ r # 1)
      <2>1. r = Len(R)
            <3>1. figure \in Clicked \cup {"xcheck"} /\ (figure = "xcheck" => r # 1)
                  BY <1>5 DEF Clicked
            <3> QED BY <3>1 DEF InTurn
      <2> QED BY <1>2, <2>1
<1> QED BY <1>3, <1>4, <1>5

(* The line of a function that is going does not say it is done.            *)
LEMMA GoingIsNotDone ==
    ASSUME SoundFigure, NEW R, NEW sd, NEW sh, NEW b, NEW dis, Shaped(R), InTurn(R, b, dis), Finished(R, sd, sh, dis),
           ~Excused(dis), NEW r \in DOMAIN R, R[r].at # Ended
    PROVE  sd[Line(R[r].f)] # Done(R[r].f)
<1> SUFFICES ASSUME sd[Line(R[r].f)] = Done(R[r].f)
             PROVE  FALSE
    OBVIOUS
<1>1. R[r].f \in DOMAIN Functions[figure]
      BY RunIs
<1>2. PICK q \in DOMAIN R : R[q].f = R[r].f /\ Newest(R, q) /\ R[q].at = Ended
      BY <1>1 DEF Finished
<1>3. Newest(R, r)
      BY GoingIsNewest
<1>4. q <= r /\ r <= q
      BY <1>2, <1>3 DEF Newest
<1>5. q \in Nat /\ r \in Nat
      BY RunIs
<1>6. q = r
      BY <1>4, <1>5
<1> QED BY <1>2, <1>6

(* The comparison of the larger models is one job.                           *)
LEMMA OneJob ==
    ASSUME SoundFigure, figure = "xcheck", NEW R, Shaped(R), NEW r \in DOMAIN R, R[r].f = 2
    PROVE  DOMAIN R[r].jobs = {1} /\ DOMAIN R[r].jobs[1] = {1}
<1>1. /\ DOMAIN R[r].jobs \subseteq DOMAIN Functions[figure][2].stages /\ 1 \in DOMAIN R[r].jobs
      /\ DOMAIN R[r].jobs[1] = DOMAIN Sent(Functions[figure][2].stages[1])
      BY RunIs
<1>2. Functions[figure][2] = XcMore /\ DOMAIN XcMore.stages = {1} /\ XcMore.stages[1].what = "call"
      BY XcheckIs
<1>3. Sent(XcMore.stages[1]) = <<"out">>
      BY <1>2, SentIs DEF SoundFigure
<1>4. DOMAIN <<"out">> = {1}
      OBVIOUS
<1> QED BY <1>1, <1>2, <1>3, <1>4

(* A progressive function whose run is going has no job of another run out.   *)
LEMMA Sole ==
    ASSUME SoundFigure, NEW R, NEW b, NEW dis, Shaped(R), InTurn(R, b, dis), Kept(R, dis), ~Excused(dis),
           NEW q \in DOMAIN R, R[q].at # Ended, ~Functions[figure][R[q].f].draws,
           NEW r \in DOMAIN R, NEW s \in DOMAIN R[r].jobs, NEW j \in DOMAIN R[r].jobs[s],
           R[r].jobs[s][j] \in {"out", "told"}, R[r].f = R[q].f
    PROVE  r = q
<1>1. R[q].f \in DOMAIN Functions[figure] /\ q \in Nat /\ r \in Nat
      BY RunIs
<1>2. CASE figure \notin Clicked \cup {"xcheck"}
      BY <1>2 DEF InTurn
<1>3. CASE figure \in Clicked
      <2>1. figure = "sweep"
            BY <1>1, <1>3, FigureIs DEF Apart
      <2>2. ~dis
            BY <2>1 DEF Excused
      <2>3. R[r].at # Ended
            <3>1. ~AllBack(R, r, s)
                  BY DEF AllBack
            <3> QED BY <2>1, <2>2, <3>1 DEF Kept
      <2> QED BY <1>3, <2>1, <2>3 DEF InTurn
<1>4. CASE figure = "xcheck"
      <2>1. /\ r = 1 => R[r].f = 1
            /\ r # 1 => R[r].f = 2
            /\ q = 1 => R[q].f = 1
            /\ q # 1 => R[q].f = 2
            BY <1>4 DEF InTurn
      <2>2. CASE q = 1
            BY <2>1, <2>2
      <2>3. CASE q # 1
            <3>1. R[r].f = 2 /\ r # 1
                  BY <2>1, <2>3
            <3>2. s = 1 /\ j = 1
                  BY <1>4, <3>1, OneJob
            <3>3. R[r].at # Ended
                  BY <1>4, <3>1, <3>2 DEF Kept
            <3> QED BY <1>4, <2>3, <3>1, <3>3 DEF InTurn
      <2> QED BY <2>2, <2>3
<1> QED BY <1>2, <1>3, <1>4

-----------------------------------------------------------------------------
(* A job that was not back changes: of each part, what it needs to hold on.   *)
Outstanding(R, r, s, j) == R[r].jobs[s][j] \in {"out", "told"} \/ (R[r].at # Ended /\ s = R[r].at)

(* A job that moves leaves the functions in turn.                           *)
LEMMA JobInTurn ==
    ASSUME NEW R, NEW N, NEW b, NEW dis, NEW r \in DOMAIN R, NEW s \in DOMAIN R[r].jobs, NEW j \in DOMAIN R[r].jobs[s], NEW v,
           JobMoved(R, N, r, s, j, v), InTurn(R, b, dis)
    PROVE  InTurn(N, b, dis)
<1>1. DOMAIN N = DOMAIN R /\ Len(N) = Len(R) /\ \A q \in DOMAIN R : N[q].f = R[q].f /\ N[q].at = R[q].at
      BY DEF JobMoved
<1> QED BY <1>1 DEF InTurn

(* What was back stays back when another job moves.                         *)
LEMMA JobAllBack ==
    ASSUME NEW R, NEW N, NEW r \in DOMAIN R, NEW s \in DOMAIN R[r].jobs, NEW j \in DOMAIN R[r].jobs[s], NEW v,
           JobMoved(R, N, r, s, j, v),
           NEW q \in DOMAIN R, NEW t \in DOMAIN R[q].jobs, AllBack(R, q, t),
           q # r \/ t # s \/ R[r].jobs[s][j] \in {"out", "told"}
    PROVE  AllBack(N, q, t)
<1>1. q # r \/ t # s
      BY DEF AllBack
<1>2. N[q].jobs[t] = R[q].jobs[t]
      BY <1>1 DEF JobMoved
<1> QED BY <1>2 DEF AllBack

(* So what was awaited before stays back.                                   *)
LEMMA JobKept ==
    ASSUME SoundFigure, NEW R, NEW N, NEW dis, NEW r \in DOMAIN R, NEW s \in DOMAIN R[r].jobs, NEW j \in DOMAIN R[r].jobs[s], NEW v,
           Shaped(R), JobMoved(R, N, r, s, j, v), Outstanding(R, r, s, j), Kept(R, dis),
           v \in {"told", "back", "stopped", "cut"} \/ R[r].at # Ended
    PROVE  Kept(N, dis)
<1> SUFFICES ASSUME NEW q \in DOMAIN N
             PROVE  /\ N[q].at # Ended => \A t \in DOMAIN N[q].jobs : t < N[q].at => AllBack(N, q, t)
                    /\ N[q].at = Ended /\ figure \in {"sweep", "bench", "channel"} /\ ~dis =>
                         \A t \in DOMAIN N[q].jobs : AllBack(N, q, t)
                    /\ N[q].at = Ended /\ figure = "xcheck" /\ N[q].f = 2 => N[q].jobs[1][1] \in {"back", "stopped", "cut"}
    BY DEF Kept
<1>1. q \in DOMAIN R /\ N[q].f = R[q].f /\ N[q].at = R[q].at /\ DOMAIN N[q].jobs = DOMAIN R[q].jobs /\ (q # r => N[q].jobs = R[q].jobs)
      BY DEF JobMoved
<1>2. ASSUME N[q].at # Ended, NEW t \in DOMAIN N[q].jobs, t < N[q].at
      PROVE  AllBack(N, q, t)
      <2>1. AllBack(R, q, t) /\ t \in DOMAIN R[q].jobs
            BY <1>1, <1>2 DEF Kept
      <2>2. t \in Nat /\ R[q].at \in Nat
            BY <2>1, <1>1, RunIs
      <2>3. q # r \/ t # s \/ R[r].jobs[s][j] \in {"out", "told"}
            <3>1. t # R[q].at
                  BY <1>1, <1>2, <2>2
            <3> QED BY <3>1 DEF Outstanding
      <2> QED BY <1>1, <2>1, <2>3, JobAllBack
<1>3. ASSUME N[q].at = Ended, figure \in {"sweep", "bench", "channel"}, ~dis, NEW t \in DOMAIN N[q].jobs
      PROVE  AllBack(N, q, t)
      <2>1. AllBack(R, q, t) /\ t \in DOMAIN R[q].jobs
            BY <1>1, <1>3 DEF Kept
      <2>2. q # r \/ t # s \/ R[r].jobs[s][j] \in {"out", "told"}
            BY <1>1, <1>3 DEF Outstanding
      <2> QED BY <1>1, <2>1, <2>2, JobAllBack
<1>4. ASSUME N[q].at = Ended, figure = "xcheck", N[q].f = 2
      PROVE  N[q].jobs[1][1] \in {"back", "stopped", "cut"}
      <2>1. R[q].jobs[1][1] \in {"back", "stopped", "cut"}
            BY <1>1, <1>4 DEF Kept
      <2>2. CASE q # r
            BY <1>1, <2>1, <2>2
      <2>3. CASE q = r
            <3>1. s = 1 /\ j = 1
                  <4>1. R[r].f = 2
                        BY <1>1, <1>4, <2>3
                  <4>2. DOMAIN R[r].jobs = {1} /\ DOMAIN R[r].jobs[1] = {1}
                        BY <1>4, <4>1, OneJob
                  <4> QED BY <4>2
            <3>2. FALSE
                  BY <1>1, <1>4, <2>1, <2>3, <3>1 DEF Outstanding
            <3> QED BY <3>2
      <2> QED BY <2>2, <2>3
<1> QED BY <1>2, <1>3, <1>4

(* No job is stopped but those of the bench.                                *)
LEMMA JobStops ==
    ASSUME NEW R, NEW N, NEW r \in DOMAIN R, NEW s \in DOMAIN R[r].jobs, NEW j \in DOMAIN R[r].jobs[s], NEW v,
           JobMoved(R, N, r, s, j, v), StopsAtBench(R), v = "stopped" => figure = "bench"
    PROVE  StopsAtBench(N)
<1> SUFFICES ASSUME figure # "bench", NEW q \in DOMAIN N, NEW t \in DOMAIN N[q].jobs, NEW k \in DOMAIN N[q].jobs[t]
             PROVE  N[q].jobs[t][k] # "stopped"
    BY DEF StopsAtBench
<1>1. q \in DOMAIN R /\ t \in DOMAIN R[q].jobs /\ k \in DOMAIN R[q].jobs[t]
      BY DEF JobMoved
<1>2. CASE q = r /\ t = s
      <2>1. CASE k = j
            BY <1>2, <2>1 DEF JobMoved
      <2>2. CASE k # j
            BY <1>1, <1>2, <2>2 DEF JobMoved, StopsAtBench
      <2> QED BY <2>1, <2>2
<1>3. CASE q # r \/ t # s
      BY <1>1, <1>3 DEF JobMoved, StopsAtBench
<1> QED BY <1>2, <1>3

(* A job of a run.                                                          *)
IsJob(R, r, x) == \E s \in DOMAIN R[r].jobs : \E j \in DOMAIN R[r].jobs[s] : x = <<r, s, j>>

(* What was drawn are jobs still.                                           *)
LEMMA JobOnShow ==
    ASSUME NEW R, NEW N, NEW sh, NEW sh2, NEW r \in DOMAIN R, NEW s \in DOMAIN R[r].jobs, NEW j \in DOMAIN R[r].jobs[s], NEW v,
           JobMoved(R, N, r, s, j, v), OnShow(R, sh),
           \A x \in sh2 : x \in sh \/ IsJob(R, r, x)
    PROVE  OnShow(N, sh2)
<1> SUFFICES ASSUME NEW x \in sh2
             PROVE  \E q \in DOMAIN N : \E t \in DOMAIN N[q].jobs : \E k \in DOMAIN N[q].jobs[t] : x = <<q, t, k>>
    BY DEF OnShow
<1>1. PICK q \in DOMAIN R : \E t \in DOMAIN R[q].jobs : \E k \in DOMAIN R[q].jobs[t] : x = <<q, t, k>>
      BY DEF OnShow, IsJob
<1>2. q \in DOMAIN N /\ DOMAIN N[q].jobs = DOMAIN R[q].jobs /\ \A t \in DOMAIN R[q].jobs : DOMAIN N[q].jobs[t] = DOMAIN R[q].jobs[t]
      BY DEF JobMoved
<1> QED BY <1>1, <1>2

(* What a going run reported is drawn, with the job that moved.             *)
LEMMA JobDrawn ==
    ASSUME SoundFigure, NEW R, NEW N, NEW sh, NEW sh2, NEW b, NEW dis,
           NEW r \in DOMAIN R, NEW s \in DOMAIN R[r].jobs, NEW j \in DOMAIN R[r].jobs[s], NEW v,
           Shaped(R), InTurn(R, b, dis), Kept(R, dis), OnShow(R, sh), Drawn(R, sh, dis), JobMoved(R, N, r, s, j, v),
           \A x \in sh : x \in sh2 \/ (R[r].jobs[s][j] \in {"out", "told"} /\ R[x[1]].f = R[r].f
                                     /\ (Functions[figure][R[r].f].draws \/ (x[2] = s /\ x[3] = j))),
           \A x \in sh2 : x \in sh \/ (x[1] = r /\ R[r].jobs[s][j] \in {"out", "told"}),
           R[r].at # Ended /\ ~Excused(dis) /\ ~Functions[figure][R[r].f].draws /\ Reported(N, r, s, j) => <<r, s, j>> \in sh2,
           figure = "xcheck" /\ R[r].f = 2 /\ v # "cut" =>
              R[r].jobs[s][j] = "told" \/ \A x \in sh2 : R[x[1]].f = 2 => x[1] = r \/ ~(x[2] = s /\ x[3] = j)
    PROVE  Drawn(N, sh2, dis)
<1> SUFFICES ASSUME ~Excused(dis), NEW q \in DOMAIN N, N[q].at # Ended, ~Functions[figure][N[q].f].draws
             PROVE  /\ \A t \in DOMAIN N[q].jobs : \A k \in DOMAIN N[q].jobs[t] : Reported(N, q, t, k) => <<q, t, k>> \in sh2
                    /\ \A x \in sh2 : N[x[1]].f = N[q].f /\ x[1] # q =>
                         figure = "xcheck" /\ N[q].f = 2 /\ N[q].jobs[1][1] \in {"out", "cut"}
    BY DEF Drawn
<1>1. /\ q \in DOMAIN R /\ N[q].f = R[q].f /\ N[q].at = R[q].at /\ DOMAIN N[q].jobs = DOMAIN R[q].jobs
      /\ q # r => N[q].jobs = R[q].jobs
      BY DEF JobMoved
<1>2. ASSUME R[r].jobs[s][j] \in {"out", "told"}, R[r].f = R[q].f
      PROVE  r = q
      BY <1>1, <1>2, Sole
<1>3. ASSUME NEW t \in DOMAIN N[q].jobs, NEW k \in DOMAIN N[q].jobs[t], Reported(N, q, t, k)
      PROVE  <<q, t, k>> \in sh2
      <2>1. CASE q = r /\ t = s /\ k = j
            BY <1>1, <1>3, <2>1
      <2>2. CASE ~(q = r /\ t = s /\ k = j)
            <3>1. t \in DOMAIN R[q].jobs /\ k \in DOMAIN R[q].jobs[t] /\ N[q].jobs[t][k] = R[q].jobs[t][k]
                  <4>1. CASE q = r /\ t = s
                        BY <1>1, <2>2, <4>1 DEF JobMoved
                  <4>2. CASE q # r \/ t # s
                        BY <1>1, <4>2 DEF JobMoved
                  <4> QED BY <4>1, <4>2
            <3>2. Reported(R, q, t, k)
                  BY <1>1, <1>3, <3>1 DEF Reported
            <3>3. <<q, t, k>> \in sh
                  BY <1>1, <3>1, <3>2 DEF Drawn
            <3> DEFINE x == <<q, t, k>>
            <3>4. x \in sh /\ x[1] = q /\ x[2] = t /\ x[3] = k
                  BY <3>3
            <3> HIDE DEF x
            <3>5. x \in sh2
                  BY <1>1, <1>2, <2>2, <3>4
            <3> QED BY <3>5 DEF x
      <2> QED BY <2>1, <2>2
<1>4. ASSUME NEW x \in sh2, N[x[1]].f = N[q].f, x[1] # q
      PROVE  figure = "xcheck" /\ N[q].f = 2 /\ N[q].jobs[1][1] \in {"out", "cut"}
      <2>1. x \in sh
            <3>1. N[r].f = R[r].f
                  BY DEF JobMoved
            <3> QED BY <1>1, <1>2, <1>4, <3>1
      <2>2. x[1] \in DOMAIN R
            BY <2>1 DEF OnShow
      <2>3. R[x[1]].f = R[q].f
            BY <1>1, <1>4, <2>2 DEF JobMoved
      <2>4. figure = "xcheck" /\ R[q].f = 2 /\ R[q].jobs[1][1] \in {"out", "cut"}
            BY <1>1, <1>4, <2>1, <2>3 DEF Drawn
      <2>5. CASE q # r
            BY <1>1, <2>4, <2>5
      <2>6. CASE q = r
            <3>1. s = 1 /\ j = 1
                  BY <2>4, <2>6, OneJob
            <3>2. N[r].jobs[1][1] = v
                  BY <3>1 DEF JobMoved
            <3>3. CASE v = "cut"
                  BY <1>1, <2>4, <2>6, <3>2, <3>3
            <3>4. CASE v # "cut"
                  <4>1. R[r].jobs[s][j] # "told"
                        BY <2>4, <2>6, <3>1
                  <4>2. ~(x[2] = s /\ x[3] = j)
                        BY <1>4, <2>3, <2>4, <2>6, <3>4, <4>1
                  <4>3. PICK y \in DOMAIN R : \E t1 \in DOMAIN R[y].jobs : \E k1 \in DOMAIN R[y].jobs[t1] : x = <<y, t1, k1>>
                        BY <2>1 DEF OnShow
                  <4>6. PICK t \in DOMAIN R[y].jobs : \E k1 \in DOMAIN R[y].jobs[t] : x = <<y, t, k1>>
                        BY <4>3
                  <4>7. PICK k \in DOMAIN R[y].jobs[t] : x = <<y, t, k>>
                        BY <4>6
                  <4>4. x[1] = y /\ x[2] = t /\ x[3] = k
                        BY <4>7
                  <4>5. t = 1 /\ k = 1
                        BY <2>3, <2>4, <4>4, OneJob
                  <4> QED BY <3>1, <4>2, <4>4, <4>5
            <3> QED BY <3>3, <3>4
      <2> QED BY <2>5, <2>6
<1> QED BY <1>3, <1>4

(* A figure that is done is not touched by the job that moved.              *)
LEMMA JobFinished ==
    ASSUME SoundFigure, NEW R, NEW N, NEW sd, NEW sd2, NEW sh, NEW sh2, NEW b, NEW dis,
           NEW r \in DOMAIN R, NEW s \in DOMAIN R[r].jobs, NEW j \in DOMAIN R[r].jobs[s], NEW v,
           Shaped(R), InTurn(R, b, dis), OnShow(R, sh), Finished(R, sd, sh, dis), JobMoved(R, N, r, s, j, v),
           R[r].jobs[s][j] \in {"out", "told"} \/ R[r].at # Ended,
           v \notin {"back", "stopped", "cut"} => R[r].at # Ended \/ Excused(dis) \/ sd2[Line(R[r].f)] \notin {"done", "compared"},
           \A l \in 1..3 : sd2[l] = sd[l] \/ sd2[l] \notin {"done", "compared"},
           \A x : R[x[1]].f # R[r].f => (x \in sh2 <=> x \in sh),
           \A x \in sh2 : x[1] \in DOMAIN R,
           \/ R[r].at # Ended
           \/ Excused(dis)
           \/ sh2 = sh
           \/ sd2[Line(R[r].f)] \notin {"done", "compared"}
    PROVE  Finished(N, sd2, sh2, dis)
<1> SUFFICES ASSUME ~Excused(dis), NEW f \in DOMAIN Functions[figure], sd2[Line(f)] = Done(f)
             PROVE  \E q \in DOMAIN N : /\ N[q].f = f /\ Newest(N, q) /\ N[q].at = Ended /\ Settled(N, q)
                                        /\ ShownOf(N, sh2, f) = Drawable(N, q)
    BY DEF Finished
<1>1. Line(f) \in 1..3
      BY FigureIs DEF Line, Sound
<1>2. Done(f) \in {"done", "compared"}
      BY DEF Done
<1>3. sd[Line(f)] = Done(f)
      BY <1>1, <1>2
<1>4. PICK q \in DOMAIN R : /\ R[q].f = f /\ Newest(R, q) /\ R[q].at = Ended /\ Settled(R, q)
                            /\ ShownOf(R, sh, f) = Drawable(R, q)
      BY <1>3 DEF Finished
<1>5. /\ q \in DOMAIN N /\ N[q].f = f /\ N[q].at = Ended /\ (q # r => N[q].jobs = R[q].jobs)
      BY <1>4 DEF JobMoved
<1>6. Newest(N, q)
      BY <1>4 DEF JobMoved, Newest
<1>7. R[r].at # Ended => R[r].f # f
      BY <1>3, GoingIsNotDone
<1>8. ShownOf(N, sh2, f) = ShownOf(R, sh, f)
      <2>1. \A x \in sh : x[1] \in DOMAIN R
            BY DEF OnShow
      <2>2. \A x \in sh2 : N[x[1]].f = R[x[1]].f
            BY DEF JobMoved
      <2>3. CASE R[r].f # f
            BY <2>1, <2>2, <2>3 DEF ShownOf
      <2>4. CASE R[r].f = f
            <3>1. sh2 = sh
                  BY <1>2, <1>7, <2>4
            <3> QED BY <2>2, <3>1 DEF ShownOf
      <2> QED BY <2>3, <2>4
<1>9. Settled(N, q) /\ Drawable(N, q) = Drawable(R, q)
      <2>1. CASE q # r
            BY <1>4, <1>5, <2>1, SameJobs
      <2>2. CASE q = r
            <3>1. R[r].at = Ended /\ R[r].jobs[s][j] \in {"out", "told"}
                  BY <1>4, <2>2
            <3>2. v \in {"back", "stopped", "cut"}
                  BY <1>2, <1>4, <2>2, <3>1
            <3>3. PICK k \in DOMAIN R[r].jobs[s] : R[r].jobs[s][k] = "cut"
                  <4>1. ~AllBack(R, r, s)
                        BY <3>1 DEF AllBack
                  <4> QED BY <1>4, <2>2, <4>1 DEF Settled
            <3>4. k # j
                  BY <3>1, <3>3
            <3>5. k \in DOMAIN N[r].jobs[s] /\ N[r].jobs[s][k] = "cut"
                  BY <3>3, <3>4 DEF JobMoved
            <3>6. DOMAIN N[r].jobs = DOMAIN R[r].jobs /\ \A t \in DOMAIN R[r].jobs : t # s => N[r].jobs[t] = R[r].jobs[t]
                  BY DEF JobMoved
            <3>7. Settled(N, r)
                  BY <1>4, <2>2, <3>5, <3>6 DEF Settled, AllBack
            <3>8. ASSUME NEW x \in Answers(R, r)
                  PROVE  x \in Drawable(N, r) <=> x \in Drawable(R, r)
                  <4>1. x[2] \in DOMAIN R[r].jobs
                        BY DEF Answers
                  <4>2. CASE x[2] = s
                        BY <3>3, <3>5, <4>2 DEF Drawable
                  <4>3. CASE x[2] # s
                        BY <3>6, <4>1, <4>3 DEF Drawable, Answers
                  <4> QED BY <4>2, <4>3
            <3>9. Answers(N, r) = Answers(R, r) /\ Drawable(N, r) \subseteq Answers(N, r) /\ Drawable(R, r) \subseteq Answers(R, r)
                  BY <3>6 DEF Answers, Drawable
            <3>10. Drawable(N, r) = Drawable(R, r)
                  BY <3>8, <3>9
            <3> QED BY <2>2, <3>7, <3>10
      <2> QED BY <2>1, <2>2
<1> QED BY <1>4, <1>5, <1>6, <1>8, <1>9

(* A job's move says nothing of how a function ended.                       *)
LEMMA JobSpoken ==
    ASSUME SoundFigure, NEW R, NEW N, NEW sd, NEW sd2, NEW r \in DOMAIN R, NEW s \in DOMAIN R[r].jobs, NEW j \in DOMAIN R[r].jobs[s], NEW v,
           Shaped(R), JobMoved(R, N, r, s, j, v), Spoken(R, sd), figure \in {"gauging", "surgery"} => \A l \in 1..3 : sd2[l] = sd[l]
    PROVE  Spoken(N, sd2)
<1> SUFFICES ASSUME figure \in {"gauging", "surgery"}, NEW q \in DOMAIN N, N[q].at = Ended
             PROVE  /\ sd2[Line(N[q].f)] \in {"done", "failed"}
                    /\ q + 1 \in DOMAIN Functions[figure] => q + 1 \in DOMAIN N
    BY DEF Spoken
<1>1. q \in DOMAIN R /\ N[q].f = R[q].f /\ N[q].at = R[q].at /\ DOMAIN N = DOMAIN R
      BY DEF JobMoved
<1>2. sd[Line(R[q].f)] \in {"done", "failed"} /\ (q + 1 \in DOMAIN Functions[figure] => q + 1 \in DOMAIN R)
      BY <1>1 DEF Spoken
<1>3. R[q].f \in DOMAIN Functions[figure]
      BY <1>1, RunIs
<1>4. Line(R[q].f) \in 1..3
      BY <1>3, FigureIs DEF Line, Sound
<1> QED BY <1>1, <1>2, <1>4

-----------------------------------------------------------------------------
(* A run ends.                                                             *)
LEMMA RunOver ==
    ASSUME SoundFigure, NEW R, NEW N, NEW sd, NEW sd2, NEW sh, NEW sh2, NEW b, NEW b2, NEW dis,
           FigureParts(R, sd, sh, b, dis), DOMAIN sd2 = 1..3,
           NEW r \in DOMAIN R, R[r].at # Ended, RunEnded(R, N, r),
           figure \in {"sweep", "bench", "channel"} /\ ~dis => AllBack(R, r, R[r].at),
           figure = "xcheck" /\ R[r].f = 2 => R[r].jobs[1][1] \in {"back", "stopped", "cut"},
           figure \in Clicked \/ (figure = "xcheck" /\ r # 1) \/ b2 = b,
           \A x : R[x[1]].f # R[r].f => (x \in sh2 <=> x \in sh),
           OnShow(R, sh2),
           \A g \in DOMAIN Functions[figure] : g # R[r].f /\ sd2[Line(g)] = Done(g) => sd[Line(g)] = Done(g),
           sd2[Line(R[r].f)] = Done(R[r].f) /\ ~Excused(dis) =>
              Settled(R, r) /\ ShownOf(R, sh2, R[r].f) = Drawable(R, r)
    PROVE  FigureParts(N, sd2, sh2, b2, dis)
<1>1. /\ Shaped(R) /\ InTurn(R, b, dis) /\ Kept(R, dis) /\ OnShow(R, sh) /\ Drawn(R, sh, dis)
      /\ Finished(R, sd, sh, dis) /\ StopsAtBench(R)
      BY DEF FigureParts
<1>2. /\ Shaped(N) /\ Len(N) = Len(R) /\ DOMAIN N = DOMAIN R
      /\ \A q \in DOMAIN R : N[q].f = R[q].f /\ N[q].jobs = R[q].jobs
      /\ N[r].at = Ended /\ \A q \in DOMAIN R : N[q].at # Ended => N[q].at = R[q].at /\ q # r /\ R[q].at # Ended
      /\ \A q \in DOMAIN R : q # r => N[q].at = R[q].at
      BY DEF RunEnded, Elsewhere
<1>3. InTurn(N, b2, dis)
      <2>1. figure \notin Clicked \cup {"xcheck"} => \A q \in DOMAIN N : N[q].f = q /\ (N[q].at # Ended => q = Len(N))
            BY <1>1, <1>2 DEF InTurn
      <2>2. figure = "xcheck" => \A q \in DOMAIN N : N[q].f = IF q = 1 THEN 1 ELSE 2
            BY <1>1, <1>2 DEF InTurn
      <2>3. ASSUME figure \in Clicked \cup {"xcheck"}, ~Excused(dis), NEW q \in DOMAIN N, N[q].at # Ended,
                   figure = "xcheck" => q # 1
            PROVE  q = Len(N) /\ b2 # "on"
            <3>1. q = Len(R) /\ b # "on" /\ q # r
                  BY <1>1, <1>2, <2>3 DEF InTurn
            <3>2. figure \in Clicked \/ (figure = "xcheck" /\ r # 1) => r = Len(R)
                  <4>1. figure = "xcheck" => figure \notin Clicked
                        BY DEF Clicked
                  <4> QED BY <1>1, <2>3, <4>1 DEF InTurn
            <3>3. b2 = b
                  BY <3>1, <3>2
            <3> QED BY <1>2, <3>1, <3>3
      <2> QED BY <2>1, <2>2, <2>3 DEF InTurn
<1>4. Kept(N, dis)
      <2> SUFFICES ASSUME NEW q \in DOMAIN R
                   PROVE  /\ N[q].at # Ended => \A t \in DOMAIN N[q].jobs : t < N[q].at => AllBack(N, q, t)
                          /\ N[q].at = Ended /\ figure \in {"sweep", "bench", "channel"} /\ ~dis =>
                               \A t \in DOMAIN N[q].jobs : AllBack(N, q, t)
                          /\ N[q].at = Ended /\ figure = "xcheck" /\ N[q].f = 2 => N[q].jobs[1][1] \in {"back", "stopped", "cut"}
          BY <1>2 DEF Kept
      <2>1. N[q].jobs = R[q].jobs /\ N[q].f = R[q].f /\ \A t : AllBack(N, q, t) <=> AllBack(R, q, t)
            BY <1>2, SameJobs
      <2>2. CASE q # r
            BY <1>1, <1>2, <2>1, <2>2 DEF Kept
      <2>3. CASE q = r
            <3>1. N[q].at = Ended
                  BY <1>2, <2>3
            <3>2. ASSUME figure \in {"sweep", "bench", "channel"}, ~dis, NEW t \in DOMAIN R[r].jobs
                  PROVE  AllBack(R, r, t)
                  <4>1. AllBack(R, r, R[r].at)
                        BY <3>2
                  <4>2. t \in Nat /\ R[r].at \in Nat /\ t <= R[r].at
                        BY <1>1, RunIs
                  <4>3. t < R[r].at \/ t = R[r].at
                        BY <4>2
                  <4> QED BY <1>1, <4>1, <4>3 DEF Kept
            <3> QED BY <2>1, <2>3, <3>1, <3>2
      <2> QED BY <2>2, <2>3
<1>5. OnShow(N, sh2)
      <2> SUFFICES ASSUME NEW x \in sh2
                   PROVE  \E q \in DOMAIN N : \E t \in DOMAIN N[q].jobs : \E k \in DOMAIN N[q].jobs[t] : x = <<q, t, k>>
          BY DEF OnShow
      <2>1. PICK q \in DOMAIN R : \E t \in DOMAIN R[q].jobs : \E k \in DOMAIN R[q].jobs[t] : x = <<q, t, k>>
            BY DEF OnShow
      <2> QED BY <1>2, <2>1
<1>6. \A x \in sh2 : x[1] \in DOMAIN R
      BY DEF OnShow
<1>7. Drawn(N, sh2, dis)
      <2> SUFFICES ASSUME ~Excused(dis), NEW q \in DOMAIN R, N[q].at # Ended, ~Functions[figure][N[q].f].draws
                   PROVE  /\ \A t \in DOMAIN N[q].jobs : \A k \in DOMAIN N[q].jobs[t] : Reported(N, q, t, k) => <<q, t, k>> \in sh2
                          /\ \A x \in sh2 : N[x[1]].f = N[q].f /\ x[1] # q =>
                               figure = "xcheck" /\ N[q].f = 2 /\ N[q].jobs[1][1] \in {"out", "cut"}
          BY <1>2 DEF Drawn
      <2>1. R[q].at # Ended /\ N[q].f = R[q].f /\ N[q].jobs = R[q].jobs
            BY <1>2
      <2>2. \A x : R[x[1]].f = R[q].f => (x \in sh2 <=> x \in sh)
            <3>1. Newest(R, q) /\ Newest(R, r) /\ q # r
                  BY <1>1, <1>2, <2>1, GoingIsNewest
            <3>2. q \in Nat /\ r \in Nat
                  BY <1>1, RunIs
            <3>3. R[q].f # R[r].f
                  <4>1. R[q].f = R[r].f => q <= r /\ r <= q
                        BY <3>1 DEF Newest
                  <4> QED BY <3>1, <3>2, <4>1
            <3> QED BY <3>3
      <2>3. ASSUME NEW t \in DOMAIN N[q].jobs, NEW k \in DOMAIN N[q].jobs[t], Reported(N, q, t, k)
            PROVE  <<q, t, k>> \in sh2
            <3>1. Reported(R, q, t, k)
                  BY <2>1, <2>3 DEF Reported
            <3>2. <<q, t, k>> \in sh
                  BY <1>1, <2>1, <3>1 DEF Drawn
            <3> DEFINE x == <<q, t, k>>
            <3>3. x \in sh /\ x[1] = q
                  BY <3>2
            <3> HIDE DEF x
            <3>4. x \in sh2
                  BY <2>2, <3>3
            <3> QED BY <3>4 DEF x
      <2>4. ASSUME NEW x \in sh2, N[x[1]].f = N[q].f, x[1] # q
            PROVE  figure = "xcheck" /\ N[q].f = 2 /\ N[q].jobs[1][1] \in {"out", "cut"}
            <3>1. R[x[1]].f = R[q].f
                  BY <1>2, <1>6, <2>1, <2>4
            <3>2. x \in sh
                  BY <2>2, <3>1
            <3> QED BY <1>1, <2>1, <2>4, <3>1, <3>2 DEF Drawn
      <2> QED BY <2>3, <2>4
<1>8. Finished(N, sd2, sh2, dis)
      <2> SUFFICES ASSUME ~Excused(dis), NEW f \in DOMAIN Functions[figure], sd2[Line(f)] = Done(f)
                   PROVE  \E q \in DOMAIN N : /\ N[q].f = f /\ Newest(N, q) /\ N[q].at = Ended /\ Settled(N, q)
                                              /\ ShownOf(N, sh2, f) = Drawable(N, q)
          BY DEF Finished
      <2>1. \A q \in DOMAIN R : Newest(N, q) <=> Newest(R, q)
            BY <1>2 DEF Newest
      <2>2. ShownOf(N, sh2, f) = ShownOf(R, sh2, f)
            BY <1>2, <1>6 DEF ShownOf
      <2>3. \A q \in DOMAIN R : (Settled(N, q) <=> Settled(R, q)) /\ Drawable(N, q) = Drawable(R, q)
            BY <1>2, SameJobs
      <2>4. CASE f = R[r].f
            <3>1. Settled(R, r) /\ ShownOf(R, sh2, f) = Drawable(R, r)
                  BY <2>4
            <3>2. Newest(R, r)
                  BY <1>1, GoingIsNewest
            <3> QED BY <1>2, <2>1, <2>2, <2>3, <2>4, <3>1, <3>2
      <2>5. CASE f # R[r].f
            <3>1. sd[Line(f)] = Done(f)
                  BY <2>5
            <3>2. PICK q \in DOMAIN R : /\ R[q].f = f /\ Newest(R, q) /\ R[q].at = Ended /\ Settled(R, q)
                                        /\ ShownOf(R, sh, f) = Drawable(R, q)
                  BY <1>1, <3>1 DEF Finished
            <3>3. ShownOf(R, sh2, f) = ShownOf(R, sh, f)
                  BY <2>5 DEF ShownOf
            <3>4. N[q].at = Ended
                  BY <1>2, <3>2
            <3> QED BY <1>2, <2>1, <2>2, <2>3, <3>2, <3>3, <3>4
      <2> QED BY <2>4, <2>5
<1>9. StopsAtBench(N)
      BY <1>1, <1>2 DEF StopsAtBench
<1> QED BY <1>2, <1>3, <1>4, <1>5, <1>7, <1>8, <1>9 DEF FigureParts

(* A run begins.                                                           *)
LEMMA RunStarts ==
    ASSUME SoundFigure, NEW R, NEW N, NEW sd, NEW sd2, NEW sh, NEW sh2, NEW b, NEW b2, NEW dis, NEW f \in DOMAIN Functions[figure],
           FigureParts(R, sd, sh, b, dis), DOMAIN sd2 = 1..3, RunBegun(R, N, f),
           figure \notin Clicked \cup {"xcheck"} => f = Len(N) /\ \A q \in DOMAIN R : R[q].at = Ended,
           figure = "xcheck" => f = (IF Len(N) = 1 THEN 1 ELSE 2) /\ (Len(N) # 1 => b = "on" /\ b2 # "on"),
           figure \in Clicked => b = "on" /\ b2 # "on",
           sh2 \subseteq sh, \A x \in sh : R[x[1]].f # f => x \in sh2,
           Functions[figure][f].draws \/ (figure = "xcheck" /\ f = 2) \/ \A x \in sh2 : R[x[1]].f # f,
           \A g \in DOMAIN Functions[figure] : sd2[Line(g)] = Done(g) => g # f /\ sd[Line(g)] = Done(g)
    PROVE  FigureParts(N, sd2, sh2, b2, dis)
<1>1. /\ Shaped(R) /\ InTurn(R, b, dis) /\ Kept(R, dis) /\ OnShow(R, sh) /\ Drawn(R, sh, dis)
      /\ Finished(R, sd, sh, dis) /\ StopsAtBench(R)
      BY DEF FigureParts
<1> DEFINE n == Len(N)
<1>2. /\ Shaped(N) /\ n = Len(R) + 1 /\ DOMAIN N = DOMAIN R \cup {n} /\ n \notin DOMAIN R
      /\ \A q \in DOMAIN R : N[q] = R[q] /\ q < n
      /\ N[n] = Begun(f)
      BY DEF RunBegun
<1>3. /\ N[n].f = f /\ N[n].at = 1 /\ DOMAIN N[n].jobs = {1}
      /\ \A j \in DOMAIN N[n].jobs[1] : N[n].jobs[1][j] \in {"out", "queued"}
      /\ figure = "xcheck" /\ f = 2 => N[n].jobs[1][1] = "out"
      BY <1>2, BegunIs
<1>4. \A q \in DOMAIN N : q = n \/ (q \in DOMAIN R /\ N[q] = R[q] /\ q # n)
      BY <1>2
<1>5. ASSUME ~Excused(dis), NEW q \in DOMAIN R, R[q].at # Ended
      PROVE  figure = "xcheck" /\ q = 1 /\ R[q].f = 1 /\ f = 2 /\ n # 1
      <2>1. figure \in Clicked \cup {"xcheck"}
            BY <1>5
      <2>2. figure \notin Clicked
            <3>1. figure \in Clicked => figure # "xcheck"
                  BY DEF Clicked
            <3>2. figure \in Clicked => b # "on"
                  BY <1>1, <1>5, <3>1 DEF InTurn
            <3> QED BY <3>2
      <2>3. figure = "xcheck"
            BY <2>1, <2>2
      <2>4. n # 1
            <3>1. q \in Nat \ {0} /\ q < n
                  BY <1>1, <1>2, RunIs
            <3> QED BY <3>1
      <2>5. f = 2 /\ b = "on"
            BY <2>3, <2>4
      <2>6. q = 1 /\ R[q].f = 1
            BY <1>1, <1>5, <2>3, <2>5 DEF InTurn
      <2> QED BY <2>3, <2>4, <2>5, <2>6
<1> HIDE DEF n
<1>6. InTurn(N, b2, dis)
      <2>1. figure \notin Clicked \cup {"xcheck"} => \A q \in DOMAIN N : N[q].f = q /\ (N[q].at # Ended => q = Len(N))
            BY <1>1, <1>3, <1>4 DEF InTurn, n
      <2>2. ASSUME figure = "xcheck", NEW q \in DOMAIN N
            PROVE  N[q].f = IF q = 1 THEN 1 ELSE 2
            <3>1. CASE q = n
                  <4>1. f = IF n = 1 THEN 1 ELSE 2
                        BY <2>2 DEF n
                  <4>2. N[q].f = f
                        BY <1>3, <3>1
                  <4> QED BY <3>1, <4>1, <4>2
            <3>2. CASE q # n
                  <4>1. R[q].f = IF q = 1 THEN 1 ELSE 2
                        BY <1>1, <1>4, <2>2, <3>2 DEF InTurn
                  <4>2. N[q].f = R[q].f
                        BY <1>4, <3>2
                  <4> QED BY <4>1, <4>2
            <3> QED BY <3>1, <3>2
      <2>3. ASSUME figure \in Clicked \cup {"xcheck"}, ~Excused(dis), NEW q \in DOMAIN N, N[q].at # Ended,
                   figure = "xcheck" => q # 1
            PROVE  q = Len(N) /\ b2 # "on"
            <3>1. q = n
                  BY <1>4, <1>5, <2>3
            <3> QED BY <2>3, <3>1 DEF n
      <2> QED BY <2>1, <2>2, <2>3 DEF InTurn
<1>7. Kept(N, dis)
      <2> SUFFICES ASSUME NEW q \in DOMAIN N
                   PROVE  /\ N[q].at # Ended => \A t \in DOMAIN N[q].jobs : t < N[q].at => AllBack(N, q, t)
                          /\ N[q].at = Ended /\ figure \in {"sweep", "bench", "channel"} /\ ~dis =>
                               \A t \in DOMAIN N[q].jobs : AllBack(N, q, t)
                          /\ N[q].at = Ended /\ figure = "xcheck" /\ N[q].f = 2 => N[q].jobs[1][1] \in {"back", "stopped", "cut"}
          BY DEF Kept
      <2>1. CASE q = n
            BY <1>3, <2>1 DEF Ended
      <2>2. CASE q # n
            <3>1. q \in DOMAIN R /\ N[q] = R[q] /\ \A t : AllBack(N, q, t) <=> AllBack(R, q, t)
                  BY <1>4, <2>2, SameJobs
            <3> QED BY <1>1, <3>1 DEF Kept
      <2> QED BY <2>1, <2>2
<1>8. OnShow(N, sh2)
      BY <1>1, <1>2 DEF OnShow
<1>9. \A x \in sh2 : x[1] \in DOMAIN R /\ x[1] # n /\ N[x[1]] = R[x[1]]
      BY <1>1, <1>2 DEF OnShow
<1>10. Drawn(N, sh2, dis)
      <2> SUFFICES ASSUME ~Excused(dis), NEW q \in DOMAIN N, N[q].at # Ended, ~Functions[figure][N[q].f].draws
                   PROVE  /\ \A t \in DOMAIN N[q].jobs : \A k \in DOMAIN N[q].jobs[t] : Reported(N, q, t, k) => <<q, t, k>> \in sh2
                          /\ \A x \in sh2 : N[x[1]].f = N[q].f /\ x[1] # q =>
                               figure = "xcheck" /\ N[q].f = 2 /\ N[q].jobs[1][1] \in {"out", "cut"}
          BY DEF Drawn
      <2>1. CASE q = n
            <3>1. \A t \in DOMAIN N[q].jobs : \A k \in DOMAIN N[q].jobs[t] : ~Reported(N, q, t, k)
                  BY <1>3, <2>1 DEF Reported
            <3> QED BY <1>3, <1>9, <2>1, <3>1
      <2>2. CASE q # n
            <3>1. q \in DOMAIN R /\ N[q] = R[q] /\ R[q].at # Ended
                  BY <1>4, <2>2
            <3>2. R[q].f = 1 /\ f = 2
                  BY <1>5, <3>1
            <3>3. ASSUME NEW t \in DOMAIN N[q].jobs, NEW k \in DOMAIN N[q].jobs[t], Reported(N, q, t, k)
                  PROVE  <<q, t, k>> \in sh2
                  <4>1. Reported(R, q, t, k)
                        BY <3>1, <3>3 DEF Reported
                  <4>2. <<q, t, k>> \in sh
                        BY <1>1, <3>1, <4>1 DEF Drawn
                  <4> DEFINE x == <<q, t, k>>
                  <4>3. x \in sh /\ x[1] = q
                        BY <4>2
                  <4> HIDE DEF x
                  <4>4. x \in sh2
                        BY <3>2, <4>3
                  <4> QED BY <4>4 DEF x
            <3>4. ASSUME NEW x \in sh2, N[x[1]].f = N[q].f, x[1] # q
                  PROVE  figure = "xcheck" /\ N[q].f = 2 /\ N[q].jobs[1][1] \in {"out", "cut"}
                  BY <1>1, <1>9, <3>1, <3>4 DEF Drawn
            <3> QED BY <3>3, <3>4
      <2> QED BY <2>1, <2>2
<1>11. Finished(N, sd2, sh2, dis)
      <2> SUFFICES ASSUME ~Excused(dis), NEW g \in DOMAIN Functions[figure], sd2[Line(g)] = Done(g)
                   PROVE  \E q \in DOMAIN N : /\ N[q].f = g /\ Newest(N, q) /\ N[q].at = Ended /\ Settled(N, q)
                                              /\ ShownOf(N, sh2, g) = Drawable(N, q)
          BY DEF Finished
      <2>1. g # f /\ sd[Line(g)] = Done(g)
            OBVIOUS
      <2>2. PICK q \in DOMAIN R : /\ R[q].f = g /\ Newest(R, q) /\ R[q].at = Ended /\ Settled(R, q)
                                  /\ ShownOf(R, sh, g) = Drawable(R, q)
            BY <1>1, <2>1 DEF Finished
      <2>3. q \in DOMAIN N /\ N[q] = R[q]
            BY <1>2
      <2>4. Newest(N, q)
            BY <1>3, <1>4, <2>1, <2>2, <2>3 DEF Newest
      <2>5. ShownOf(N, sh2, g) = ShownOf(R, sh, g)
            BY <1>9, <2>1 DEF ShownOf
      <2>6. Settled(N, q) /\ Drawable(N, q) = Drawable(R, q)
            BY <2>2, <2>3, SameJobs
      <2> QED BY <2>2, <2>3, <2>4, <2>5, <2>6
<1>12. StopsAtBench(N)
      <2> SUFFICES ASSUME figure # "bench", NEW q \in DOMAIN N, NEW t \in DOMAIN N[q].jobs, NEW k \in DOMAIN N[q].jobs[t]
                   PROVE  N[q].jobs[t][k] # "stopped"
          BY DEF StopsAtBench
      <2>1. CASE q = n
            BY <1>3, <2>1
      <2>2. CASE q # n
            BY <1>1, <1>4, <2>2 DEF StopsAtBench
      <2> QED BY <2>1, <2>2
<1> QED BY <1>2, <1>6, <1>7, <1>8, <1>10, <1>11, <1>12 DEF FigureParts

(* A run reaches its next stage.                                            *)
LEMMA StageBegins ==
    ASSUME SoundFigure, NEW R, NEW N, NEW sd, NEW sd2, NEW sh, NEW b, NEW dis,
           FigureParts(R, sd, sh, b, dis), DOMAIN sd2 = 1..3,
           NEW r \in DOMAIN R, R[r].at # Ended, StageReached(R, N, r), AllBack(R, r, R[r].at),
           R[r].at + 1 \in DOMAIN Functions[figure][R[r].f].stages,
           \A g \in DOMAIN Functions[figure] : sd2[Line(g)] = Done(g) => sd[Line(g)] = Done(g)
    PROVE  FigureParts(N, sd2, sh, b, dis)
<1>1. /\ Shaped(R) /\ InTurn(R, b, dis) /\ Kept(R, dis) /\ OnShow(R, sh) /\ Drawn(R, sh, dis)
      /\ Finished(R, sd, sh, dis) /\ StopsAtBench(R)
      BY DEF FigureParts
<1> DEFINE a == R[r].at
           F == Functions[figure][R[r].f]
<1>2. /\ Shaped(N) /\ Len(N) = Len(R) /\ DOMAIN N = DOMAIN R
      /\ \A q \in DOMAIN R : N[q].f = R[q].f /\ (q # r => N[q] = R[q])
      /\ N[r].at = a + 1 /\ DOMAIN N[r].jobs = DOMAIN R[r].jobs \cup {a + 1} /\ a + 1 \notin DOMAIN R[r].jobs
      /\ \A t \in DOMAIN R[r].jobs : t < a + 1 /\ N[r].jobs[t] = R[r].jobs[t]
      /\ N[r].jobs[a + 1] = Sent(F.stages[a + 1])
      BY DEF StageReached, Elsewhere
<1>3. R[r].f \in DOMAIN Functions[figure] /\ a \in Nat /\ 1 \in DOMAIN R[r].jobs /\ DOMAIN R[r].jobs \subseteq Nat
      BY <1>1, RunIs
<1>4. \A j \in DOMAIN N[r].jobs[a + 1] : N[r].jobs[a + 1][j] \in {"out", "queued"}
      <2>1. Sound(F)
            BY <1>3, FigureIs
      <2>2. SoundStage(F, a + 1)
            <3> HIDE DEF F, a
            <3>1. a + 1 \in DOMAIN F.stages
                  BY DEF F, a
            <3> QED BY <2>1, <3>1 DEF Sound
      <2>3. F.stages[a + 1].what \in {"load", "call", "jobs", "timed", "timer"}
            BY <2>2 DEF SoundStage
      <2> HIDE DEF F, a
      <2> QED BY <1>2, <2>3, SentIs DEF SoundFigure
<1> HIDE DEF F
<1>5. a # Ended /\ N[r].at # Ended
      <2> HIDE DEF a
      <2> QED BY <1>2, <1>3 DEF Ended, a
<1> HIDE DEF a
<1>6. \A q \in DOMAIN R : N[q].at # Ended => R[q].at # Ended
      BY <1>2, <1>5 DEF a
<1>7. InTurn(N, b, dis)
      BY <1>1, <1>2, <1>6 DEF InTurn
<1>8. Kept(N, dis)
      <2> SUFFICES ASSUME NEW q \in DOMAIN R
                   PROVE  /\ N[q].at # Ended => \A t \in DOMAIN N[q].jobs : t < N[q].at => AllBack(N, q, t)
                          /\ N[q].at = Ended /\ figure \in {"sweep", "bench", "channel"} /\ ~dis =>
                               \A t \in DOMAIN N[q].jobs : AllBack(N, q, t)
                          /\ N[q].at = Ended /\ figure = "xcheck" /\ N[q].f = 2 => N[q].jobs[1][1] \in {"back", "stopped", "cut"}
          BY <1>2 DEF Kept
      <2>1. CASE q # r
            <3>1. N[q] = R[q] /\ \A t : AllBack(N, q, t) <=> AllBack(R, q, t)
                  BY <1>2, <2>1, SameJobs
            <3> QED BY <1>1, <3>1 DEF Kept
      <2>2. CASE q = r
            <3>1. ASSUME NEW t \in DOMAIN N[r].jobs, t < N[r].at
                  PROVE  AllBack(N, r, t)
                  <4>1. t < a + 1
                        BY <1>2, <3>1
                  <4>2. t \in DOMAIN R[r].jobs /\ N[r].jobs[t] = R[r].jobs[t] /\ t \in Nat
                        BY <1>2, <1>3, <3>1, <4>1
                  <4>3. t < a \/ t = a
                        BY <1>3, <4>1, <4>2
                  <4>4. AllBack(R, r, t)
                        BY <1>1, <4>2, <4>3 DEF Kept, a
                  <4> QED BY <4>2, <4>4 DEF AllBack
            <3> QED BY <1>5, <2>2, <3>1
      <2> QED BY <2>1, <2>2
<1>9. \A q \in DOMAIN R : \A t \in DOMAIN R[q].jobs : t \in DOMAIN N[q].jobs /\ N[q].jobs[t] = R[q].jobs[t]
      BY <1>2
<1>10. OnShow(N, sh)
      <2> SUFFICES ASSUME NEW x \in sh
                   PROVE  \E q \in DOMAIN N : \E t \in DOMAIN N[q].jobs : \E k \in DOMAIN N[q].jobs[t] : x = <<q, t, k>>
          BY DEF OnShow
      <2>1. PICK q \in DOMAIN R : \E t \in DOMAIN R[q].jobs : \E k \in DOMAIN R[q].jobs[t] : x = <<q, t, k>>
            BY <1>1 DEF OnShow
      <2> QED BY <1>2, <1>9, <2>1
<1>11. \A x \in sh : x[1] \in DOMAIN R
      BY <1>1 DEF OnShow
<1>12. Drawn(N, sh, dis)
      <2> SUFFICES ASSUME ~Excused(dis), NEW q \in DOMAIN R, N[q].at # Ended, ~Functions[figure][N[q].f].draws
                   PROVE  /\ \A t \in DOMAIN N[q].jobs : \A k \in DOMAIN N[q].jobs[t] : Reported(N, q, t, k) => <<q, t, k>> \in sh
                          /\ \A x \in sh : N[x[1]].f = N[q].f /\ x[1] # q =>
                               figure = "xcheck" /\ N[q].f = 2 /\ N[q].jobs[1][1] \in {"out", "cut"}
          BY <1>2 DEF Drawn
      <2>1. R[q].at # Ended /\ N[q].f = R[q].f /\ N[q].jobs[1] = R[q].jobs[1]
            <3>1. 1 \in DOMAIN R[q].jobs
                  BY <1>1, RunIs
            <3> QED BY <1>2, <1>6, <1>9, <3>1
      <2>2. ASSUME NEW t \in DOMAIN N[q].jobs, NEW k \in DOMAIN N[q].jobs[t], Reported(N, q, t, k)
            PROVE  <<q, t, k>> \in sh
            <3>1. t \in DOMAIN R[q].jobs
                  <4>1. CASE q = r /\ t = a + 1
                        BY <1>4, <2>2, <4>1 DEF Reported
                  <4>2. CASE q # r \/ t # a + 1
                        BY <1>2, <4>2
                  <4> QED BY <4>1, <4>2
            <3>2. Reported(R, q, t, k) /\ k \in DOMAIN R[q].jobs[t]
                  BY <1>9, <2>1, <2>2, <3>1 DEF Reported
            <3> QED BY <1>1, <2>1, <3>1, <3>2 DEF Drawn
      <2>3. ASSUME NEW x \in sh, N[x[1]].f = N[q].f, x[1] # q
            PROVE  figure = "xcheck" /\ N[q].f = 2 /\ N[q].jobs[1][1] \in {"out", "cut"}
            <3>1. R[x[1]].f = R[q].f
                  BY <1>2, <1>11, <2>3
            <3> QED BY <1>1, <2>1, <2>3, <3>1 DEF Drawn
      <2> QED BY <2>2, <2>3
<1>13. Finished(N, sd2, sh, dis)
      <2> SUFFICES ASSUME ~Excused(dis), NEW f \in DOMAIN Functions[figure], sd2[Line(f)] = Done(f)
                   PROVE  \E q \in DOMAIN N : /\ N[q].f = f /\ Newest(N, q) /\ N[q].at = Ended /\ Settled(N, q)
                                              /\ ShownOf(N, sh, f) = Drawable(N, q)
          BY DEF Finished
      <2>1. PICK q \in DOMAIN R : /\ R[q].f = f /\ Newest(R, q) /\ R[q].at = Ended /\ Settled(R, q)
                                  /\ ShownOf(R, sh, f) = Drawable(R, q)
            BY <1>1 DEF Finished
      <2>2. q # r /\ N[q] = R[q] /\ q \in DOMAIN N
            BY <1>2, <2>1
      <2>3. Newest(N, q)
            BY <1>2, <2>1 DEF Newest
      <2>4. ShownOf(N, sh, f) = ShownOf(R, sh, f)
            BY <1>2, <1>11 DEF ShownOf
      <2>5. Settled(N, q) /\ Drawable(N, q) = Drawable(R, q)
            BY <2>1, <2>2, SameJobs
      <2> QED BY <2>1, <2>2, <2>3, <2>4, <2>5
<1>14. StopsAtBench(N)
      <2> SUFFICES ASSUME figure # "bench", NEW q \in DOMAIN R, NEW t \in DOMAIN N[q].jobs, NEW k \in DOMAIN N[q].jobs[t]
                   PROVE  N[q].jobs[t][k] # "stopped"
          BY <1>2 DEF StopsAtBench
      <2>1. CASE q = r /\ t = a + 1
            BY <1>4, <2>1
      <2>2. CASE q # r \/ t # a + 1
            <3>1. t \in DOMAIN R[q].jobs
                  BY <1>2, <2>2
            <3> QED BY <1>1, <1>9, <3>1 DEF StopsAtBench
      <2> QED BY <2>1, <2>2
<1> QED BY <1>2, <1>7, <1>8, <1>10, <1>12, <1>13, <1>14 DEF FigureParts

(* The noise changed, or a job failed.                                      *)
LEMMA Disturbs ==
    ASSUME NEW R, NEW sd, NEW sh, NEW b, NEW dis, NEW dis2, FigureInv(R, sd, sh, b, dis), dis => dis2
    PROVE  FigureInv(R, sd, sh, b, dis2)
<1>1. ~Excused(dis2) => ~Excused(dis)
      BY DEF Excused
<1>2. FigureParts(R, sd, sh, b, dis) /\ Spoken(R, sd)
      BY DEF FigureInv
<1>3. InTurn(R, b, dis2)
      BY <1>1, <1>2 DEF InTurn, FigureParts
<1>4. Kept(R, dis2)
      BY <1>2 DEF Kept, FigureParts
<1>5. Drawn(R, sh, dis2)
      BY <1>1, <1>2 DEF Drawn, FigureParts
<1>6. Finished(R, sd, sh, dis2)
      BY <1>1, <1>2 DEF Finished, FigureParts
<1> QED BY <1>2, <1>3, <1>4, <1>5, <1>6 DEF FigureParts, FigureInv

-----------------------------------------------------------------------------
(* A function of the figure, its line and the word it says as it is done.     *)
LEMMA LinesAre ==
    ASSUME SoundFigure, NEW f \in DOMAIN Functions[figure]
    PROVE  /\ Line(f) \in 1..3 /\ Done(f) \in {"done", "compared"} /\ f \in Nat \ {0}
           /\ figure # "xcheck" => /\ \A g \in DOMAIN Functions[figure] : g # f => Line(g) # Line(f)
                                   /\ ~More(f) /\ Done(f) = "done"
           /\ figure = "xcheck" => f \in {1, 2} /\ Line(f) = 1 /\ Done(f) = (IF f = 1 THEN "done" ELSE "compared") /\ (More(f) <=> f = 2)
           /\ figure \in Clicked => f = 1 /\ Line(f) = 1
<1>1. Lines(figure) /\ Sound(Functions[figure][f]) /\ Apart(Functions[figure][f], figure)
      BY FigureIs
<1>2. Line(f) \in 1..3 /\ Done(f) \in {"done", "compared"}
      BY <1>1 DEF Line, Sound, Done
<1>3. f \in Nat \ {0}
      BY <1>1 DEF Lines
<1>4. figure # "xcheck" => /\ \A g \in DOMAIN Functions[figure] : g # f => Line(g) # Line(f)
                           /\ ~More(f) /\ Done(f) = "done"
      BY <1>1 DEF Lines, Line, More, Done
<1>5. ASSUME figure = "xcheck"
      PROVE  f \in {1, 2} /\ Line(f) = 1 /\ Done(f) = (IF f = 1 THEN "done" ELSE "compared") /\ (More(f) <=> f = 2)
      <2>1. f \in {1, 2}
            BY <1>1, <1>5 DEF Lines
      <2>2. Line(f) = 1
            BY <1>5, <2>1, XcheckIs DEF Line
      <2> QED BY <1>5, <2>1, <2>2 DEF Done, More
<1>6. figure \in Clicked => f = 1 /\ Line(f) = 1
      BY <1>1 DEF Lines, Line, Apart
<1> QED BY <1>2, <1>3, <1>4, <1>5, <1>6

Calls(f) == f + 1 \in DOMAIN Functions[figure] /\ ~More(f + 1)

(* Only in a figure that no button runs does a function call the next.       *)
LEMMA CallsIs ==
    ASSUME SoundFigure, NEW f \in DOMAIN Functions[figure], Calls(f)
    PROVE  figure \notin Clicked \cup {"xcheck"} /\ f + 1 \in DOMAIN Functions[figure]
<1>1. f + 1 \in DOMAIN Functions[figure] /\ ~More(f + 1)
      BY DEF Calls
<1>2. f \in Nat \ {0}
      BY LinesAre
<1>3. figure \in Clicked => FALSE
      <2>1. figure \in Clicked => f = 1 /\ f + 1 = 1
            BY <1>1, LinesAre
      <2> QED BY <1>2, <2>1
<1>4. figure = "xcheck" => FALSE
      <2>1. figure = "xcheck" => f \in {1, 2} /\ f + 1 \in {1, 2} /\ f + 1 # 2
            BY <1>1, LinesAre
      <2> QED BY <1>2, <2>1
<1> QED BY <1>1, <1>3, <1>4

(* What the lines say as a run returns.                                     *)
LEMMA LineAfterIs ==
    ASSUME SoundFigure, DOMAIN said = 1..3, NEW R, NEW r, R[r].f \in DOMAIN Functions[figure], NEW word,
           word \in {"failed", "stopped", Done(R[r].f)} \/ figure # "xcheck"
    PROVE  /\ DOMAIN LineAfter(R, r, word) = 1..3
           /\ LineAfter(R, r, word)[Line(R[r].f)] = word
           /\ \A g \in DOMAIN Functions[figure] : g # R[r].f /\ LineAfter(R, r, word)[Line(g)] = Done(g) =>
                 said[Line(g)] = Done(g) /\ ~(Calls(R[r].f) /\ g = R[r].f + 1)
           /\ figure # "xcheck" => \A g \in DOMAIN Functions[figure] :
                 g # R[r].f /\ g # R[r].f + 1 => LineAfter(R, r, word)[Line(g)] = said[Line(g)]
<1> DEFINE f == R[r].f
           L == LineAfter(R, r, word)
<1>1. L = [l \in 1..3 |-> IF l = Line(f) THEN word
                           ELSE IF f + 1 \in DOMAIN Functions[figure] /\ ~More(f + 1) /\ l = Line(f + 1)
                           THEN "busy" ELSE said[l]]
      BY DEF LineAfter
<1>2. f \in DOMAIN Functions[figure] /\ Line(f) \in 1..3 /\ f \in Nat
      BY LinesAre
<1> HIDE DEF f, L
<1>3. DOMAIN L = 1..3 /\ L[Line(f)] = word
      BY <1>1, <1>2
<1>4. ASSUME NEW g \in DOMAIN Functions[figure], g # f, L[Line(g)] = Done(g)
      PROVE  said[Line(g)] = Done(g) /\ ~(Calls(f) /\ g = f + 1)
      <2>1. Line(g) \in 1..3 /\ Done(g) \in {"done", "compared"}
            BY LinesAre
      <2>2. Line(g) # Line(f)
            <3>1. CASE figure # "xcheck"
                  BY <1>2, <1>4, <3>1, LinesAre
            <3>2. CASE figure = "xcheck"
                  <4>1. word \in {"failed", "stopped", Done(f)}
                        BY <3>2 DEF f
                  <4>2. Done(f) # Done(g)
                        BY <1>2, <1>4, <3>2, LinesAre
                  <4>3. word # Done(g)
                        BY <2>1, <4>1, <4>2
                  <4> QED BY <1>3, <1>4, <4>3
            <3> QED BY <3>1, <3>2
      <2>3. ~(f + 1 \in DOMAIN Functions[figure] /\ ~More(f + 1) /\ Line(g) = Line(f + 1))
            BY <1>1, <1>4, <2>1, <2>2
      <2>4. L[Line(g)] = said[Line(g)]
            BY <1>1, <2>1, <2>2, <2>3
      <2> QED BY <1>4, <2>3, <2>4 DEF Calls
<1>5. ASSUME figure # "xcheck", NEW g \in DOMAIN Functions[figure], g # f, g # f + 1
      PROVE  L[Line(g)] = said[Line(g)]
      <2>1. Line(g) \in 1..3 /\ Line(g) # Line(f)
            BY <1>2, <1>5, LinesAre
      <2>2. f + 1 \in DOMAIN Functions[figure] => Line(g) # Line(f + 1)
            BY <1>5, LinesAre
      <2> QED BY <1>1, <2>1, <2>2
<1> QED BY <1>3, <1>4, <1>5 DEF f, L

(* The jobs of the stage that is awaited have come, all of them or with one    *)
(* that failed.                                                            *)
Came(R, r, dis) ==
    AllBack(R, r, R[r].at) \/ (dis /\ \E k \in DOMAIN R[r].jobs[R[r].at] : R[r].jobs[R[r].at][k] = "cut")

(* What a return leaves of the jobs.                                        *)
LEMMA CameIs ==
    ASSUME SoundFigure, NEW R, NEW dis, Shaped(R), Kept(R, dis), NEW r \in DOMAIN R, R[r].at # Ended, Came(R, r, dis)
    PROVE  /\ Settled(R, r)
           /\ figure \in {"sweep", "bench", "channel"} /\ ~dis => AllBack(R, r, R[r].at)
           /\ figure = "xcheck" /\ R[r].f = 2 => R[r].jobs[1][1] \in {"back", "stopped", "cut"}
<1>1. R[r].at \in DOMAIN R[r].jobs /\ R[r].at = Len(R[r].jobs) /\ DOMAIN R[r].jobs = 1..Len(R[r].jobs) /\ Len(R[r].jobs) \in Nat
      BY RunIs
<1>2. Settled(R, r)
      <2> SUFFICES ASSUME NEW t \in DOMAIN R[r].jobs
                   PROVE  AllBack(R, r, t) \/ \E k \in DOMAIN R[r].jobs[t] : R[r].jobs[t][k] = "cut"
          BY DEF Settled
      <2>1. t < R[r].at \/ t = R[r].at
            <3>1. t \in Nat /\ R[r].at \in Nat /\ t <= R[r].at
                  BY <1>1
            <3> QED BY <3>1
      <2>2. CASE t < R[r].at
            BY <2>2 DEF Kept
      <2>3. CASE t = R[r].at
            BY <2>3 DEF Came
      <2> QED BY <2>1, <2>2, <2>3
<1>3. ASSUME figure = "xcheck", R[r].f = 2
      PROVE  R[r].jobs[1][1] \in {"back", "stopped", "cut"}
      <2>1. DOMAIN R[r].jobs = {1} /\ DOMAIN R[r].jobs[1] = {1}
            BY <1>3, OneJob
      <2>2. R[r].at = 1
            BY <1>1, <2>1
      <2>3. AllBack(R, r, 1) \/ \E k \in DOMAIN R[r].jobs[1] : R[r].jobs[1][k] = "cut"
            BY <2>2 DEF Came
      <2> QED BY <2>1, <2>3 DEF AllBack
<1> QED BY <1>2, <1>3 DEF Came

(* A function returns, and the next of its chain is called.                  *)
LEMMA ReturnKeeps ==
    ASSUME SoundFigure, NEW R, NEW sh, NEW sh2, NEW b2, NEW dis, NEW word,
           FigureInv(R, said, sh, button, dis), NEW r \in DOMAIN R, R[r].at # Ended, Came(R, r, dis),
           figure \in Clicked \/ (figure = "xcheck" /\ r # 1) \/ b2 = button,
           \A x : R[x[1]].f # R[r].f => (x \in sh2 <=> x \in sh),
           OnShow(R, sh2),
           word \in {"failed", "stopped", Done(R[r].f)} \/ figure # "xcheck",
           word = Done(R[r].f) /\ ~Excused(dis) => ShownOf(R, sh2, R[r].f) = Drawable(R, r),
           figure \in {"gauging", "surgery"} => word \in {"done", "failed"}
    PROVE  FigureInv(Returned(R, r), LineAfter(R, r, word), sh2, b2, dis)
<1> DEFINE f == R[r].f
           M == [R EXCEPT ![r].at = Ended]
           N == Returned(R, r)
           L == LineAfter(R, r, word)
<1>1. /\ FigureParts(R, said, sh, button, dis) /\ Spoken(R, said)
      /\ Shaped(R) /\ InTurn(R, button, dis) /\ Kept(R, dis) /\ OnShow(R, sh) /\ DOMAIN said = 1..3
      BY DEF FigureInv, FigureParts
<1>2. RunEnded(R, M, r)
      BY <1>1, RunEnds
<1>3. f \in DOMAIN Functions[figure] /\ f \in Nat /\ r \in Nat
      BY <1>1, RunIs
<1>4. N = IF Calls(f) THEN Append(M, Begun(f + 1)) ELSE M
      BY DEF Returned, Calls
<1>5. /\ DOMAIN L = 1..3 /\ L[Line(f)] = word
      /\ \A g \in DOMAIN Functions[figure] : g # f /\ L[Line(g)] = Done(g) =>
                 said[Line(g)] = Done(g) /\ ~(Calls(f) /\ g = f + 1)
      /\ figure # "xcheck" => \A g \in DOMAIN Functions[figure] : g # f /\ g # f + 1 => L[Line(g)] = said[Line(g)]
      BY <1>1, <1>3, LineAfterIs
<1>6. /\ Settled(R, r)
      /\ figure \in {"sweep", "bench", "channel"} /\ ~dis => AllBack(R, r, R[r].at)
      /\ figure = "xcheck" /\ R[r].f = 2 => R[r].jobs[1][1] \in {"back", "stopped", "cut"}
      BY <1>1, CameIs
<1>7. L[Line(f)] = Done(f) /\ ~Excused(dis) => Settled(R, r) /\ ShownOf(R, sh2, f) = Drawable(R, r)
      BY <1>5, <1>6
<1> HIDE DEF M, N, L, f
<1>8. FigureParts(M, L, sh2, b2, dis)
      <2>1. \A g \in DOMAIN Functions[figure] : g # R[r].f /\ L[Line(g)] = Done(g) => said[Line(g)] = Done(g)
            BY <1>5 DEF f
      <2>2. L[Line(R[r].f)] = Done(R[r].f) /\ ~Excused(dis) => Settled(R, r) /\ ShownOf(R, sh2, R[r].f) = Drawable(R, r)
            BY <1>7 DEF f
      <2> QED BY <1>1, <1>2, <1>5, <1>6, <2>1, <2>2, RunOver
<1>9. /\ DOMAIN M = DOMAIN R /\ Len(M) = Len(R) /\ M[r].at = Ended
      /\ \A q \in DOMAIN R : M[q].f = R[q].f /\ (q # r => M[q] = R[q])
      BY <1>2 DEF RunEnded, Elsewhere
<1>10. DOMAIN R = 1..Len(R) /\ Len(R) \in Nat
       BY <1>1, ShapedIs
<1>11. CASE ~Calls(f)
       <2>1. N = M
             BY <1>4, <1>11
       <2>2. Spoken(M, L)
             <3> SUFFICES ASSUME figure \in {"gauging", "surgery"}, NEW q \in DOMAIN R, M[q].at = Ended
                          PROVE  /\ L[Line(M[q].f)] \in {"done", "failed"}
                                 /\ q + 1 \in DOMAIN Functions[figure] => q + 1 \in DOMAIN M
                 BY <1>9 DEF Spoken
             <3>1. figure \notin Clicked \cup {"xcheck"}
                   BY DEF Clicked
             <3>2. \A p \in DOMAIN R : R[p].f = p /\ (R[p].at # Ended => p = Len(R))
                   BY <1>1, <3>1 DEF InTurn
             <3>3. CASE q = r
                   <4>1. q + 1 \notin DOMAIN Functions[figure]
                         <5>1. q + 1 = f + 1
                               BY <3>2, <3>3 DEF f
                         <5>2. ~More(q + 1)
                               BY <3>1 DEF More
                         <5> QED BY <1>11, <5>1, <5>2 DEF Calls
                   <4> QED BY <1>5, <1>9, <3>3, <4>1 DEF f
             <3>4. CASE q # r
                   <4>1. R[q].at = Ended /\ M[q].f = q /\ R[q].f = q /\ f = r /\ r = Len(R)
                         BY <1>9, <3>2, <3>4 DEF f
                   <4>2. said[Line(q)] \in {"done", "failed"} /\ (q + 1 \in DOMAIN Functions[figure] => q + 1 \in DOMAIN R)
                         BY <1>1, <4>1 DEF Spoken
                   <4>3. q # f + 1 /\ q # f
                         BY <1>10, <3>4, <4>1
                   <4>4. q \in DOMAIN Functions[figure]
                         BY <1>1, <4>1, RunIs
                   <4>5. L[Line(q)] = said[Line(q)]
                         BY <1>5, <3>1, <4>3, <4>4
                   <4> QED BY <1>9, <4>1, <4>2, <4>5
             <3> QED BY <3>3, <3>4
       <2>3. FigureInv(N, L, sh2, b2, dis)
             BY <1>8, <2>1, <2>2 DEF FigureInv
       <2> QED BY <2>3 DEF N, L
<1>12. CASE Calls(f)
       <2>1. figure \notin Clicked \cup {"xcheck"} /\ f + 1 \in DOMAIN Functions[figure]
             BY <1>3, <1>12, CallsIs
       <2>2. \A p \in DOMAIN R : R[p].f = p /\ (R[p].at # Ended => p = Len(R))
             BY <1>1, <2>1 DEF InTurn
       <2>3. f = r /\ r = Len(R)
             BY <2>2 DEF f
       <2>4. RunBegun(M, N, f + 1)
             <3>1. N = Append(M, Begun(f + 1)) /\ Shaped(M)
                   BY <1>4, <1>12, <1>8 DEF FigureParts
             <3> QED BY <2>1, <3>1, RunBegins
       <2>5. /\ DOMAIN N = DOMAIN M \cup {Len(N)} /\ Len(N) = Len(M) + 1 /\ N[Len(N)] = Begun(f + 1)
             /\ \A q \in DOMAIN M : N[q] = M[q]
             BY <2>4 DEF RunBegun
       <2>6. f + 1 = Len(N)
             BY <1>9, <2>3, <2>5
       <2>7. \A q \in DOMAIN M : M[q].at = Ended /\ M[q].f # f + 1
             <3> SUFFICES ASSUME NEW q \in DOMAIN R
                          PROVE  M[q].at = Ended /\ M[q].f # f + 1
                 BY <1>9
             <3>1. M[q].f = q /\ q # f + 1
                   BY <1>9, <1>10, <2>2, <2>3
             <3>2. M[q].at = Ended
                   <4>1. CASE q = r
                         BY <1>9, <4>1
                   <4>2. CASE q # r
                         BY <1>9, <2>2, <2>3, <4>2
                   <4> QED BY <4>1, <4>2
             <3> QED BY <3>1, <3>2
       <2>8. \A x \in sh2 : M[x[1]].f # f + 1
             BY <1>9, <2>7 DEF OnShow
       <2>9. \A g \in DOMAIN Functions[figure] : L[Line(g)] = Done(g) => g # f + 1
             <3>1. f # f + 1
                   BY <1>3
             <3> QED BY <1>5, <1>12, <3>1
       <2>10. FigureParts(N, L, sh2, b2, dis)
             <3>1. DOMAIN L = 1..3
                   BY <1>5
             <3> QED BY <1>8, <2>1, <2>4, <2>6, <2>7, <2>8, <2>9, <3>1, RunStarts
       <2>11. Spoken(N, L)
             <3> SUFFICES ASSUME figure \in {"gauging", "surgery"}, NEW q \in DOMAIN N, N[q].at = Ended
                          PROVE  /\ L[Line(N[q].f)] \in {"done", "failed"}
                                 /\ q + 1 \in DOMAIN Functions[figure] => q + 1 \in DOMAIN N
                 BY DEF Spoken
             <3>1. q \in DOMAIN R /\ N[q] = M[q]
                   <4>1. Begun(f + 1).at # Ended
                         BY <2>1, BegunIs DEF Ended
                   <4>2. q # Len(N)
                         BY <2>5, <4>1
                   <4> QED BY <1>9, <2>5, <4>2
             <3>2. CASE q = r
                   <4>1. N[q].f = f
                         BY <1>9, <3>1, <3>2 DEF f
                   <4>2. q + 1 = Len(N)
                         BY <2>3, <2>6, <3>2
                   <4> QED BY <1>5, <2>5, <4>1, <4>2
             <3>3. CASE q # r
                   <4>1. R[q].at = Ended /\ N[q].f = q /\ R[q].f = q
                         BY <1>9, <2>2, <3>1, <3>3
                   <4>2. said[Line(q)] \in {"done", "failed"} /\ (q + 1 \in DOMAIN Functions[figure] => q + 1 \in DOMAIN R)
                         BY <1>1, <3>1, <4>1 DEF Spoken
                   <4>3. q # f + 1 /\ q # f
                         BY <1>10, <2>3, <3>1, <3>3
                   <4>4. q \in DOMAIN Functions[figure]
                         BY <1>1, <3>1, <4>1, RunIs
                   <4>5. L[Line(q)] = said[Line(q)]
                         BY <1>5, <2>1, <4>3, <4>4
                   <4> QED BY <1>9, <2>5, <4>1, <4>2, <4>5
             <3> QED BY <3>2, <3>3
       <2>12. FigureInv(N, L, sh2, b2, dis)
             BY <2>10, <2>11 DEF FigureInv
       <2> QED BY <2>12 DEF N, L
<1> QED BY <1>11, <1>12

-----------------------------------------------------------------------------
(* What is awaited has come, or is missed: a run of this state, with what is    *)
(* drawn then, where the job that made it so is counted as back or cut.        *)
Resumes(R, r, drawn, dis) ==
    /\ FigureInv(R, said, drawn, button, dis)
    /\ r \in DOMAIN R /\ R[r].at # Ended /\ Came(R, r, dis)
    /\ DOMAIN R = DOMAIN runs /\ \A q \in DOMAIN R : R[q].f = runs[q].f
    /\ OnShow(R, shown) /\ \A x : R[x[1]].f # R[r].f => (x \in shown <=> x \in drawn)
    /\ Functions[figure][R[r].f].draws => drawn = shown

(* A function that goes on, with what it needs for that.                    *)
LEMMA ResumesIs ==
    ASSUME SoundFigure, NEW R, NEW r, NEW drawn, NEW dis, Resumes(R, r, drawn, dis)
    PROVE  /\ FigureInv(R, said, drawn, button, dis) /\ FigureParts(R, said, drawn, button, dis) /\ Spoken(R, said)
           /\ Shaped(R) /\ DOMAIN said = 1..3 /\ InTurn(R, button, dis) /\ Kept(R, dis) /\ OnShow(R, drawn)
           /\ Drawn(R, drawn, dis) /\ Finished(R, said, drawn, dis) /\ StopsAtBench(R)
           /\ r \in DOMAIN R /\ R[r].at # Ended /\ Came(R, r, dis)
           /\ DOMAIN R = DOMAIN runs /\ \A q \in DOMAIN R : R[q].f = runs[q].f
           /\ OnShow(R, shown) /\ \A x : R[x[1]].f # R[r].f => (x \in shown <=> x \in drawn)
           /\ Functions[figure][R[r].f].draws => drawn = shown
           /\ R[r].f \in DOMAIN Functions[figure] /\ R[r].at \in DOMAIN R[r].jobs
           /\ R[r].at \in DOMAIN Functions[figure][R[r].f].stages
           /\ ~Excused(dis) => said[Line(R[r].f)] # Done(R[r].f)
<1>1. /\ FigureInv(R, said, drawn, button, dis) /\ FigureParts(R, said, drawn, button, dis) /\ Spoken(R, said)
      /\ Shaped(R) /\ DOMAIN said = 1..3 /\ InTurn(R, button, dis) /\ Kept(R, dis) /\ OnShow(R, drawn)
      /\ Drawn(R, drawn, dis) /\ Finished(R, said, drawn, dis) /\ StopsAtBench(R)
      /\ r \in DOMAIN R /\ R[r].at # Ended
      BY DEF Resumes, FigureInv, FigureParts
<1>2. /\ R[r].f \in DOMAIN Functions[figure] /\ R[r].at \in DOMAIN R[r].jobs
      /\ R[r].at \in DOMAIN Functions[figure][R[r].f].stages
      BY <1>1, RunIs
<1>3. ~Excused(dis) => said[Line(R[r].f)] # Done(R[r].f)
      BY <1>1, GoingIsNotDone
<1> QED BY <1>1, <1>2, <1>3 DEF Resumes

(* A function that says it failed.                                          *)
LEMMA GivesUpKeeps ==
    ASSUME SoundFigure, NEW R, NEW r, NEW drawn, NEW dis, Resumes(R, r, drawn, dis), GivesUp(R, r)
    PROVE  FigureInv(runs', said', shown', button', dis)
<1>1. runs' = Returned(R, r) /\ said' = LineAfter(R, r, "failed") /\ button' = Free(R[r].f) /\ shown' = shown
      BY DEF GivesUp
<1>2. /\ FigureInv(R, said, drawn, button, dis) /\ InTurn(R, button, dis) /\ R[r].f \in DOMAIN Functions[figure]
      /\ r \in DOMAIN R /\ R[r].at # Ended /\ Came(R, r, dis)
      /\ OnShow(R, shown) /\ \A x : R[x[1]].f # R[r].f => (x \in shown <=> x \in drawn)
      BY ResumesIs
<1>3. figure \in Clicked \/ (figure = "xcheck" /\ r # 1) \/ Free(R[r].f) = button
      <2> SUFFICES ASSUME figure \notin Clicked, figure = "xcheck" => r = 1
                   PROVE  Free(R[r].f) = button
          OBVIOUS
      <2>1. ~More(R[r].f)
            <3>1. figure = "xcheck" => R[r].f = 1
                  BY <1>2 DEF InTurn
            <3> QED BY <3>1 DEF More
      <2>2. figure # "channel"
            BY DEF Clicked
      <2> QED BY <2>1, <2>2 DEF Free
<1>4. "failed" # Done(R[r].f)
      BY DEF Done
<1>5. FigureInv(Returned(R, r), LineAfter(R, r, "failed"), shown, Free(R[r].f), dis)
      BY <1>2, <1>3, <1>4, ReturnKeeps
<1> QED BY <1>1, <1>5

(* A promise that is rejected, whatever the chain does with it.             *)
LEMMA EscapesKeeps ==
    ASSUME SoundFigure, NEW R, NEW r, NEW drawn, NEW dis, Resumes(R, r, drawn, dis), Escapes(R, r),
           Functions[figure][R[r].f].stages[R[r].at].throws = "escapes"
    PROVE  FigureInv(runs', said', shown', button', dis)
<1> DEFINE f == R[r].f
           F == Functions[figure][f]
           M == [R EXCEPT ![r].at = Ended]
<1>1. /\ FigureInv(R, said, drawn, button, dis) /\ FigureParts(R, said, drawn, button, dis) /\ Spoken(R, said)
      /\ Shaped(R) /\ DOMAIN said = 1..3 /\ InTurn(R, button, dis) /\ Kept(R, dis)
      /\ r \in DOMAIN R /\ R[r].at # Ended /\ Came(R, r, dis)
      /\ OnShow(R, shown) /\ \A x : R[x[1]].f # R[r].f => (x \in shown <=> x \in drawn)
      /\ f \in DOMAIN Functions[figure] /\ R[r].at \in DOMAIN F.stages
      /\ ~Excused(dis) => said[Line(f)] # Done(f)
      BY ResumesIs
<1>2. F.escaped \in {"says", "swallowed", "lost", "claimed"} /\ Sound(F) /\ Apart(F, figure)
      BY <1>1, FigureIs DEF Sound
<1>3. /\ figure \notin Clicked
      /\ figure \in {"gauging", "surgery"} => F.escaped = "says"
      /\ figure = "xcheck" => F.escaped = "lost"
      BY <1>1, <1>2 DEF Apart
<1>4. shown' = shown /\ button' = button
      BY DEF Escapes
<1>5. RunEnded(R, M, r)
      BY <1>1, RunEnds
<1>6. /\ Settled(R, r)
      /\ figure \in {"sweep", "bench", "channel"} /\ ~dis => AllBack(R, r, R[r].at)
      /\ figure = "xcheck" /\ R[r].f = 2 => R[r].jobs[1][1] \in {"back", "stopped", "cut"}
      BY <1>1, CameIs
<1>7. CASE F.escaped = "lost"
      <2>1. runs' = M /\ said' = said
            BY <1>7 DEF Escapes
      <2> HIDE DEF F, M
      <2>2. FigureParts(M, said, shown, button, dis)
            BY <1>1, <1>5, <1>6, RunOver
      <2>3. Spoken(M, said)
            BY <1>3, <1>7 DEF Spoken
      <2>4. FigureInv(M, said, shown, button, dis)
            BY <2>2, <2>3 DEF FigureInv
      <2> QED BY <1>4, <2>1, <2>4
<1>8. CASE F.escaped = "claimed"
      <2> DEFINE L == LineAfter(R, r, "done")
      <2>1. runs' = M /\ said' = L
            BY <1>8 DEF Escapes
      <2>2. figure # "xcheck"
            BY <1>3, <1>8
      <2>3. /\ DOMAIN L = 1..3 /\ L[Line(f)] = "done"
            /\ \A g \in DOMAIN Functions[figure] : g # f /\ L[Line(g)] = Done(g) => said[Line(g)] = Done(g)
            BY <1>1, <2>2, LineAfterIs
      <2>4. \A q \in DOMAIN R : R[q].f = f => \A t \in DOMAIN R[q].jobs : DOMAIN R[q].jobs[t] = {}
            <3> SUFFICES ASSUME NEW q \in DOMAIN R, R[q].f = f, NEW t \in DOMAIN R[q].jobs
                         PROVE  DOMAIN R[q].jobs[t] = {}
                OBVIOUS
            <3>1. DOMAIN R[q].jobs[t] = DOMAIN Sent(F.stages[t]) /\ SoundStage(F, t)
                  BY <1>1, RunIs
            <3>2. F.stages[t].what = "load"
                  BY <1>8, <3>1 DEF SoundStage
            <3> HIDE DEF F
            <3> QED BY <3>1, <3>2, SentIs DEF SoundFigure
      <2>5. ShownOf(R, shown, f) = {}
            <3> SUFFICES ASSUME NEW x \in shown, R[x[1]].f = f
                         PROVE  FALSE
                BY DEF ShownOf
            <3>1. PICK q \in DOMAIN R : \E t \in DOMAIN R[q].jobs : \E k \in DOMAIN R[q].jobs[t] : x = <<q, t, k>>
                  BY <1>1 DEF OnShow
            <3> QED BY <2>4, <3>1
      <2>6. Drawable(R, r) = {}
            BY <1>1, <2>4 DEF Drawable, Answers
      <2> HIDE DEF F, M, L
      <2>7. FigureParts(M, L, shown, button, dis)
            BY <1>1, <1>5, <1>6, <2>3, <2>5, <2>6, RunOver DEF f
      <2>8. Spoken(M, L)
            BY <1>3, <1>8 DEF Spoken
      <2>9. FigureInv(M, L, shown, button, dis)
            BY <2>7, <2>8 DEF FigureInv
      <2> QED BY <1>4, <2>1, <2>9
<1>9. CASE F.escaped = "says"
      <2>1. runs' = Returned(R, r) /\ said' = LineAfter(R, r, "failed")
            BY <1>9 DEF Escapes
      <2>2. "failed" # Done(f)
            BY DEF Done
      <2>3. FigureInv(Returned(R, r), LineAfter(R, r, "failed"), shown, button, dis)
            BY <1>1, <2>2, ReturnKeeps
      <2> QED BY <1>4, <2>1, <2>3
<1>10. CASE F.escaped = "swallowed"
      <2>1. runs' = Returned(R, r) /\ said' = LineAfter(R, r, said[Line(f)])
            BY <1>10 DEF Escapes
      <2>2. figure # "xcheck" /\ figure \notin {"gauging", "surgery"}
            BY <1>3, <1>10
      <2>3. FigureInv(Returned(R, r), LineAfter(R, r, said[Line(f)]), shown, button, dis)
            BY <1>1, <2>2, ReturnKeeps
      <2> QED BY <1>4, <2>1, <2>3
<1> QED BY <1>2, <1>7, <1>8, <1>9, <1>10

(* The last word of a function.                                             *)
LEMMA WordIs ==
    ASSUME SoundFigure, NEW R, NEW r \in DOMAIN R, Shaped(R), StopsAtBench(R)
    PROVE  Word(R, r) \in {"stopped", Done(R[r].f)} /\ (figure # "bench" => Word(R, r) = Done(R[r].f))
<1>1. 1 \in DOMAIN R[r].jobs
      BY RunIs
<1>2. figure # "bench" => ~\E j \in DOMAIN R[r].jobs[1] : R[r].jobs[1][j] = "stopped"
      BY <1>1 DEF StopsAtBench
<1> QED BY <1>2 DEF Word, Done

(* A progressive function has drawn all its answers as the last is back.      *)
LEMMA AllIsShown ==
    ASSUME SoundFigure, NEW R, NEW sh, NEW b, NEW dis, NEW r \in DOMAIN R, R[r].at # Ended,
           Shaped(R), Kept(R, dis), OnShow(R, sh), Drawn(R, sh, dis), ~Excused(dis),
           ~Functions[figure][R[r].f].draws, AllBack(R, r, R[r].at)
    PROVE  ShownOf(R, sh, R[r].f) = Drawable(R, r)
<1>1. \A t \in DOMAIN R[r].jobs : AllBack(R, r, t)
      <2> SUFFICES ASSUME NEW t \in DOMAIN R[r].jobs
                   PROVE  AllBack(R, r, t)
          OBVIOUS
      <2>1. t \in Nat /\ R[r].at \in Nat /\ t <= R[r].at
            BY RunIs
      <2>2. t < R[r].at \/ t = R[r].at
            BY <2>1
      <2> QED BY <2>2 DEF Kept
<1>2. \A t \in DOMAIN R[r].jobs : DOMAIN R[r].jobs[t] \subseteq 1..Jobs
      BY RunIs
<1>3. ASSUME NEW x \in ShownOf(R, sh, R[r].f)
      PROVE  x \in Drawable(R, r)
      <2>1. x \in sh /\ R[x[1]].f = R[r].f
            BY DEF ShownOf
      <2>2. x[1] = r
            <3>1. CASE figure = "xcheck" /\ R[r].f = 2
                  <4>1. DOMAIN R[r].jobs = {1} /\ DOMAIN R[r].jobs[1] = {1}
                        BY <3>1, OneJob
                  <4>2. R[r].jobs[1][1] \notin {"out", "cut"}
                        BY <1>1, <4>1 DEF AllBack
                  <4> QED BY <2>1, <4>2 DEF Drawn
            <3>2. CASE ~(figure = "xcheck" /\ R[r].f = 2)
                  BY <2>1, <3>2 DEF Drawn
            <3> QED BY <3>1, <3>2
      <2>3. PICK q \in DOMAIN R : \E t \in DOMAIN R[q].jobs : \E k \in DOMAIN R[q].jobs[t] : x = <<q, t, k>>
            BY <2>1 DEF OnShow
      <2>4. PICK t \in DOMAIN R[q].jobs : \E k \in DOMAIN R[q].jobs[t] : x = <<q, t, k>>
            BY <2>3
      <2>5. PICK k \in DOMAIN R[q].jobs[t] : x = <<q, t, k>>
            BY <2>4
      <2>6. q = r
            BY <2>2, <2>5
      <2>7. k \in 1..Jobs /\ AllBack(R, r, t)
            BY <1>1, <1>2, <2>6
      <2> QED BY <2>5, <2>6, <2>7 DEF Drawable, Answers, AllBack
<1>4. ASSUME NEW x \in Drawable(R, r)
      PROVE  x \in ShownOf(R, sh, R[r].f)
      <2>1. PICK t \in DOMAIN R[r].jobs, k \in 1..Jobs : x = <<r, t, k>>
            BY DEF Drawable, Answers
      <2>2. x[1] = r /\ x[2] = t /\ x[3] = k
            BY <2>1
      <2>3. k \in DOMAIN R[r].jobs[t] /\ R[r].jobs[t][k] \in {"back", "stopped"}
            BY <2>2 DEF Drawable
      <2>4. Reported(R, r, t, k)
            BY <2>3 DEF Reported
      <2>5. <<r, t, k>> \in sh
            BY <2>3, <2>4 DEF Drawn
      <2> QED BY <2>1, <2>2, <2>5 DEF ShownOf
<1> QED BY <1>3, <1>4 DEF ShownOf

-----------------------------------------------------------------------------
(* What a line says as a stage begins.                                      *)
LEMMA BusyIs ==
    ASSUME SoundFigure, DOMAIN said = 1..3, NEW r, NEW stage, runs[r].f \in DOMAIN Functions[figure]
    PROVE  /\ DOMAIN Busy(r, stage) = 1..3
           /\ \A l \in 1..3 : Busy(r, stage)[l] = said[l] \/ Busy(r, stage)[l] = "busy"
           /\ Announced(stage) => Busy(r, stage)[Line(runs[r].f)] = "busy"
           /\ ~Announced(stage) => \A l \in 1..3 : Busy(r, stage)[l] = said[l]
           /\ \A g \in DOMAIN Functions[figure] : Busy(r, stage)[Line(g)] = Done(g) => said[Line(g)] = Done(g)
<1> DEFINE l == Line(runs[r].f)
           B == Busy(r, stage)
<1>1. B = [said EXCEPT ![l] = IF Announced(stage) THEN "busy" ELSE said[l]]
      BY DEF Busy
<1>2. l \in 1..3
      BY LinesAre
<1> HIDE DEF l, B
<1>3. /\ DOMAIN B = 1..3 /\ \A k \in 1..3 : B[k] = said[k] \/ B[k] = "busy"
      /\ Announced(stage) => B[l] = "busy"
      BY <1>1, <1>2
<1>4. ~Announced(stage) => \A k \in 1..3 : B[k] = said[k]
      BY <1>1, <1>2
<1>5. ASSUME NEW g \in DOMAIN Functions[figure], B[Line(g)] = Done(g)
      PROVE  said[Line(g)] = Done(g)
      <2>1. Line(g) \in 1..3 /\ Done(g) \in {"done", "compared"}
            BY LinesAre
      <2>2. B[Line(g)] = said[Line(g)] \/ B[Line(g)] = "busy"
            BY <1>3, <2>1
      <2>3. B[Line(g)] # "busy"
            BY <1>5, <2>1
      <2> QED BY <1>5, <2>2, <2>3
<1> QED BY <1>3, <1>4, <1>5 DEF l, B

(* A function reaches its next stage, or its end.                           *)
LEMMA GoesOnKeeps ==
    ASSUME SoundFigure, NEW R, NEW r, NEW drawn, NEW dis, Resumes(R, r, drawn, dis), GoesOn(R, r, drawn),
           AllBack(R, r, R[r].at) \/ (/\ Functions[figure][R[r].f].draws
                                      /\ R[r].at = Len(Functions[figure][R[r].f].stages))
    PROVE  FigureInv(runs', said', shown', button', dis)
<1> DEFINE f == R[r].f
           F == Functions[figure][f]
<1>1. /\ FigureInv(R, said, drawn, button, dis) /\ FigureParts(R, said, drawn, button, dis) /\ Spoken(R, said)
      /\ Shaped(R) /\ DOMAIN said = 1..3 /\ InTurn(R, button, dis) /\ Kept(R, dis) /\ OnShow(R, drawn)
      /\ Drawn(R, drawn, dis) /\ StopsAtBench(R)
      /\ r \in DOMAIN R /\ R[r].at # Ended /\ Came(R, r, dis)
      /\ DOMAIN R = DOMAIN runs /\ \A q \in DOMAIN R : R[q].f = runs[q].f
      /\ OnShow(R, shown)
      /\ F.draws => drawn = shown
      /\ f \in DOMAIN Functions[figure] /\ R[r].at \in DOMAIN F.stages
      BY ResumesIs
<1>2. FunctionOf(r) = F /\ runs[r].f = f
      BY <1>1 DEF FunctionOf
<1>3. Sound(F) /\ Apart(F, figure)
      BY <1>1, FigureIs
<1>4. CASE /\ R[r].at < Len(FunctionOf(r).stages)
           /\ runs' = [R EXCEPT ![r] = Reached(R[r])]
           /\ said' = Busy(r, StageOf(r, R[r].at + 1))
           /\ shown' = drawn
           /\ button' = button
      <2> DEFINE N == [R EXCEPT ![r] = Reached(R[r])]
                 stage == F.stages[R[r].at + 1]
      <2>1. R[r].at < Len(F.stages) /\ R[r].at # Len(F.stages) /\ R[r].at + 1 \in DOMAIN F.stages
            <3>1. R[r].at < Len(F.stages)
                  BY <1>2, <1>4
            <3>2. R[r].at \in Nat /\ DOMAIN F.stages = 1..Len(F.stages) /\ Len(F.stages) \in Nat
                  BY <1>1, <1>3, RunIs DEF Sound
            <3> DEFINE a == R[r].at
                       n == Len(F.stages)
            <3>3. a \in Nat /\ n \in Nat /\ a < n
                  BY <3>1, <3>2
            <3> HIDE DEF a, n
            <3>4. a # n /\ a + 1 \in 1..n
                  BY <3>3
            <3> QED BY <3>1, <3>2, <3>4 DEF a, n
      <2>2. StageReached(R, N, r)
            BY <1>1, <2>1, StageReaches
      <2>3. said' = Busy(r, stage)
            BY <1>2, <1>4 DEF StageOf, FunctionOf
      <2>4. /\ DOMAIN said' = 1..3
            /\ ~Announced(stage) => \A l \in 1..3 : (said')[l] = said[l]
            /\ \A g \in DOMAIN Functions[figure] : (said')[Line(g)] = Done(g) => said[Line(g)] = Done(g)
            <3> HIDE DEF stage
            <3> QED BY <1>1, <1>2, <2>3, BusyIs
      <2>5. AllBack(R, r, R[r].at)
            BY <2>1
      <2> HIDE DEF N
      <2>6. FigureParts(N, said', drawn, button, dis)
            BY <1>1, <2>1, <2>2, <2>4, <2>5, StageBegins
      <2>7. Spoken(N, said')
            <3> SUFFICES ASSUME figure \in {"gauging", "surgery"}, NEW q \in DOMAIN N, N[q].at = Ended
                         PROVE  /\ (said')[Line(N[q].f)] \in {"done", "failed"}
                                /\ q + 1 \in DOMAIN Functions[figure] => q + 1 \in DOMAIN N
                BY DEF Spoken
            <3>1. \A l \in 1..3 : (said')[l] = said[l]
                  <4> HIDE DEF F
                  <4>1. F.stages[R[r].at + 1].tells = "no" /\ F.stages[R[r].at + 1].what # "timer"
                        BY <1>3, <2>1 DEF Apart
                  <4>2. ~Announced(stage)
                        BY <4>1 DEF Announced
                  <4> QED BY <2>4, <4>2
            <3>2. /\ DOMAIN N = DOMAIN R /\ N[r].at = R[r].at + 1 /\ \A p \in DOMAIN R : p # r => N[p] = R[p]
                  BY <2>2 DEF StageReached, Elsewhere
            <3>3. R[r].at \in Nat
                  BY <1>1, RunIs
            <3>4. N[r].at # Ended
                  BY <3>2, <3>3 DEF Ended
            <3>5. q \in DOMAIN R /\ N[q] = R[q]
                  BY <3>2, <3>4
            <3>6. said[Line(N[q].f)] \in {"done", "failed"} /\ (q + 1 \in DOMAIN Functions[figure] => q + 1 \in DOMAIN N)
                  BY <1>1, <3>2, <3>5 DEF Spoken
            <3>7. N[q].f \in DOMAIN Functions[figure]
                  BY <1>1, <3>5, RunIs
            <3>8. Line(N[q].f) \in 1..3
                  BY <3>7, LinesAre
            <3> QED BY <3>1, <3>6, <3>8
      <2>8. FigureInv(N, said', drawn, button, dis)
            BY <2>6, <2>7 DEF FigureInv
      <2> QED BY <1>4, <2>8 DEF N
<1>5. CASE /\ R[r].at = Len(FunctionOf(r).stages)
           /\ runs' = Returned(R, r)
           /\ said' = LineAfter(R, r, Word(R, r))
           /\ shown' = IF FunctionOf(r).draws THEN OthersShown(r) \cup Drawable(R, r) ELSE drawn
           /\ button' = IF More(R[r].f) THEN "off" ELSE Free(R[r].f)
      <2>1. figure \in Clicked \/ (figure = "xcheck" /\ r # 1) \/ button' = button
            <3> SUFFICES ASSUME figure \notin Clicked, figure = "xcheck" => r = 1
                         PROVE  button' = button
                OBVIOUS
            <3>1. ~More(R[r].f)
                  <4>1. figure = "xcheck" => R[r].f = 1
                        BY <1>1 DEF InTurn
                  <4> QED BY <4>1 DEF More
            <3>2. figure # "channel"
                  BY DEF Clicked
            <3> QED BY <1>5, <3>1, <3>2 DEF Free
      <2>2. Word(R, r) \in {"stopped", Done(f)} /\ (figure # "bench" => Word(R, r) = Done(f))
            BY <1>1, WordIs
      <2>3. figure \in {"gauging", "surgery"} => Word(R, r) = "done"
            BY <2>2 DEF Done, More
      <2>4. CASE F.draws
            <3>1. shown' = OthersShown(r) \cup Drawable(R, r) /\ drawn = shown
                  BY <1>1, <1>2, <1>5, <2>4
            <3>2. \A x \in shown : x[1] \in DOMAIN R
                  BY <1>1 DEF OnShow
            <3>3. OthersShown(r) = {x \in shown : R[x[1]].f # f}
                  BY <1>1, <1>2, <3>2 DEF OthersShown
            <3>4. \A x \in Drawable(R, r) : x[1] = r
                  BY DEF Drawable, Answers
            <3>5. ShownOf(R, shown', f) = Drawable(R, r)
                  BY <3>1, <3>3, <3>4 DEF ShownOf
            <3>6. \A x : R[x[1]].f # f => (x \in shown' <=> x \in drawn)
                  BY <3>1, <3>3, <3>4
            <3>7. OnShow(R, shown')
                  <4> SUFFICES ASSUME NEW x \in shown'
                               PROVE  \E q \in DOMAIN R : \E t \in DOMAIN R[q].jobs : \E k \in DOMAIN R[q].jobs[t] : x = <<q, t, k>>
                      BY DEF OnShow
                  <4>1. CASE x \in shown
                        BY <1>1, <4>1 DEF OnShow
                  <4>2. CASE x \in Drawable(R, r)
                        <5>1. PICK t \in DOMAIN R[r].jobs, k \in 1..Jobs : x = <<r, t, k>>
                              BY <4>2 DEF Drawable, Answers
                        <5>2. x[2] = t /\ x[3] = k
                              BY <5>1
                        <5>3. k \in DOMAIN R[r].jobs[t]
                              BY <4>2, <5>2 DEF Drawable
                        <5> QED BY <1>1, <5>1, <5>3
                  <4> QED BY <3>1, <3>3, <4>1, <4>2
            <3>8. FigureInv(Returned(R, r), LineAfter(R, r, Word(R, r)), shown', button', dis)
                  BY <1>1, <2>1, <2>2, <2>3, <3>5, <3>6, <3>7, ReturnKeeps
            <3> QED BY <1>5, <3>8
      <2>5. CASE ~F.draws
            <3>1. shown' = drawn
                  BY <1>2, <1>5, <2>5
            <3>2. AllBack(R, r, R[r].at)
                  BY <2>5
            <3>3. ~Excused(dis) => ShownOf(R, drawn, f) = Drawable(R, r)
                  BY <1>1, <2>5, <3>2, AllIsShown
            <3>4. FigureInv(Returned(R, r), LineAfter(R, r, Word(R, r)), drawn, button', dis)
                  BY <1>1, <2>1, <2>2, <2>3, <3>3, ReturnKeeps
            <3> QED BY <1>5, <3>1, <3>4
      <2> QED BY <2>4, <2>5
<1> QED BY <1>4, <1>5 DEF GoesOn

(* What was awaited has come, and the code after it may throw.              *)
LEMMA ComesKeeps ==
    ASSUME SoundFigure, NEW R, NEW r, NEW drawn, NEW dis, Resumes(R, r, drawn, dis), Comes(R, r, drawn),
           AllBack(R, r, R[r].at) \/ (/\ Functions[figure][R[r].f].draws
                                      /\ R[r].at = Len(Functions[figure][R[r].f].stages))
    PROVE  FigureInv(runs', said', shown', button', dis)
<1>1. StageOf(r, R[r].at) = Functions[figure][R[r].f].stages[R[r].at]
      BY ResumesIs DEF StageOf, FunctionOf
<1>2. CASE GoesOn(R, r, drawn)
      BY <1>2, GoesOnKeeps
<1>3. CASE GivesUp(R, r)
      BY <1>3, GivesUpKeeps
<1>4. CASE StageOf(r, R[r].at).throws = "escapes" /\ Escapes(R, r)
      BY <1>1, <1>4, EscapesKeeps
<1> QED BY <1>2, <1>3, <1>4 DEF Comes

(* What was awaited failed.                                                 *)
LEMMA LacksKeeps ==
    ASSUME SoundFigure, NEW R, NEW r, NEW dis, Resumes(R, r, shown, dis), Lacks(R, r)
    PROVE  FigureInv(runs', said', shown', button', dis)
<1>1. /\ StageOf(r, R[r].at) = Functions[figure][R[r].f].stages[R[r].at]
      /\ Shaped(R) /\ r \in DOMAIN R /\ R[r].at \in DOMAIN R[r].jobs
      BY ResumesIs DEF StageOf, FunctionOf
<1>2. SoundStage(Functions[figure][R[r].f], R[r].at)
      BY <1>1, RunIs
<1>3. CASE GivesUp(R, r)
      BY <1>3, GivesUpKeeps
<1>4. CASE StageOf(r, R[r].at).fails = "without" /\ Comes(R, r, shown)
      <2>1. Functions[figure][R[r].f].draws /\ R[r].at = Len(Functions[figure][R[r].f].stages)
            BY <1>1, <1>2, <1>4 DEF SoundStage
      <2> QED BY <1>4, <2>1, ComesKeeps
<1> QED BY <1>3, <1>4 DEF Lacks

-----------------------------------------------------------------------------
(* A job changes, with the lines and what is drawn.                         *)
JobChange(R, N, sd, sd2, sh, sh2, dis, r, s, j, v) ==
    /\ r \in DOMAIN R /\ s \in DOMAIN R[r].jobs /\ j \in DOMAIN R[r].jobs[s]
    /\ JobMoved(R, N, r, s, j, v) /\ DOMAIN sd2 = 1..3
    /\ Outstanding(R, r, s, j)
    /\ v \in {"told", "back", "stopped", "cut"} \/ R[r].at # Ended
    /\ v = "stopped" => figure = "bench"
    /\ \A x \in sh2 : x \in sh \/ (R[r].jobs[s][j] \in {"out", "told"} /\ IsJob(R, r, x))
    /\ \A x \in sh : x \in sh2 \/ (R[r].jobs[s][j] \in {"out", "told"} /\ R[x[1]].f = R[r].f
                                 /\ (Functions[figure][R[r].f].draws \/ (x[2] = s /\ x[3] = j)))
    /\ R[r].at # Ended /\ ~Excused(dis) /\ ~Functions[figure][R[r].f].draws /\ Reported(N, r, s, j) => <<r, s, j>> \in sh2
    /\ figure = "xcheck" /\ R[r].f = 2 /\ v # "cut" =>
          R[r].jobs[s][j] = "told" \/ \A x \in sh2 : R[x[1]].f = 2 => x[1] = r \/ ~(x[2] = s /\ x[3] = j)
    /\ v \notin {"back", "stopped", "cut"} \/ sh2 # sh =>
          R[r].at # Ended \/ Excused(dis) \/ sd2[Line(R[r].f)] \notin {"done", "compared"}
    /\ \A l \in 1..3 : sd2[l] = sd[l] \/ sd2[l] \notin {"done", "compared"}
    /\ figure \in {"gauging", "surgery"} => \A l \in 1..3 : sd2[l] = sd[l]

(* A job's change keeps the invariant.                                      *)
LEMMA JobKeeps ==
    ASSUME SoundFigure, NEW R, NEW N, NEW sd, NEW sd2, NEW sh, NEW sh2, NEW b, NEW dis, NEW r, NEW s, NEW j, NEW v,
           FigureInv(R, sd, sh, b, dis), JobChange(R, N, sd, sd2, sh, sh2, dis, r, s, j, v)
    PROVE  FigureInv(N, sd2, sh2, b, dis)
<1>0. /\ r \in DOMAIN R /\ s \in DOMAIN R[r].jobs /\ j \in DOMAIN R[r].jobs[s]
      /\ JobMoved(R, N, r, s, j, v) /\ DOMAIN sd2 = 1..3
      /\ Outstanding(R, r, s, j)
      /\ v \in {"told", "back", "stopped", "cut"} \/ R[r].at # Ended
      /\ v = "stopped" => figure = "bench"
      /\ \A x \in sh2 : x \in sh \/ (R[r].jobs[s][j] \in {"out", "told"} /\ IsJob(R, r, x))
      /\ \A x \in sh : x \in sh2 \/ (R[r].jobs[s][j] \in {"out", "told"} /\ R[x[1]].f = R[r].f
                                   /\ (Functions[figure][R[r].f].draws \/ (x[2] = s /\ x[3] = j)))
      /\ R[r].at # Ended /\ ~Excused(dis) /\ ~Functions[figure][R[r].f].draws /\ Reported(N, r, s, j) => <<r, s, j>> \in sh2
      /\ figure = "xcheck" /\ R[r].f = 2 /\ v # "cut" =>
            R[r].jobs[s][j] = "told" \/ \A x \in sh2 : R[x[1]].f = 2 => x[1] = r \/ ~(x[2] = s /\ x[3] = j)
      /\ v \notin {"back", "stopped", "cut"} \/ sh2 # sh =>
            R[r].at # Ended \/ Excused(dis) \/ sd2[Line(R[r].f)] \notin {"done", "compared"}
      /\ \A l \in 1..3 : sd2[l] = sd[l] \/ sd2[l] \notin {"done", "compared"}
      /\ figure \in {"gauging", "surgery"} => \A l \in 1..3 : sd2[l] = sd[l]
      BY DEF JobChange
<1>1. /\ Shaped(R) /\ InTurn(R, b, dis) /\ Kept(R, dis) /\ OnShow(R, sh) /\ Drawn(R, sh, dis)
      /\ Finished(R, sd, sh, dis) /\ StopsAtBench(R) /\ Spoken(R, sd)
      BY DEF FigureInv, FigureParts
<1>2. Shaped(N) /\ DOMAIN N = DOMAIN R
      BY <1>0 DEF JobMoved
<1>3. InTurn(N, b, dis)
      BY <1>0, <1>1, JobInTurn
<1>4. Kept(N, dis)
      BY <1>0, <1>1, JobKept
<1>5. OnShow(N, sh2)
      <2>1. \A x \in sh2 : x \in sh \/ IsJob(R, r, x)
            BY <1>0
      <2> QED BY <1>0, <1>1, <2>1, JobOnShow
<1>6. \A x \in sh2 : x \in sh \/ (x[1] = r /\ R[r].jobs[s][j] \in {"out", "told"})
      BY <1>0 DEF IsJob
<1>7. Drawn(N, sh2, dis)
      BY <1>0, <1>1, <1>6, JobDrawn
<1>8. \A x : R[x[1]].f # R[r].f => (x \in sh2 <=> x \in sh)
      BY <1>0, <1>6
<1>9. \A x \in sh2 : x[1] \in DOMAIN R
      BY <1>2, <1>5 DEF OnShow
<1>10. Finished(N, sd2, sh2, dis)
      <2>1. R[r].jobs[s][j] \in {"out", "told"} \/ R[r].at # Ended
            BY <1>0 DEF Outstanding
      <2> QED BY <1>0, <1>1, <1>8, <1>9, <2>1, JobFinished
<1>11. StopsAtBench(N)
      BY <1>0, <1>1, JobStops
<1>12. Spoken(N, sd2)
      BY <1>0, <1>1, JobSpoken
<1> QED BY <1>2, <1>3, <1>4, <1>5, <1>7, <1>10, <1>11, <1>12, <1>0 DEF FigureInv, FigureParts

(* The stage of a job.                                                      *)
LEMMA JobIs ==
    ASSUME SoundFigure, Shaped(runs), NEW r \in DOMAIN runs, NEW s \in DOMAIN runs[r].jobs, NEW j \in DOMAIN runs[r].jobs[s]
    PROVE  /\ runs[r].f \in DOMAIN Functions[figure] /\ StageOf(r, s) = Functions[figure][runs[r].f].stages[s]
           /\ s \in Nat \ {0} /\ j \in 1..Jobs
           /\ StageOf(r, s).what \in {"call", "jobs", "timed"}
           /\ SoundStage(Functions[figure][runs[r].f], s)
           /\ ~Functions[figure][runs[r].f].draws => StageOf(r, s).tells \in {"puts", "pushes", "back"}
           /\ Functions[figure][runs[r].f].draws => StageOf(r, s).tells \in {"no", "line", "own"}
           /\ StageOf(r, s).tells = "own" => DOMAIN runs[r].jobs[s] = 1..Jobs
           /\ StageOf(r, s).tells = "back" => figure = "xcheck"
           /\ figure \in {"gauging", "surgery"} => StageOf(r, s).tells = "no" /\ ~Announced(StageOf(r, s))
           /\ figure = "xcheck" /\ runs[r].f = 2 => StageOf(r, s).tells = "puts" /\ StageOf(r, s).what = "call"
<1> DEFINE F == Functions[figure][runs[r].f]
           stage == F.stages[s]
<1>1. /\ runs[r].f \in DOMAIN Functions[figure] /\ s \in Nat \ {0} /\ j \in 1..Jobs
      /\ s \in DOMAIN F.stages /\ SoundStage(F, s) /\ DOMAIN runs[r].jobs[s] = DOMAIN Sent(stage)
      <2>1. DOMAIN runs[r].jobs = 1..Len(runs[r].jobs) /\ Len(runs[r].jobs) \in Nat
            BY RunIs
      <2> QED BY <2>1, RunIs
<1>2. StageOf(r, s) = stage
      BY DEF StageOf, FunctionOf
<1> HIDE DEF stage
<1>3. stage.what \in {"load", "call", "jobs", "timed", "timer"}
      BY <1>1 DEF SoundStage, stage
<1>4. stage.what \notin {"load", "timer"}
      BY <1>1, <1>3, SentIs DEF SoundFigure
<1>5. stage.what = "jobs" => DOMAIN runs[r].jobs[s] = 1..Jobs
      BY <1>1, <1>3, SentIs DEF SoundFigure
<1>6. /\ ~F.draws => stage.tells \in {"puts", "pushes", "back"}
      /\ F.draws => stage.tells \in {"no", "line", "own"}
      /\ stage.tells = "own" => stage.what = "jobs"
      BY <1>1, <1>3, <1>4 DEF SoundStage, stage
<1>7. Apart(F, figure)
      BY <1>1, FigureIs
<1>8. /\ stage.tells = "back" => figure = "xcheck"
      /\ figure \in {"gauging", "surgery"} => stage.tells = "no" /\ stage.what # "timer"
      <2> HIDE DEF F
      <2> QED BY <1>1, <1>7 DEF Apart, stage
<1>9. ASSUME figure = "xcheck", runs[r].f = 2
      PROVE  stage.tells = "puts" /\ stage.what = "call"
      <2>1. F = XcMore /\ s = 1
            BY <1>1, <1>9, XcheckIs
      <2> QED BY <2>1, XcheckIs DEF stage
<1>10. /\ stage.what \in {"call", "jobs", "timed"}
       /\ stage.tells = "own" => DOMAIN runs[r].jobs[s] = 1..Jobs
       /\ figure \in {"gauging", "surgery"} => stage.tells = "no" /\ ~Announced(stage)
       BY <1>3, <1>4, <1>5, <1>6, <1>8 DEF Announced
<1>11. StageOf(r, s) = Functions[figure][runs[r].f].stages[s]
       BY <1>2 DEF stage
<1> HIDE DEF F
<1>12. /\ ~Functions[figure][runs[r].f].draws => StageOf(r, s).tells \in {"puts", "pushes", "back"}
       /\ Functions[figure][runs[r].f].draws => StageOf(r, s).tells \in {"no", "line", "own"}
       /\ SoundStage(Functions[figure][runs[r].f], s)
       BY <1>1, <1>2, <1>6 DEF F
<1> QED BY <1>1, <1>2, <1>8, <1>9, <1>10, <1>11, <1>12

(* An answer that is put takes the place of an earlier run's.               *)
LEMMA PutIs ==
    ASSUME NEW r \in DOMAIN runs, NEW s \in DOMAIN runs[r].jobs, NEW j \in DOMAIN runs[r].jobs[s]
    PROVE  /\ <<r, s, j>> \in Put(r, s, j)
           /\ \A x \in shown : x \in Put(r, s, j) \/ (runs[x[1]].f = runs[r].f /\ x[2] = s /\ x[3] = j)
           /\ \A x \in Put(r, s, j) : /\ x \in shown \/ x = <<r, s, j>>
                                      /\ runs[x[1]].f = runs[r].f => x[1] = r \/ ~(x[2] = s /\ x[3] = j)
BY DEF Put

(* What a job's report draws.                                               *)
LEMMA DrawingIs ==
    ASSUME SoundFigure, Shaped(runs), NEW r \in DOMAIN runs, NEW s \in DOMAIN runs[r].jobs, NEW j \in DOMAIN runs[r].jobs[s],
           NEW N, JobMoved(runs, N, r, s, j, "told"),
           StageOf(r, s).tells \in {"line", "puts", "pushes", "own"}
    PROVE  /\ \A x \in Drawing(N, r, s, j) :
                x \in shown \/ IsJob(runs, r, x)
           /\ \A x \in shown : x \in Drawing(N, r, s, j) \/
                (runs[x[1]].f = runs[r].f /\ (Functions[figure][runs[r].f].draws \/ (x[2] = s /\ x[3] = j)))
           /\ ~Functions[figure][runs[r].f].draws => <<r, s, j>> \in Drawing(N, r, s, j)
           /\ figure = "xcheck" /\ runs[r].f = 2 =>
                \A x \in Drawing(N, r, s, j) : runs[x[1]].f = 2 => x[1] = r \/ ~(x[2] = s /\ x[3] = j)
<1> DEFINE D == Drawing(N, r, s, j)
           F == Functions[figure][runs[r].f]
<1>1. /\ ~F.draws => StageOf(r, s).tells \in {"puts", "pushes", "back"}
      /\ F.draws => StageOf(r, s).tells \in {"no", "line", "own"}
      /\ StageOf(r, s).tells = "own" => DOMAIN runs[r].jobs[s] = 1..Jobs
      /\ figure = "xcheck" /\ runs[r].f = 2 => StageOf(r, s).tells = "puts"
      BY JobIs
<1>2. CASE StageOf(r, s).tells = "line"
      <2>1. D = shown
            BY <1>2 DEF Drawing
      <2> QED BY <1>1, <1>2, <2>1
<1>3. CASE StageOf(r, s).tells = "puts"
      <2>1. D = Put(r, s, j)
            BY <1>3 DEF Drawing
      <2>2. /\ <<r, s, j>> \in D
            /\ \A x \in shown : x \in D \/ (runs[x[1]].f = runs[r].f /\ x[2] = s /\ x[3] = j)
            /\ \A x \in D : x \in shown \/ x = <<r, s, j>>
            /\ \A x \in D : runs[x[1]].f = runs[r].f => x[1] = r \/ ~(x[2] = s /\ x[3] = j)
            BY <2>1, PutIs
      <2>3. IsJob(runs, r, <<r, s, j>>)
            BY DEF IsJob
      <2> HIDE DEF D
      <2>4. \A x \in D : x \in shown \/ IsJob(runs, r, x)
            BY <2>2, <2>3
      <2> QED BY <2>2, <2>4 DEF D
<1>4. CASE StageOf(r, s).tells = "pushes"
      <2>1. D = shown \cup {<<r, s, j>>}
            BY <1>4 DEF Drawing
      <2> QED BY <1>1, <1>4, <2>1 DEF IsJob
<1>5. CASE StageOf(r, s).tells = "own"
      <2>1. D = OthersShown(r) \cup {x \in Answers(N, r) : x[2] = s /\ N[r].jobs[s][x[3]] # "out"}
            BY <1>5 DEF Drawing
      <2>2. DOMAIN N[r].jobs = DOMAIN runs[r].jobs
            BY DEF JobMoved
      <2>3. ASSUME NEW x \in Answers(N, r), x[2] = s
            PROVE  IsJob(runs, r, x)
            <3>1. PICK t \in DOMAIN runs[r].jobs, k \in 1..Jobs : x = <<r, t, k>>
                  BY <2>2 DEF Answers
            <3>2. t = s /\ k \in DOMAIN runs[r].jobs[s]
                  BY <1>1, <1>5, <2>3, <3>1
            <3> QED BY <3>1, <3>2 DEF IsJob
      <2> HIDE DEF D
      <2>4. \A x \in D : x \in shown \/ IsJob(runs, r, x)
            BY <2>1, <2>3 DEF OthersShown
      <2>5. F.draws
            BY <1>1, <1>5
      <2>6. \A x \in shown : x \in D \/ runs[x[1]].f = runs[r].f
            BY <2>1 DEF OthersShown
      <2> QED BY <1>1, <1>5, <2>4, <2>5, <2>6 DEF D
<1> QED BY <1>2, <1>3, <1>4, <1>5

-----------------------------------------------------------------------------
FiguresInv ==
    /\ figure \in Figures
    /\ FigureInv(runs, said, shown, button, disturbed)

(* The parts of the invariant.                                              *)
LEMMA InvIs ==
    ASSUME FiguresInv
    PROVE  /\ SoundFigure
           /\ FigureInv(runs, said, shown, button, disturbed)
           /\ FigureParts(runs, said, shown, button, disturbed) /\ Spoken(runs, said)
           /\ Shaped(runs) /\ DOMAIN said = 1..3 /\ InTurn(runs, button, disturbed) /\ Kept(runs, disturbed)
           /\ OnShow(runs, shown) /\ Drawn(runs, shown, disturbed) /\ Finished(runs, said, shown, disturbed)
           /\ StopsAtBench(runs)
BY FiguresAssumption DEF FiguresInv, FigureInv, FigureParts, SoundFigure, FigureNames

(* A job reports.                                                          *)
LEMMA TellKeeps ==
    ASSUME FiguresInv, NEW r \in DOMAIN runs, NEW s \in DOMAIN runs[r].jobs, NEW j \in DOMAIN runs[r].jobs[s], Tell(r, s, j)
    PROVE  FigureInv(runs', said', shown', button', disturbed')
<1> DEFINE N == With(r, s, j, "told")
           D == Drawing(N, r, s, j)
           F == Functions[figure][runs[r].f]
           L == IF figure = "bench" THEN said ELSE [said EXCEPT ![Line(runs[r].f)] = "busy"]
<1>1. SoundFigure /\ FigureInv(runs, said, shown, button, disturbed) /\ Shaped(runs) /\ DOMAIN said = 1..3 /\ Kept(runs, disturbed)
      BY InvIs
<1>2. /\ runs[r].jobs[s][j] = "out" /\ StageOf(r, s).tells \in {"line", "puts", "pushes", "own"}
      /\ runs' = N /\ shown' = D /\ said' = L /\ button' = button /\ disturbed' = disturbed
      BY DEF Tell
<1>3. JobMoved(runs, N, r, s, j, "told")
      BY <1>1, JobMoves DEF JobStates, With
<1>4. /\ runs[r].f \in DOMAIN Functions[figure]
      /\ figure \in {"gauging", "surgery"} => StageOf(r, s).tells = "no"
      BY <1>1, JobIs
<1>5. Line(runs[r].f) \in 1..3
      BY <1>1, <1>4, LinesAre
<1> HIDE DEF N
<1>6. /\ \A x \in D : x \in shown \/ IsJob(runs, r, x)
      /\ \A x \in shown : x \in D \/ (runs[x[1]].f = runs[r].f /\ (F.draws \/ (x[2] = s /\ x[3] = j)))
      /\ ~F.draws => <<r, s, j>> \in D
      /\ figure = "xcheck" /\ runs[r].f = 2 =>
           \A x \in D : runs[x[1]].f = 2 => x[1] = r \/ ~(x[2] = s /\ x[3] = j)
      BY <1>1, <1>2, <1>3, DrawingIs
<1>7. /\ DOMAIN L = 1..3 /\ \A l \in 1..3 : L[l] = said[l] \/ L[l] \notin {"done", "compared"}
      /\ figure # "bench" => L[Line(runs[r].f)] = "busy"
      BY <1>1, <1>5
<1>8. figure = "bench" => runs[r].at # Ended \/ Excused(disturbed)
      <2>1. ~AllBack(runs, r, s)
            BY <1>2 DEF AllBack
      <2> QED BY <1>1, <2>1 DEF Kept, Excused
<1>9. runs[r].at # Ended \/ Excused(disturbed) \/ L[Line(runs[r].f)] \notin {"done", "compared"}
      BY <1>7, <1>8
<1>10. figure \notin {"gauging", "surgery"} /\ Outstanding(runs, r, s, j) /\ runs[r].jobs[s][j] \in {"out", "told"}
      BY <1>2, <1>4 DEF Outstanding
<1> HIDE DEF D, L, F
<1>11. FigureInv(N, L, D, button, disturbed)
       <2>1. JobChange(runs, N, said, L, shown, D, disturbed, r, s, j, "told")
             BY <1>1, <1>3, <1>6, <1>7, <1>9, <1>10 DEF F, JobChange
       <2> QED BY <1>1, <2>1, JobKeeps
<1> QED BY <1>2, <1>11

(* The state in which the function goes on, the job that it awaited being back. *)
BackDraws(r, s, j) == IF StageOf(r, s).tells = "back" THEN Put(r, s, j) ELSE shown

(* An answer is put where its stage puts answers as they come.              *)
LEMMA BackDrawsIs ==
    ASSUME SoundFigure, Shaped(runs), NEW r \in DOMAIN runs, NEW s \in DOMAIN runs[r].jobs, NEW j \in DOMAIN runs[r].jobs[s]
    PROVE  /\ \A x \in BackDraws(r, s, j) : x \in shown \/ x = <<r, s, j>>
           /\ \A x \in shown : x \in BackDraws(r, s, j) \/ (runs[x[1]].f = runs[r].f /\ x[2] = s /\ x[3] = j)
           /\ StageOf(r, s).tells = "back" => <<r, s, j>> \in BackDraws(r, s, j)
           /\ StageOf(r, s).tells # "back" => BackDraws(r, s, j) = shown
BY PutIs DEF BackDraws

(* The answer is there, and the function does not go on yet.                *)
LEMMA BackMoves ==
    ASSUME FiguresInv, NEW r \in DOMAIN runs, NEW s \in DOMAIN runs[r].jobs, NEW j \in DOMAIN runs[r].jobs[s],
           NEW state \in {"back", "stopped"}, NEW L, DOMAIN L = 1..3,
           runs[r].jobs[s][j] \in {"out", "told"},
           state = "stopped" => figure = "bench",
           StageOf(r, s).tells \in {"puts", "pushes", "own"} /\ state = "back" => runs[r].jobs[s][j] = "told",
           \A l \in 1..3 : L[l] = said[l] \/ L[l] \notin {"done", "compared"},
           runs[r].at # Ended \/ StageOf(r, s).tells # "back" \/ L[Line(runs[r].f)] \notin {"done", "compared"},
           figure \in {"gauging", "surgery"} => \A l \in 1..3 : L[l] = said[l]
    PROVE  /\ JobMoved(runs, With(r, s, j, state), r, s, j, state)
           /\ FigureInv(With(r, s, j, state), L, BackDraws(r, s, j), button, disturbed)
<1> DEFINE N == With(r, s, j, state)
           D == BackDraws(r, s, j)
           F == Functions[figure][runs[r].f]
<1>1. SoundFigure /\ FigureInv(runs, said, shown, button, disturbed) /\ Shaped(runs) /\ Drawn(runs, shown, disturbed)
      BY InvIs
<1>2. JobMoved(runs, N, r, s, j, state)
      <2>1. state \in JobStates
            BY DEF JobStates
      <2> QED BY <1>1, <2>1, JobMoves DEF With
<1>3. /\ runs[r].f \in DOMAIN Functions[figure] /\ StageOf(r, s) = F.stages[s]
      /\ ~F.draws => StageOf(r, s).tells \in {"puts", "pushes", "back"}
      /\ figure = "xcheck" /\ runs[r].f = 2 => StageOf(r, s).tells = "puts"
      BY <1>1, JobIs
<1>4. /\ \A x \in D : x \in shown \/ x = <<r, s, j>>
      /\ \A x \in shown : x \in D \/ (runs[x[1]].f = runs[r].f /\ x[2] = s /\ x[3] = j)
      /\ StageOf(r, s).tells = "back" => <<r, s, j>> \in D
      /\ StageOf(r, s).tells # "back" => D = shown
      BY <1>1, BackDrawsIs
<1>5. \A x \in D : x \in shown \/ IsJob(runs, r, x)
      BY <1>4 DEF IsJob
<1>6. ASSUME runs[r].at # Ended, ~Excused(disturbed), ~F.draws
      PROVE  <<r, s, j>> \in D
      <2>1. CASE StageOf(r, s).tells = "back"
            BY <1>4, <2>1
      <2>2. CASE StageOf(r, s).tells # "back"
            <3>1. state = "back"
                  <4>1. figure = "bench" => F.draws
                        BY <1>1, <1>3, FigureIs DEF Apart, Clicked
                  <4> QED BY <1>6, <4>1
            <3>2. runs[r].jobs[s][j] = "told"
                  BY <1>3, <1>6, <2>2, <3>1
            <3>3. Reported(runs, r, s, j)
                  BY <1>3, <2>2, <3>2 DEF Reported
            <3>4. <<r, s, j>> \in shown
                  BY <1>1, <1>6, <3>3 DEF Drawn
            <3> QED BY <1>4, <2>2, <3>4
      <2> QED BY <2>1, <2>2
<1>7. figure = "xcheck" /\ runs[r].f = 2 => runs[r].jobs[s][j] = "told"
      BY <1>3
<1>8. D # shown => runs[r].at # Ended \/ Excused(disturbed) \/ L[Line(runs[r].f)] \notin {"done", "compared"}
      BY <1>4
<1>9. Outstanding(runs, r, s, j)
      BY DEF Outstanding
<1>10. state \in {"told", "back", "stopped", "cut"} /\ state \in {"back", "stopped", "cut"}
      OBVIOUS
<1> HIDE DEF N, D
<1>11. FigureInv(N, L, D, button, disturbed)
       <2>1. JobChange(runs, N, said, L, shown, D, disturbed, r, s, j, state)
             BY <1>1, <1>2, <1>4, <1>5, <1>6, <1>7, <1>8, <1>9, <1>10 DEF JobChange
       <2> QED BY <1>1, <2>1, JobKeeps
<1> QED BY <1>2, <1>11 DEF N, D

(* The next of the jobs that are sent one after the other.                  *)
LEMMA SendKeeps ==
    ASSUME SoundFigure, Shaped(runs), NEW R, NEW sd, NEW sh, NEW b, NEW dis, FigureInv(R, sd, sh, b, dis),
           NEW r \in DOMAIN runs, NEW s \in DOMAIN runs[r].jobs, NEW j \in DOMAIN runs[r].jobs[s],
           r \in DOMAIN R, s \in DOMAIN R[r].jobs, R[r].at = s, R[r].f = runs[r].f
    PROVE  FigureInv(SendNext(R, r, s, j), sd, sh, b, dis)
<1>1. Shaped(R) /\ DOMAIN sd = 1..3
      BY DEF FigureInv, FigureParts
<1>2. CASE ~(StageOf(r, s).what = "timed" /\ j + 1 \in DOMAIN R[r].jobs[s])
      BY <1>2 DEF SendNext
<1>3. CASE StageOf(r, s).what = "timed" /\ j + 1 \in DOMAIN R[r].jobs[s]
      <2> DEFINE N == [R EXCEPT ![r].jobs[s][j + 1] = "out"]
                 k == j + 1
      <2>1. SendNext(R, r, s, j) = N
            BY <1>3 DEF SendNext
      <2>2. JobMoved(R, N, r, s, k, "out")
            BY <1>1, <1>3, JobMoves DEF JobStates
      <2>3. R[r].at # Ended
            <3>1. s \in Nat \ {0}
                  BY JobIs
            <3> QED BY <3>1 DEF Ended
      <2>4. Outstanding(R, r, s, k)
            BY <2>3 DEF Outstanding
      <2>5. ~(figure = "xcheck" /\ R[r].f = 2)
            BY <1>3, JobIs
      <2>6. ~Reported(N, r, s, k)
            <3>1. N[r].jobs[s][k] = "out"
                  BY <2>2 DEF JobMoved
            <3> QED BY <3>1 DEF Reported
      <2> HIDE DEF N, k
      <2>7. k \in DOMAIN R[r].jobs[s]
            BY <1>3 DEF k
      <2>8. FigureInv(N, sd, sh, b, dis)
            <3>1. JobChange(R, N, sd, sd, sh, sh, dis, r, s, k, "out")
                  BY <1>1, <2>2, <2>3, <2>4, <2>5, <2>6, <2>7 DEF JobChange
            <3> QED BY <3>1, JobKeeps
      <2> QED BY <2>1, <2>8
<1> QED BY <1>2, <1>3

-----------------------------------------------------------------------------
(* What is drawn does not change the lines of a function that goes on.        *)
LEMMA BackMovesOn ==
    ASSUME FiguresInv, NEW r \in DOMAIN runs, NEW s \in DOMAIN runs[r].jobs, NEW j \in DOMAIN runs[r].jobs[s],
           NEW state \in {"back", "stopped"}, runs[r].jobs[s][j] \in {"out", "told"}, runs[r].at # Ended,
           state = "stopped" => figure = "bench",
           StageOf(r, s).tells \in {"puts", "pushes", "own"} /\ state = "back" => runs[r].jobs[s][j] = "told"
    PROVE  FigureInv(With(r, s, j, state), said, BackDraws(r, s, j), button, disturbed)
<1> DEFINE L == said
<1>1. DOMAIN L = 1..3
      BY InvIs
<1>2. \A l \in 1..3 : L[l] = said[l]
      OBVIOUS
<1> HIDE DEF L
<1>3. FigureInv(With(r, s, j, state), L, BackDraws(r, s, j), button, disturbed)
      BY <1>1, <1>2, BackMoves
<1> QED BY <1>3 DEF L

(* A job's answer: it is drawn, and the function goes on if it was the last. *)
LEMMA BackKeeps ==
    ASSUME FiguresInv, NEW r \in DOMAIN runs, NEW s \in DOMAIN runs[r].jobs, NEW j \in DOMAIN runs[r].jobs[s], Back(r, s, j)
    PROVE  FigureInv(runs', said', shown', button', disturbed')
<1> DEFINE D == BackDraws(r, s, j)
           F == Functions[figure][runs[r].f]
           B == Busy(r, StageOf(r, s))
<1>1. SoundFigure /\ Shaped(runs) /\ DOMAIN said = 1..3 /\ OnShow(runs, shown)
      BY InvIs
<1>2. PICK state \in {"back", "stopped"} :
        LET R == With(r, s, j, state) IN
        /\ runs[r].jobs[s][j] \in {"out", "told"}
        /\ state = "stopped" => figure = "bench" /\ button = "off" /\ r = Len(runs)
        /\ StageOf(r, s).tells \in {"puts", "pushes", "own"} /\ state = "back" => runs[r].jobs[s][j] = "told"
        /\ \/ /\ Awaited(R, r, s) /\ AllBack(R, r, s)
              /\ Comes(R, r, D)
           \/ /\ ~(Awaited(R, r, s) /\ AllBack(R, r, s))
              /\ runs' = IF Awaited(R, r, s) THEN SendNext(R, r, s, j) ELSE R
              /\ shown' = D
              /\ said' = B
              /\ UNCHANGED button
        /\ UNCHANGED <<figure, changes, general, disturbed>>
      BY DEF Back, BackDraws
<1> DEFINE R == With(r, s, j, state)
<1>3. /\ runs[r].jobs[s][j] \in {"out", "told"} /\ (state = "stopped" => figure = "bench")
      /\ StageOf(r, s).tells \in {"puts", "pushes", "own"} /\ state = "back" => runs[r].jobs[s][j] = "told"
      /\ disturbed' = disturbed
      BY <1>2
<1>4. /\ runs[r].f \in DOMAIN Functions[figure] /\ s \in Nat \ {0}
      /\ F.draws => StageOf(r, s).tells \in {"no", "line", "own"}
      /\ figure \in {"gauging", "surgery"} => ~Announced(StageOf(r, s))
      BY <1>1, JobIs
<1>5. CASE Awaited(R, r, s) /\ AllBack(R, r, s) /\ Comes(R, r, D)
      <2>1. JobMoved(runs, R, r, s, j, state)
            <3>1. state \in JobStates
                  BY DEF JobStates
            <3> QED BY <1>1, <3>1, JobMoves DEF With
      <2>2. /\ r \in DOMAIN R /\ R[r].at = runs[r].at /\ DOMAIN R = DOMAIN runs /\ \A q \in DOMAIN R : R[q].f = runs[q].f
            BY <2>1 DEF JobMoved
      <2>3. R[r].at = s /\ R[r].at # Ended
            BY <1>4, <1>5 DEF Awaited, Ended
      <2>4. FigureInv(R, said, D, button, disturbed)
            <3>1. runs[r].at # Ended
                  BY <2>2, <2>3
            <3> QED BY <1>3, <3>1, BackMovesOn
      <2>5. OnShow(R, shown)
            BY <1>1, <2>1, JobOnShow
      <2>6. \A x : R[x[1]].f # R[r].f => (x \in shown <=> x \in D)
            <3>1. /\ \A x \in D : x \in shown \/ x = <<r, s, j>>
                  /\ \A x \in shown : x \in D \/ (runs[x[1]].f = runs[r].f /\ x[2] = s /\ x[3] = j)
                  BY <1>1, BackDrawsIs, ZenonT(30)
            <3>2. \A x \in shown : x[1] \in DOMAIN runs
                  BY <1>1 DEF OnShow
            <3> HIDE DEF D, R
            <3> QED BY <2>2, <3>1, <3>2
      <2>7. F.draws => D = shown
            BY <1>4 DEF BackDraws
      <2>8. AllBack(R, r, R[r].at)
            BY <1>5, <2>3
      <2> HIDE DEF D, R
      <2>9. Resumes(R, r, D, disturbed)
            <3>1. Functions[figure][R[r].f].draws => D = shown
                  BY <2>2, <2>7
            <3> QED BY <2>2, <2>3, <2>4, <2>5, <2>6, <2>8, <3>1 DEF Resumes, Came
      <2> QED BY <1>1, <1>3, <1>5, <2>8, <2>9, ComesKeeps
<1>6. CASE /\ runs' = IF Awaited(R, r, s) THEN SendNext(R, r, s, j) ELSE R
           /\ shown' = D
           /\ said' = B
           /\ button' = button
      <2>1. /\ DOMAIN B = 1..3
            /\ \A l \in 1..3 : B[l] = said[l] \/ B[l] = "busy"
            /\ Announced(StageOf(r, s)) => B[Line(runs[r].f)] = "busy"
            /\ ~Announced(StageOf(r, s)) => \A l \in 1..3 : B[l] = said[l]
            BY <1>1, <1>4, BusyIs
      <2>2. \A l \in 1..3 : B[l] = said[l] \/ B[l] \notin {"done", "compared"}
            BY <2>1
      <2>3. StageOf(r, s).tells # "back" \/ B[Line(runs[r].f)] \notin {"done", "compared"}
            BY <2>1 DEF Announced
      <2>4. figure \in {"gauging", "surgery"} => \A l \in 1..3 : B[l] = said[l]
            BY <1>4, <2>1
      <2> HIDE DEF B
      <2>5. JobMoved(runs, R, r, s, j, state) /\ FigureInv(R, B, D, button, disturbed)
            BY <1>3, <2>1, <2>2, <2>3, <2>4, BackMoves
      <2>6. r \in DOMAIN R /\ s \in DOMAIN R[r].jobs /\ R[r].f = runs[r].f
            BY <2>5 DEF JobMoved
      <2> HIDE DEF R, D
      <2>7. CASE Awaited(R, r, s)
            <3>1. FigureInv(SendNext(R, r, s, j), B, D, button, disturbed)
                  BY <1>1, <2>5, <2>6, <2>7, SendKeeps DEF Awaited
            <3> QED BY <1>3, <1>6, <2>7, <3>1
      <2>8. CASE ~Awaited(R, r, s)
            BY <1>3, <1>6, <2>5, <2>8
      <2> QED BY <2>7, <2>8
<1> HIDE DEF R, D, B, F
<1>7. \/ Awaited(R, r, s) /\ AllBack(R, r, s) /\ Comes(R, r, D)
      \/ /\ runs' = IF Awaited(R, r, s) THEN SendNext(R, r, s, j) ELSE R
         /\ shown' = D
         /\ said' = B
         /\ button' = button
      BY <1>2 DEF R
<1> QED BY <1>5, <1>6, <1>7

(* A job fails.                                                            *)
LEMMA CutKeeps ==
    ASSUME FiguresInv, NEW r \in DOMAIN runs, NEW s \in DOMAIN runs[r].jobs, NEW j \in DOMAIN runs[r].jobs[s], Cut(r, s, j)
    PROVE  FigureInv(runs', said', shown', button', disturbed')
<1> DEFINE R == With(r, s, j, "cut")
<1>1. SoundFigure /\ Shaped(runs) /\ DOMAIN said = 1..3 /\ OnShow(runs, shown) /\ FigureInv(runs, said, shown, button, disturbed)
      BY InvIs
<1>2. /\ runs[r].jobs[s][j] \in {"out", "told"} /\ disturbed' = TRUE
      /\ \/ Awaited(R, r, s) /\ Lacks(R, r)
         \/ ~Awaited(R, r, s) /\ runs' = R /\ said' = said /\ shown' = shown /\ button' = button
      BY DEF Cut
<1>3. JobMoved(runs, R, r, s, j, "cut")
      BY <1>1, JobMoves DEF With, JobStates
<1> HIDE DEF R
<1>4. FigureInv(R, said, shown, button, TRUE)
      <2>2. ~Reported(R, r, s, j)
            <3>1. R[r].jobs[s][j] = "cut"
                  BY <1>3 DEF JobMoved
            <3> QED BY <3>1 DEF Reported
      <2>3. JobChange(runs, R, said, said, shown, shown, disturbed, r, s, j, "cut")
            BY <1>1, <1>2, <1>3, <2>2 DEF JobChange, Outstanding
      <2>4. FigureInv(R, said, shown, button, disturbed)
            BY <1>1, <2>3, JobKeeps
      <2> QED BY <2>4, Disturbs
<1>5. CASE Awaited(R, r, s) /\ Lacks(R, r)
      <2>1. /\ r \in DOMAIN R /\ R[r].jobs[s][j] = "cut" /\ j \in DOMAIN R[r].jobs[s]
            /\ DOMAIN R = DOMAIN runs /\ \A q \in DOMAIN R : R[q].f = runs[q].f
            BY <1>3 DEF JobMoved
      <2>2. R[r].at = s /\ R[r].at # Ended
            <3>1. s \in Nat \ {0}
                  BY <1>1, JobIs
            <3> QED BY <1>5, <3>1 DEF Awaited, Ended
      <2>3. OnShow(R, shown)
            BY <1>1, <1>3, JobOnShow
      <2>4. Came(R, r, TRUE)
            BY <2>1, <2>2 DEF Came
      <2>5. Resumes(R, r, shown, TRUE)
            BY <1>4, <2>1, <2>2, <2>3, <2>4 DEF Resumes
      <2>6. FigureInv(runs', said', shown', button', TRUE)
            BY <1>1, <1>5, <2>5, LacksKeeps
      <2> QED BY <1>2, <2>6
<1>6. CASE runs' = R /\ said' = said /\ shown' = shown /\ button' = button
      BY <1>2, <1>4, <1>6
<1> QED BY <1>2, <1>5, <1>6

(* A load or a timer.                                                      *)
LEMMA LoadKeeps ==
    ASSUME FiguresInv, NEW r \in DOMAIN runs, Fetched(r) \/ Unavailable(r) \/ Fire(r)
    PROVE  FigureInv(runs', said', shown', button', disturbed')
<1>1. SoundFigure /\ Shaped(runs) /\ OnShow(runs, shown) /\ FigureInv(runs, said, shown, button, disturbed)
      BY InvIs
<1>2. /\ runs[r].at # Ended /\ StageOf(r, runs[r].at).what \in {"load", "timer"} /\ disturbed' = disturbed
      /\ Comes(runs, r, shown) \/ Lacks(runs, r)
      BY DEF Fetched, Unavailable, Fire, Going
<1>3. AllBack(runs, r, runs[r].at)
      <2> DEFINE s == runs[r].at
                 stage == Functions[figure][runs[r].f].stages[s]
      <2>1. s \in DOMAIN runs[r].jobs /\ StageOf(r, s) = stage
            BY <1>1, <1>2, RunIs DEF StageOf, FunctionOf
      <2>2. DOMAIN runs[r].jobs[s] = DOMAIN Sent(stage)
            BY <1>1, <2>1, RunIs
      <2>3. stage.what \in {"load", "timer"}
            BY <1>2, <2>1
      <2>4. DOMAIN Sent(stage) = {}
            <3> HIDE DEF stage
            <3> QED BY <1>1, <2>3, SentIs DEF SoundFigure
      <2> QED BY <2>2, <2>4 DEF AllBack
<1>4. Resumes(runs, r, shown, disturbed)
      BY <1>1, <1>2, <1>3 DEF Resumes, Came
<1>5. CASE Comes(runs, r, shown)
      BY <1>1, <1>2, <1>3, <1>4, <1>5, ComesKeeps
<1>6. CASE Lacks(runs, r)
      BY <1>1, <1>2, <1>4, <1>6, LacksKeeps
<1> QED BY <1>2, <1>5, <1>6

-----------------------------------------------------------------------------
(* A figure or its button is run: its line says so.                         *)
LEMMA BeginTells ==
    ASSUME SoundFigure, NEW f \in DOMAIN Functions[figure], DOMAIN said = 1..3, Begin(f)
    PROVE  /\ DOMAIN said' = 1..3
           /\ \A g \in DOMAIN Functions[figure] : said'[Line(g)] = Done(g) => g # f /\ said[Line(g)] = Done(g)
<1>1. said' = [said EXCEPT ![Line(f)] = "busy"] /\ Line(f) \in 1..3
      BY LinesAre DEF Begin
<1>2. ASSUME NEW g \in DOMAIN Functions[figure], said'[Line(g)] = Done(g)
      PROVE  g # f /\ said[Line(g)] = Done(g)
      <2>1. Line(g) \in 1..3 /\ Done(g) # "busy"
            BY LinesAre
      <2>2. Line(g) # Line(f)
            BY <1>1, <1>2, <2>1
      <2> QED BY <1>1, <1>2, <2>1, <2>2
<1> QED BY <1>1, <1>2

(* Its run begins.                                                          *)
LEMMA BeginStarts ==
    ASSUME SoundFigure, Shaped(runs), NEW f \in DOMAIN Functions[figure], Begin(f)
    PROVE  RunBegun(runs, runs', f) /\ Len(runs') = Len(runs) + 1
<1>1. runs' = Append(runs, Begun(f))
      BY DEF Begin
<1>2. RunBegun(runs, Append(runs, Begun(f)), f)
      BY RunBegins
<1> HIDE DEF RunBegun
<1>3. RunBegun(runs, runs', f)
      BY <1>1, <1>2
<1> QED BY <1>3 DEF RunBegun

(* A figure comes near the view.                                            *)
LEMMA NearKeeps ==
    ASSUME FiguresInv, Near
    PROVE  FigureInv(runs', said', shown', button', disturbed')
<1>1. SoundFigure /\ Shaped(runs) /\ DOMAIN said = 1..3 /\ OnShow(runs, shown) /\ FigureParts(runs, said, shown, button, disturbed)
      BY InvIs
<1>2. /\ figure \notin Clicked /\ runs = <<>> /\ Begin(1)
      /\ shown' = shown /\ button' = button /\ disturbed' = disturbed
      BY DEF Near
<1>3. 1 \in DOMAIN Functions[figure]
      BY <1>1, FigureIs DEF Lines
<1>4. DOMAIN runs = {} /\ Len(runs) = 0
      BY <1>2
<1>5. shown = {}
      BY <1>1, <1>4 DEF OnShow
<1>6. RunBegun(runs, runs', 1) /\ Len(runs') = 1
      BY <1>1, <1>2, <1>3, <1>4, BeginStarts
<1>7. /\ DOMAIN said' = 1..3
      /\ \A g \in DOMAIN Functions[figure] : said'[Line(g)] = Done(g) => g # 1 /\ said[Line(g)] = Done(g)
      BY <1>1, <1>2, <1>3, BeginTells
<1>8. FigureParts(runs', said', shown', button', disturbed')
      <2>1. \A x \in shown : runs[x[1]].f # 1
            BY <1>5
      <2> QED BY <1>1, <1>2, <1>3, <1>4, <1>6, <1>7, <2>1, RunStarts
<1>9. Spoken(runs', said')
      <2>1. \A r \in DOMAIN runs' : runs'[r].at = 1
            BY <1>1, <1>3, <1>4, <1>6, BegunIs DEF RunBegun
      <2> QED BY <2>1 DEF Spoken, Ended
<1> QED BY <1>8, <1>9 DEF FigureInv

(* A figure's button is clicked: what an earlier run drew goes or is redrawn. *)
LEMMA ClickKeeps ==
    ASSUME FiguresInv, Click
    PROVE  FigureInv(runs', said', shown', button', disturbed')
<1>1. SoundFigure /\ Shaped(runs) /\ DOMAIN said = 1..3 /\ OnShow(runs, shown) /\ FigureParts(runs, said, shown, button, disturbed)
      BY InvIs
<1>2. /\ figure \in Clicked /\ button = "on" /\ Begin(1) /\ button' # "on"
      /\ shown' = Cleared /\ disturbed' = disturbed /\ figure' = figure
      BY DEF Click
<1>3. 1 \in DOMAIN Functions[figure] /\ \A f \in DOMAIN Functions[figure] : f = 1
      BY <1>1, <1>2, FigureIs DEF Lines
<1>4. \A x \in shown : runs[x[1]].f = 1
      <2>1. \A x \in shown : x[1] \in DOMAIN runs
            BY <1>1 DEF OnShow
      <2> QED BY <1>1, <1>3, <2>1, RunIs
<1>5. RunBegun(runs, runs', 1)
      BY <1>1, <1>2, <1>3, BeginStarts
<1>6. /\ DOMAIN said' = 1..3
      /\ \A g \in DOMAIN Functions[figure] : said'[Line(g)] = Done(g) => g # 1 /\ said[Line(g)] = Done(g)
      BY <1>1, <1>2, <1>3, BeginTells
<1>7. Functions[figure][1].draws \/ figure = "sweep"
      BY <1>1, <1>2, <1>3, FigureIs DEF Apart
<1>8. shown' \subseteq shown /\ (Functions[figure][1].draws \/ \A x \in shown' : runs[x[1]].f # 1)
      BY <1>2, <1>7 DEF Cleared
<1>9. figure # "xcheck" /\ figure \notin {"gauging", "surgery"}
      BY <1>2 DEF Clicked
<1>10. FigureParts(runs', said', shown', button', disturbed')
       <2>1. \A x \in shown : runs[x[1]].f # 1 => x \in shown'
             BY <1>4
       <2> QED BY <1>1, <1>2, <1>3, <1>5, <1>6, <1>8, <1>9, <2>1, RunStarts
<1> QED BY <1>9, <1>10 DEF FigureInv, Spoken

(* What RunStarts says of a step in which the larger models are compared.    *)
LEMMA MoreStarts ==
    ASSUME FiguresInv, figure = "xcheck", button = "on", button' # "on", shown' = shown, NEW f \in DOMAIN Functions[figure], f = 2,
           RunBegun(runs, runs', f), Len(runs') # 1, DOMAIN said' = 1..3,
           \A g \in DOMAIN Functions[figure] : said'[Line(g)] = Done(g) => g # f /\ said[Line(g)] = Done(g)
    PROVE  FigureParts(runs', said', shown', button', disturbed)
<1>1. SoundFigure /\ FigureParts(runs, said, shown, button, disturbed)
      BY InvIs
<1>2. figure \notin Clicked
      BY DEF Clicked
<1> QED BY <1>1, <1>2, RunStarts

(* The button for the larger models.                                        *)
LEMMA ClickMoreKeeps ==
    ASSUME FiguresInv, ClickMore
    PROVE  FigureInv(runs', said', shown', button', disturbed')
<1>1. SoundFigure /\ Shaped(runs) /\ DOMAIN said = 1..3 /\ FigureParts(runs, said, shown, button, disturbed)
      BY InvIs
<1>2. /\ figure = "xcheck" /\ button = "on" /\ Begin(2) /\ button' # "on"
      /\ shown' = shown /\ disturbed' = disturbed
      BY DEF ClickMore
<1>3. 2 \in DOMAIN Functions[figure]
      BY <1>1, <1>2, FigureIs DEF Lines
<1>4. PICK r \in DOMAIN runs : runs[r].f = 1
      BY DEF ClickMore
<1>5. RunBegun(runs, runs', 2) /\ Len(runs') = Len(runs) + 1
      BY <1>1, <1>2, <1>3, BeginStarts
<1>6. Len(runs') # 1
      <2>1. Len(runs) \in Nat /\ DOMAIN runs = 1..Len(runs)
            BY <1>1, ShapedIs
      <2> QED BY <1>4, <1>5, <2>1
<1>7. /\ DOMAIN said' = 1..3
      /\ \A g \in DOMAIN Functions[figure] : said'[Line(g)] = Done(g) => g # 2 /\ said[Line(g)] = Done(g)
      BY <1>1, <1>2, <1>3, BeginTells
<1> DEFINE f == 2
<1>8. /\ f \in DOMAIN Functions[figure] /\ RunBegun(runs, runs', f)
      /\ \A g \in DOMAIN Functions[figure] : said'[Line(g)] = Done(g) => g # f /\ said[Line(g)] = Done(g)
      /\ f = (IF Len(runs') = 1 THEN 1 ELSE 2) /\ f = 2
      BY <1>3, <1>5, <1>6, <1>7
<1> HIDE DEF f
<1>9. FigureParts(runs', said', shown', button', disturbed)
      BY <1>2, <1>6, <1>7, <1>8, MoreStarts
<1> QED BY <1>2, <1>9 DEF FigureInv, Spoken

(* The bench is stopped: its line says so.                                   *)
LEMMA StopKeeps ==
    ASSUME FiguresInv, Stop
    PROVE  FigureInv(runs', said', shown', button', disturbed')
<1>1. SoundFigure /\ FigureParts(runs, said, shown, button, disturbed) /\ Shaped(runs) /\ DOMAIN said = 1..3
      /\ InTurn(runs, button, disturbed) /\ Finished(runs, said, shown, disturbed)
      BY InvIs
<1>2. /\ figure = "bench" /\ button' = "off" /\ said' = [said EXCEPT ![1] = "stopping"]
      /\ runs' = runs /\ shown' = shown /\ disturbed' = disturbed
      BY DEF Stop
<1>3. figure \in Clicked /\ figure \notin {"gauging", "surgery", "xcheck"}
      BY <1>2 DEF Clicked
<1>4. InTurn(runs, button', disturbed)
      BY <1>1, <1>2, <1>3 DEF InTurn
<1>5. Finished(runs, said', shown, disturbed)
      <2>1. \A f \in DOMAIN Functions[figure] : Line(f) = 1 /\ Done(f) # "stopping"
            BY <1>1, <1>3, LinesAre
      <2>2. said'[1] = "stopping"
            BY <1>1, <1>2
      <2> QED BY <2>1, <2>2 DEF Finished
<1>6. DOMAIN said' = 1..3
      BY <1>1, <1>2
<1>7. FigureParts(runs, said', shown, button', disturbed)
      BY <1>1, <1>4, <1>5, <1>6 DEF FigureParts
<1> QED BY <1>2, <1>3, <1>7 DEF FigureInv, Spoken

(* The noise changes: what runs is out of date.                              *)
LEMMA ChangeNoiseKeeps ==
    ASSUME FiguresInv, ChangeNoise
    PROVE  FigureInv(runs', said', shown', button', disturbed')
<1>1. SoundFigure /\ FigureInv(runs, said, shown, button, disturbed) /\ DOMAIN said = 1..3
      BY InvIs
<1>2. /\ figure \in {"sweep", "channel"} /\ said' = [said EXCEPT ![1] = "ready"] /\ shown' = Cleared
      /\ disturbed' = (disturbed \/ ~AtRest) /\ runs' = runs
      BY DEF ChangeNoise
<1>3. figure \in Clicked /\ figure \notin {"gauging", "surgery", "xcheck"}
      BY <1>2 DEF Clicked
<1>4. FigureParts(runs, said, shown, button, disturbed')
      <2>1. disturbed => disturbed'
            BY <1>2
      <2>2. FigureInv(runs, said, shown, button, disturbed')
            BY <1>1, <2>1, Disturbs
      <2> QED BY <2>2 DEF FigureInv
<1>5. ~Excused(disturbed') => \A r \in DOMAIN runs : runs[r].at = Ended
      BY <1>2 DEF Excused, AtRest, Going
<1>6. InTurn(runs, button', disturbed')
      BY <1>3, <1>5 DEF InTurn
<1>7. Drawn(runs, shown', disturbed')
      BY <1>5 DEF Drawn
<1>8. Finished(runs, said', shown', disturbed')
      <2>1. \A f \in DOMAIN Functions[figure] : Line(f) = 1 /\ Done(f) # "ready"
            BY <1>1, <1>3, LinesAre
      <2>2. said'[1] = "ready"
            BY <1>1, <1>2
      <2> QED BY <2>1, <2>2 DEF Finished
<1>9. OnShow(runs, shown')
      <2>1. shown' \subseteq shown
            BY <1>2 DEF Cleared
      <2> QED BY <1>4, <2>1 DEF OnShow, FigureParts
<1>10. DOMAIN said' = 1..3
       BY <1>1, <1>2
<1>11. FigureParts(runs, said', shown', button', disturbed')
       BY <1>4, <1>6, <1>7, <1>8, <1>9, <1>10 DEF FigureParts
<1> QED BY <1>2, <1>3, <1>11 DEF FigureInv, Spoken

-----------------------------------------------------------------------------
(* The figure stays what it is.                                              *)
LEMMA FigureStays ==
    ASSUME FiguresInv, figure' = figure, FigureInv(runs', said', shown', button', disturbed')
    PROVE  FiguresInv'
<1>1. /\ Shaped(runs') /\ DOMAIN said' = 1..3 /\ InTurn(runs', button', disturbed') /\ Kept(runs', disturbed')
      /\ OnShow(runs', shown') /\ Drawn(runs', shown', disturbed') /\ Finished(runs', said', shown', disturbed')
      /\ StopsAtBench(runs') /\ Spoken(runs', said')
      BY DEF FigureInv, FigureParts
<1>2. Shaped(runs)'
      BY <1>1 DEF Shaped
<1>3. InTurn(runs, button, disturbed)'
      BY <1>1 DEF InTurn, Excused
<1>4. Kept(runs, disturbed)'
      BY <1>1 DEF Kept, AllBack
<1>5. OnShow(runs, shown)'
      BY <1>1 DEF OnShow
<1>6. Drawn(runs, shown, disturbed)'
      BY <1>1 DEF Drawn, Excused, Reported
<1>7. Finished(runs, said, shown, disturbed)'
      <2>1. \A f : Line(f)' = Functions[figure'][f].line /\ Done(f)' = Done(f) /\ Line(f) = Line(f)'
            BY DEF Line, Done, More
      <2>2. \A r : /\ Newest(runs, r)' <=> Newest(runs', r)
                   /\ Settled(runs, r)' <=> Settled(runs', r)
                   /\ Drawable(runs, r)' = Drawable(runs', r)
            BY DEF Newest, Settled, AllBack, Drawable, Answers
      <2>3. \A f : ShownOf(runs, shown, f)' = ShownOf(runs', shown', f)
            BY DEF ShownOf
      <2>4. Excused(disturbed)' <=> Excused(disturbed')
            BY DEF Excused
      <2>5. SUFFICES ASSUME ~Excused(disturbed)', NEW f \in DOMAIN Functions[figure'], said'[Line(f)'] = Done(f)'
                     PROVE  \E r \in DOMAIN runs' : /\ runs'[r].f = f /\ Newest(runs, r)' /\ runs'[r].at = Ended /\ Settled(runs, r)'
                                                    /\ ShownOf(runs, shown, f)' = Drawable(runs, r)'
            BY DEF Finished
      <2>6. PICK r \in DOMAIN runs' : /\ runs'[r].f = f /\ Newest(runs', r) /\ runs'[r].at = Ended /\ Settled(runs', r)
                                      /\ ShownOf(runs', shown', f) = Drawable(runs', r)
            BY <1>1, <2>1, <2>4, <2>5 DEF Finished
      <2> QED BY <2>2, <2>3, <2>6
<1>8. StopsAtBench(runs)'
      BY <1>1 DEF StopsAtBench
<1>9. Spoken(runs, said)'
      BY <1>1 DEF Spoken, Line
<1>10. figure' \in Figures
       BY DEF FiguresInv
<1> QED BY <1>1, <1>2, <1>3, <1>4, <1>5, <1>6, <1>7, <1>8, <1>9, <1>10 DEF FiguresInv, FigureInv, FigureParts

(* Nothing runs at first.                                                   *)
LEMMA FiguresBegin ==
    ASSUME FiguresInit
    PROVE  FiguresInv
<1>1. /\ figure \in Figures /\ runs = <<>> /\ DOMAIN runs = {} /\ said = [l \in 1..3 |-> "ready"] /\ shown = {}
      BY DEF FiguresInit
<1>2. SoundFigure
      BY <1>1, FiguresAssumption DEF SoundFigure, FigureNames
<1>3. Shaped(runs)
      BY <1>1 DEF Shaped
<1>4. InTurn(runs, button, disturbed) /\ Kept(runs, disturbed) /\ StopsAtBench(runs) /\ Spoken(runs, said)
      BY <1>1 DEF InTurn, Kept, StopsAtBench, Spoken
<1>5. OnShow(runs, shown) /\ Drawn(runs, shown, disturbed)
      BY <1>1 DEF OnShow, Drawn
<1>6. Finished(runs, said, shown, disturbed)
      <2>1. \A f \in DOMAIN Functions[figure] : said[Line(f)] # Done(f)
            BY <1>1, <1>2, LinesAre
      <2> QED BY <2>1 DEF Finished
<1> QED BY <1>1, <1>3, <1>4, <1>5, <1>6 DEF FiguresInv, FigureInv, FigureParts

(* Every step keeps the invariant.                                          *)
LEMMA FiguresStep ==
    ASSUME FiguresInv, FiguresNext
    PROVE  FiguresInv'
<1>1. CASE Near
      <2>1. figure' = figure
            BY <1>1 DEF Near
      <2> QED BY <1>1, <2>1, NearKeeps, FigureStays
<1>2. CASE Click
      <2>1. figure' = figure
            BY <1>2 DEF Click
      <2> QED BY <1>2, <2>1, ClickKeeps, FigureStays
<1>3. CASE ClickMore
      <2>1. figure' = figure
            BY <1>3 DEF ClickMore
      <2> QED BY <1>3, <2>1, ClickMoreKeeps, FigureStays
<1>4. CASE Stop
      <2>1. figure' = figure
            BY <1>4 DEF Stop
      <2> QED BY <1>4, <2>1, StopKeeps, FigureStays
<1>5. CASE ChangeNoise
      <2>1. figure' = figure
            BY <1>5 DEF ChangeNoise
      <2> QED BY <1>5, <2>1, ChangeNoiseKeeps, FigureStays
<1>6. ASSUME NEW r \in DOMAIN runs, NEW s \in DOMAIN runs[r].jobs, NEW j \in DOMAIN runs[r].jobs[s], Tell(r, s, j)
      PROVE  FiguresInv'
      <2>1. figure' = figure
            BY <1>6 DEF Tell
      <2> QED BY <1>6, <2>1, TellKeeps, FigureStays
<1>7. ASSUME NEW r \in DOMAIN runs, NEW s \in DOMAIN runs[r].jobs, NEW j \in DOMAIN runs[r].jobs[s], Back(r, s, j)
      PROVE  FiguresInv'
      <2>1. figure' = figure
            BY <1>7 DEF Back
      <2> QED BY <1>7, <2>1, BackKeeps, FigureStays
<1>8. ASSUME NEW r \in DOMAIN runs, NEW s \in DOMAIN runs[r].jobs, NEW j \in DOMAIN runs[r].jobs[s], Cut(r, s, j)
      PROVE  FiguresInv'
      <2>1. figure' = figure
            BY <1>8 DEF Cut
      <2> QED BY <1>8, <2>1, CutKeeps, FigureStays
<1>9. ASSUME NEW r \in DOMAIN runs, Fetched(r) \/ Unavailable(r) \/ Fire(r)
      PROVE  FiguresInv'
      <2>1. figure' = figure
            BY <1>9 DEF Fetched, Unavailable, Fire
      <2> QED BY <1>9, <2>1, LoadKeeps, FigureStays
<1>10. Job(Tell) => FiguresInv'
       BY <1>6 DEF Job
<1>11. Answered => FiguresInv'
       BY <1>7, <1>8, <1>9 DEF Answered, Job
<1> QED BY <1>1, <1>2, <1>3, <1>4, <1>5, <1>10, <1>11 DEF FiguresNext

(* The runs, lines and drawings of a figure agree, at every step of it.       *)
THEOREM FiguresAgree == FiguresSpec => []FiguresInv
<1>1. FiguresInit => FiguresInv
      BY FiguresBegin
<1>2. FiguresInv /\ [FiguresNext]_figureVars => FiguresInv'
      <2>1. ASSUME FiguresInv, UNCHANGED figureVars
            PROVE  FiguresInv'
            <3>1. /\ figure' = figure /\ runs' = runs /\ said' = said /\ shown' = shown /\ button' = button
                  /\ disturbed' = disturbed
                  BY <2>1 DEF figureVars
            <3>2. FigureInv(runs, said, shown, button, disturbed)
                  BY <2>1, InvIs
            <3>3. FigureInv(runs', said', shown', button', disturbed')
                  BY <3>1, <3>2
            <3> QED BY <2>1, <3>1, <3>3, FigureStays
      <2> QED BY <2>1, FiguresStep
<1> QED BY <1>1, <1>2, PTL DEF FiguresSpec

(* A line that says its figure is done is that of the last run of it, and     *)
(* that run is over: all of its answers are drawn.                           *)
LEMMA DoneIsDrawn ==
    ASSUME FiguresInv
    PROVE  DoneIsWhole
<1>1. SoundFigure /\ Shaped(runs) /\ Finished(runs, said, shown, disturbed)
      BY InvIs
<1> SUFFICES ASSUME NEW f \in DOMAIN Functions[figure], said[Line(f)] = Done(f), ~Excused(disturbed)
             PROVE  ShownOf(runs, shown, f) = Drawable(runs, Latest(f))
    BY DEF DoneIsWhole, Done, Excused, ShownOf
<1>2. PICK r \in DOMAIN runs : runs[r].f = f /\ Newest(runs, r) /\ ShownOf(runs, shown, f) = Drawable(runs, r)
      BY <1>1 DEF Finished
<1>3. ASSUME NEW q \in DOMAIN runs, runs[q].f = f, \A p \in DOMAIN runs : runs[p].f = f => p <= q
      PROVE  q = r
      <2>1. q \in Nat /\ r \in Nat
            BY <1>1, RunIs
      <2>2. r <= q /\ q <= r
            BY <1>2, <1>3 DEF Newest
      <2> QED BY <2>1, <2>2
<1>4. Latest(f) = r
      <2>1. \A p \in DOMAIN runs : runs[p].f = f => p <= r
            BY <1>2 DEF Newest
      <2> QED BY <1>2, <1>3, <2>1 DEF Latest
<1> QED BY <1>2, <1>4

(* A figure that says it is done draws every answer of its latest run and    *)
(* none of an earlier one, whatever the order of the answers, the failures    *)
(* and the clicks.                                                          *)
THEOREM DoneFiguresAreWhole == FiguresSpec => []DoneIsWhole
BY FiguresAgree, DoneIsDrawn, PTL

(* The functions of a figure with recorded results have all been called, and   *)
(* each has said how it ended, once none of them is going.                    *)
LEMMA AllAreSaid ==
    ASSUME FiguresInv
    PROVE  FailuresAreSaid
<1> SUFFICES ASSUME figure \in {"gauging", "surgery"}, AtRest, runs # <<>>, NEW f \in DOMAIN Functions[figure]
             PROVE  said[Line(f)] \in {"done", "failed"}
    BY DEF FailuresAreSaid
<1>1. SoundFigure /\ Shaped(runs) /\ Spoken(runs, said) /\ InTurn(runs, button, disturbed)
      BY InvIs
<1>2. \A r \in DOMAIN runs : runs[r].f = r /\ runs[r].at = Ended
      <2>1. figure \notin Clicked \cup {"xcheck"}
            BY DEF Clicked
      <2> QED BY <1>1, <2>1 DEF InTurn, AtRest, Going
<1>3. \A r \in DOMAIN runs : said[Line(r)] \in {"done", "failed"} /\ (r + 1 \in DOMAIN Functions[figure] => r + 1 \in DOMAIN runs)
      BY <1>1, <1>2 DEF Spoken
<1>4. 1 \in DOMAIN runs
      <2>1. DOMAIN runs = 1..Len(runs) /\ Len(runs) \in Nat /\ runs \in Seq(Runs)
            BY <1>1, ShapedIs
      <2>2. Len(runs) # 0
            BY <2>1
      <2> QED BY <2>1, <2>2
<1>5. PICK n \in 1..3 : DOMAIN Functions[figure] = 1..n
      BY <1>1, FigureIs DEF Lines
<1>6. 2 <= n => 2 \in DOMAIN runs
      <2>1. 2 <= n => 1 + 1 \in DOMAIN Functions[figure]
            BY <1>5
      <2> QED BY <1>3, <1>4, <2>1
<1>7. 3 <= n => 3 \in DOMAIN runs
      <2> DEFINE second == 2
      <2>1. 3 <= n => second \in DOMAIN runs /\ second + 1 \in DOMAIN Functions[figure]
            BY <1>5, <1>6
      <2>2. second + 1 = 3
            OBVIOUS
      <2> HIDE DEF second
      <2> QED BY <1>3, <2>1, <2>2
<1>8. f \in DOMAIN runs
      <2>1. f \in 1..n /\ (f = 1 \/ f = 2 \/ f = 3)
            BY <1>5
      <2> QED BY <1>4, <1>6, <1>7, <2>1
<1> QED BY <1>3, <1>8

(* Once nothing of a section with recorded figures is going, each of its       *)
(* figures says that it is done or that it failed.                           *)
THEOREM FailedFiguresSayIt == FiguresSpec => []FailuresAreSaid
BY FiguresAgree, AllAreSaid, PTL
=============================================================================

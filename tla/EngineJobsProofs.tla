-------------------------- MODULE EngineJobsProofs --------------------------
(***************************************************************************)
(* For any number of jobs, rows and configurations: what a job reports is     *)
(* computed from its own inputs, and a job that is done is whole unless it    *)
(* was asked to stop.                                                       *)
(***************************************************************************)
EXTENDS EngineJobs, TLAPS

-----------------------------------------------------------------------------
Places == {"idle", "engine", "cell", "chunk", "dem", "circuit", "files", "models", "model1", "belief",
           "fits", "setup", "batch"}
Inputs == Nat \X Nat
Jobs   == [n : Nat, op : Operations \cup {"none"}, config : Nat, row : Nat, at : Places, from : SUBSET Inputs]

TypeOK ==
    /\ engine \in {"none", "ready", "failed"}
    /\ job \in Jobs
    /\ statics \in [Statics -> Inputs]
    /\ asked \in [1..WorkerJobs -> {"no", "coming", "heard"}]
    /\ ended \in Seq([op : Operations \cup {"none"}, how : {"done", "error"}, rows : Int])

(* The job under way is the next to end, and an operation stands where its   *)
(* code is.                                                                *)
UnderWay ==
    /\ Len(ended) <= WorkerJobs
    /\ job # Idle => /\ job.at # "idle" /\ job.op \in Operations
                     /\ job.n = Len(ended) + 1 /\ job.n <= WorkerJobs
                     /\ job.op = "xctiming" => job.config > 0

InPlace ==
    /\ job.at = "cell" => job.op \in Cells
    /\ job.at = "chunk" => job.op = "stream" /\ job.row <= Rows + 1
    /\ job.at = "batch" => job.op \in Batched /\ statics[job.op] = <<job.n, 0>>
    /\ job.at = "setup" => job.op \in Batched
    /\ job.at = "engine" => job.row = 1
    /\ job.at \notin {"model1", "belief"} => job.from = {}

(* A row's models were decoded with what they were built from in it.         *)
FromRow == job.from \subseteq {Me}

CancelsHeard == \A n \in cancelled : n \in 1..WorkerJobs /\ asked[n] = "heard"

Inv == TypeOK /\ UnderWay /\ InPlace /\ FromRow /\ CancelsHeard /\ OwnInputs /\ WholeUnlessCancelled

-----------------------------------------------------------------------------
LEMMA IdleType == Idle \in Jobs /\ Idle.at = "idle" /\ Idle.from = {}
BY DEF Idle, Jobs, Places

(* The two ways in which a step treats the job under way: it ends it, or     *)
(* leaves it elsewhere.                                                    *)
LEMMA Finishing ==
    ASSUME Inv, job # Idle, NEW how \in {"done", "error"}, NEW rows \in Int, Ends(how, rows),
           how = "done" => rows = Total(job.op) \/ (job.op = "stream" /\ asked[job.n] # "no"),
           asked' = asked, engine' \in {"none", "ready", "failed"}, statics' \in [Statics -> Inputs], OwnInputs'
    PROVE  Inv'
<1> DEFINE last == [op |-> job.op, how |-> how, rows |-> rows]
<1>1. /\ ended' = Append(ended, last) /\ cancelled' = cancelled \ {job.n} /\ job' = Idle
      BY DEF Ends
<1>2. /\ ended \in Seq([op : Operations \cup {"none"}, how : {"done", "error"}, rows : Int])
      /\ last \in [op : Operations \cup {"none"}, how : {"done", "error"}, rows : Int]
      /\ job.n = Len(ended) + 1 /\ job.n <= WorkerJobs
      BY DEF Inv, TypeOK, UnderWay, Jobs
<1>3. /\ ended' \in Seq([op : Operations \cup {"none"}, how : {"done", "error"}, rows : Int])
      /\ Len(ended') = Len(ended) + 1
      /\ \A n \in DOMAIN ended : ended'[n] = ended[n]
      /\ ended'[Len(ended) + 1] = last
      BY <1>1, <1>2
<1>4. TypeOK'
      BY <1>1, <1>3, IdleType DEF Inv, TypeOK
<1>5. UnderWay'
      BY <1>1, <1>2, <1>3, JobsAssumption DEF UnderWay
<1>6. InPlace' /\ FromRow'
      BY <1>1 DEF InPlace, FromRow, Idle
<1>7. CancelsHeard'
      BY <1>1 DEF Inv, CancelsHeard
<1>8. WholeUnlessCancelled'
      <2> SUFFICES ASSUME NEW n \in DOMAIN ended', ended'[n].how = "done"
                   PROVE  ended'[n].rows = Total(ended'[n].op) \/ (ended'[n].op = "stream" /\ asked[n] # "no")
          BY DEF WholeUnlessCancelled
      <2>1. n \in DOMAIN ended \/ n = Len(ended) + 1
            BY <1>2, <1>3
      <2>2. CASE n \in DOMAIN ended
            BY <1>3, <2>2 DEF Inv, WholeUnlessCancelled
      <2>3. CASE n = Len(ended) + 1
            BY <1>2, <1>3, <2>3
      <2> QED BY <2>1, <2>2, <2>3
<1> QED BY <1>4, <1>5, <1>6, <1>7, <1>8 DEF Inv

LEMMA Proceeding ==
    ASSUME Inv, job # Idle, job' \in Jobs, job'.n = job.n, job'.op = job.op, job'.config = job.config, job'.at # "idle",
           cancelled' = cancelled, ended' = ended, asked' = asked, engine' \in {"none", "ready", "failed"},
           statics' \in [Statics -> Inputs], InPlace', FromRow', OwnInputs'
    PROVE  Inv'
<1>1. TypeOK'
      BY DEF Inv, TypeOK
<1>2. UnderWay'
      BY DEF Inv, UnderWay
<1>3. CancelsHeard' /\ WholeUnlessCancelled'
      BY DEF Inv, CancelsHeard, WholeUnlessCancelled
<1> QED BY <1>1, <1>2, <1>3 DEF Inv

(* Reports of a row's own inputs.                                           *)
LEMMA Reporting ==
    ASSUME OwnInputs, NEW config, NEW from, from \subseteq {<<job.n, 0>>, Me, <<0, config>>}, Reports(config, from)
    PROVE  OwnInputs'
BY DEF OwnInputs, Reports, Me

LEMMA NoReport ==
    ASSUME OwnInputs, reports' = reports
    PROVE  OwnInputs'
BY DEF OwnInputs

(* The next row, or the end.                                                *)
LEMMA Advancing ==
    ASSUME Inv, job # Idle, NEW place \in Places \ {"idle", "chunk", "setup", "engine"}, Advances(place),
           asked' = asked, engine' = engine, statics' \in [Statics -> Inputs], OwnInputs',
           place = "cell" => job.op \in Cells,
           place = "batch" => job.op \in Batched /\ statics'[job.op] = <<job.n, 0>>
    PROVE  Inv'
<1>1. engine' \in {"none", "ready", "failed"} /\ job.row \in Int /\ job \in Jobs
      BY DEF Inv, TypeOK, Jobs
<1>2. CASE job.row = Total(job.op)
      BY <1>1, <1>2, Finishing DEF Advances
<1>3. CASE job.row # Total(job.op)
      <2>1. /\ job' = [job EXCEPT !.row = @ + 1, !.at = place, !.from = {}]
            /\ cancelled' = cancelled /\ ended' = ended
            BY <1>3 DEF Advances
      <2>2. job.row + 1 \in Nat /\ {} \in SUBSET Inputs
            BY <1>1 DEF Jobs
      <2>3. /\ job' \in Jobs /\ job'.n = job.n /\ job'.op = job.op /\ job'.config = job.config
            /\ job'.at = place /\ job'.from = {}
            BY <1>1, <2>1, <2>2 DEF Jobs
      <2>4. InPlace' /\ FromRow'
            BY <2>3 DEF InPlace, FromRow
      <2> QED BY <1>1, <2>1, <2>3, <2>4, Proceeding
<1> QED BY <1>2, <1>3

LEMMA Raising ==
    ASSUME Inv, job # Idle, Raises, asked' = asked, engine' \in {"none", "ready", "failed"},
           statics' \in [Statics -> Inputs], OwnInputs'
    PROVE  Inv'
BY Finishing DEF Raises

(* Another place in the same row.                                           *)
LEMMA Going ==
    ASSUME Inv, job # Idle, NEW place \in Places \ {"idle", "chunk", "setup", "engine", "cell"},
           NEW from \in SUBSET Inputs, from \subseteq {Me}, place \notin {"model1", "belief"} => from = {},
           job' = [job EXCEPT !.at = place, !.from = from], cancelled' = cancelled, ended' = ended,
           asked' = asked, engine' = engine, statics' \in [Statics -> Inputs], OwnInputs',
           place = "batch" => job.op \in Batched /\ statics'[job.op] = <<job.n, 0>>
    PROVE  Inv'
<1>1. engine' \in {"none", "ready", "failed"} /\ job \in Jobs
      BY DEF Inv, TypeOK
<1>2. /\ job' \in Jobs /\ job'.n = job.n /\ job'.op = job.op /\ job'.at = place /\ job'.from = from
      /\ job'.row = job.row /\ job'.config = job.config
      BY <1>1 DEF Jobs
<1>3. InPlace' /\ FromRow'
      BY <1>2 DEF InPlace, FromRow, Me
<1> QED BY <1>1, <1>2, <1>3, Proceeding

-----------------------------------------------------------------------------
(* What the calls leave in the statics.                                     *)
LEMMA Busy ==
    ASSUME Inv, job.at # "idle"
    PROVE  /\ job # Idle /\ job \in Jobs /\ job.config \in Nat
           /\ statics \in [Statics -> Inputs] /\ engine \in {"none", "ready", "failed"}
           /\ Me \in Inputs /\ <<job.n, 0>> \in Inputs /\ None \in Inputs /\ FromRow /\ InPlace /\ OwnInputs
<1>1. job \in Jobs /\ job # Idle
      BY IdleType DEF Inv, TypeOK
<1>2. job.config \in Nat /\ job.n \in Nat /\ job.row \in Nat
      BY <1>1 DEF Jobs
<1> QED BY <1>1, <1>2 DEF Inv, TypeOK, Me, Inputs, None

LEMMA Statical ==
    /\ "text" \in Statics /\ "bytes" \in Statics /\ "circuit" \in Statics /\ "cache" \in Statics
    /\ "errors" \in Statics /\ "model0" \in Statics /\ "model1" \in Statics /\ "belief" \in Statics
    /\ "last" \in Statics /\ Batched \subseteq Statics /\ ~("text" \in Batched) /\ ~("last" \in Batched)
BY DEF Statics, Batched

LEMMA Benchmarking ==
    ASSUME Inv, job.at # "idle", NEW c \in Nat
    PROVE  /\ Benchmarked(c) \in [Statics -> Inputs] /\ NotBuilt(c) \in [Statics -> Inputs]
           /\ RanFrom(c, Benchmarked(c)) \subseteq {Me, <<0, c>>}
           /\ c > 0 => Benchmarked(c).cache = <<0, c>>
<1>1. statics \in [Statics -> Inputs] /\ Me \in Inputs /\ <<0, c>> \in Inputs
      BY Busy DEF Inputs
<1>2. [statics EXCEPT !.cache = <<0, c>>, !.errors = Me] \in [Statics -> Inputs]
      BY <1>1
<1>3. [statics EXCEPT !.errors = Me] \in [Statics -> Inputs]
      BY <1>1
<1>4. /\ [statics EXCEPT !.cache = <<0, c>>, !.errors = Me].cache = <<0, c>>
      /\ [statics EXCEPT !.cache = <<0, c>>, !.errors = Me].errors = Me
      BY <1>1, Statical
<1> QED BY <1>1, <1>2, <1>3, <1>4 DEF Benchmarked, NotBuilt, RanFrom, Cached

LEMMA Running ==
    ASSUME Inv, job.at # "idle", NEW c \in Nat, Runs(c)
    PROVE  statics' \in [Statics -> Inputs] /\ OwnInputs'
<1>1. statics' = Benchmarked(c) /\ Reports(c, RanFrom(c, statics'))
      BY DEF Runs
<1>2. RanFrom(c, statics') \subseteq {<<job.n, 0>>, Me, <<0, c>>}
      BY <1>1, Benchmarking
<1> QED BY <1>1, <1>2, Benchmarking, Busy, Reporting

LEMMA Failing ==
    ASSUME Inv, job.at # "idle", NEW c \in Nat, Fails(c), asked' = asked, engine' = engine
    PROVE  Inv'
<1>1. statics' = NotBuilt(c) /\ Raises /\ reports' = reports
      BY DEF Fails
<1>2. statics' \in [Statics -> Inputs] /\ OwnInputs' /\ job # Idle /\ engine' \in {"none", "ready", "failed"}
      BY <1>1, Benchmarking, Busy, NoReport
<1> QED BY <1>1, <1>2, Raising

-----------------------------------------------------------------------------
(* The message loop.                                                        *)
LEMMA TakeInv ==
    ASSUME Inv, Take
    PROVE  Inv'
<1>0. PICK op \in Operations : \E c \in ConfigsOf(op) :
         job' = [Idle EXCEPT !.n = Len(ended) + 1, !.op = op, !.config = c, !.row = 1, !.at = "engine"]
      BY DEF Take
<1>1. PICK c \in ConfigsOf(op) :
         job' = [Idle EXCEPT !.n = Len(ended) + 1, !.op = op, !.config = c, !.row = 1, !.at = "engine"]
      BY <1>0
<1>2. /\ Len(ended) < WorkerJobs /\ reports' = {}
      /\ UNCHANGED <<engine, statics, asked, cancelled, ended>>
      BY DEF Take
<1>3. c \in Nat /\ (op = "xctiming" => c > 0)
      BY JobsAssumption DEF ConfigsOf
<1>4. Len(ended) \in Nat
      BY DEF Inv, TypeOK
<1>5. /\ job' \in Jobs /\ job'.n = Len(ended) + 1 /\ job'.op = op /\ job'.row = 1 /\ job'.at = "engine"
      /\ job'.from = {} /\ job'.config = c
      <2>1. job' = [n |-> Len(ended) + 1, op |-> op, config |-> c, row |-> 1, at |-> "engine", from |-> {}]
            BY <1>1 DEF Idle
      <2>2. Len(ended) + 1 \in Nat /\ 1 \in Nat /\ {} \in SUBSET Inputs /\ "engine" \in Places
            BY <1>4 DEF Places
      <2> QED BY <1>3, <2>1, <2>2 DEF Jobs
<1>6. TypeOK'
      BY <1>2, <1>5 DEF Inv, TypeOK
<1>7. UnderWay'
      <2>1. ended' = ended /\ WorkerJobs \in Nat
            BY <1>2, JobsAssumption
      <2>2. Len(ended) <= WorkerJobs /\ Len(ended) + 1 <= WorkerJobs
            BY <1>2, <1>4, <2>1
      <2> QED BY <1>3, <1>5, <2>1, <2>2 DEF UnderWay
<1>8. InPlace' /\ FromRow'
      BY <1>5 DEF InPlace, FromRow
<1>9. CancelsHeard' /\ OwnInputs' /\ WholeUnlessCancelled'
      BY <1>2 DEF Inv, CancelsHeard, OwnInputs, WholeUnlessCancelled
<1> QED BY <1>6, <1>7, <1>8, <1>9 DEF Inv

(* Only the messages change: the rest of the invariant looks at the messages  *)
(* of ended jobs, which are not taken back.                                 *)
LEMMA MessagesInv ==
    ASSUME Inv, NEW n \in 1..WorkerJobs, NEW m \in {"coming", "heard"}, asked' = [asked EXCEPT ![n] = m],
           cancelled' \subseteq cancelled \cup (IF m = "heard" THEN {n} ELSE {}),
           m = "coming" => asked[n] = "no",
           UNCHANGED <<engine, job, statics, reports, ended>>
    PROVE  Inv'
<1>1. asked \in [1..WorkerJobs -> {"no", "coming", "heard"}]
      BY DEF Inv, TypeOK
<1>2. TypeOK'
      BY <1>1 DEF Inv, TypeOK
<1>3. UnderWay' /\ InPlace' /\ FromRow' /\ OwnInputs'
      BY DEF Inv, UnderWay, InPlace, FromRow, Me, OwnInputs
<1>4. CancelsHeard'
      BY <1>1 DEF Inv, CancelsHeard
<1>5. ASSUME NEW k \in DOMAIN ended, asked[k] # "no" PROVE asked'[k] # "no"
      <2>1. k \in 1..WorkerJobs
            BY JobsAssumption DEF Inv, TypeOK, UnderWay
      <2> QED BY <1>1, <1>5, <2>1
<1>6. WholeUnlessCancelled'
      BY <1>5 DEF Inv, WholeUnlessCancelled
<1> QED BY <1>2, <1>3, <1>4, <1>6 DEF Inv

LEMMA AskInv ==
    ASSUME Inv, Ask
    PROVE  Inv'
<1>1. /\ job.op = "stream" /\ asked[job.n] = "no" /\ asked' = [asked EXCEPT ![job.n] = "coming"]
      /\ UNCHANGED <<engine, job, statics, cancelled, reports, ended>>
      BY DEF Ask
<1>2. job # Idle
      BY <1>1 DEF Idle
<1>3. job.n \in 1..WorkerJobs
      BY <1>2, JobsAssumption DEF Inv, UnderWay, TypeOK, Jobs
<1> QED BY <1>1, <1>3, MessagesInv

LEMMA HearInv ==
    ASSUME Inv, NEW n \in 1..WorkerJobs, Hear(n)
    PROVE  Inv'
BY MessagesInv DEF Hear

LEMMA EngineInv ==
    ASSUME Inv, Engine
    PROVE  Inv'
<1>1. job.at = "engine" /\ UNCHANGED <<statics, asked, reports>>
      BY DEF Engine
<1>2. engine' \in {"none", "ready", "failed"}
      BY <1>1, Busy DEF Engine
<1>3. statics' \in [Statics -> Inputs] /\ OwnInputs' /\ job # Idle
      BY <1>1, Busy, NoReport
<1>4. CASE engine' = "ready"
      <2>1. job' = [job EXCEPT !.at = First(job.op)] /\ cancelled' = cancelled /\ ended' = ended
            BY <1>4 DEF Engine, Goes
      <2>2. job \in Jobs /\ job.op \in Cells \cup Batched \cup {"stream", "xcheck", "hardware", "hwfits"}
            BY <1>1, <1>3, JobsAssumption, Busy DEF Inv, UnderWay
      <2>3. /\ First(job.op) \in {"cell", "chunk", "dem", "files", "fits", "setup"}
            /\ First(job.op) = "cell" => job.op \in Cells
            /\ First(job.op) = "chunk" => job.op = "stream"
            /\ First(job.op) = "setup" => job.op \in Batched
            BY <2>2 DEF First, Cells, Batched
      <2>4. /\ job' \in Jobs /\ job'.n = job.n /\ job'.op = job.op /\ job'.at = First(job.op)
            /\ job'.row = job.row /\ job'.from = job.from /\ job'.config = job.config
            BY <2>1, <2>2, <2>3 DEF Jobs, Places
      <2>5. job.row = 1
            BY <1>1 DEF Inv, InPlace
      <2>6. InPlace' /\ FromRow'
            BY <1>1, <2>3, <2>4, <2>5, JobsAssumption DEF Inv, InPlace, FromRow
      <2> QED BY <1>1, <1>2, <1>3, <2>1, <2>3, <2>4, <2>6, Proceeding
<1>5. CASE engine' # "ready"
      BY <1>1, <1>2, <1>3, <1>5, Raising DEF Engine
<1> QED BY <1>4, <1>5

-----------------------------------------------------------------------------
(* Benchmark runs.                                                          *)
LEMMA VitalsInv ==
    ASSUME Inv, Vitals
    PROVE  Inv'
<1>1. job.at = "cell" /\ job.op = "vitals" /\ UNCHANGED <<engine, asked>>
      BY DEF Vitals
<1>2. CASE Runs(0) /\ Advances("cell")
      BY <1>1, <1>2, Running, Busy, Advancing DEF Places, Cells
<1>3. CASE Fails(0)
      BY <1>1, <1>3, Failing
<1> QED BY <1>2, <1>3 DEF Vitals

LEMMA BenchmarkInv ==
    ASSUME Inv, Benchmark
    PROVE  Inv'
<1>1. job.at = "cell" /\ job.op = "benchmark" /\ UNCHANGED <<engine, asked>>
      BY DEF Benchmark
<1>2. CASE Runs(job.config) /\ Advances("cell")
      BY <1>1, <1>2, Running, Busy, Advancing DEF Places, Cells
<1>3. CASE Fails(job.config)
      BY <1>1, <1>3, Failing, Busy
<1> QED BY <1>2, <1>3 DEF Benchmark

LEMMA ChannelInv ==
    ASSUME Inv, Channel
    PROVE  Inv'
<1>1. job.at = "cell" /\ job.op = "channel" /\ UNCHANGED <<engine, statics, asked>>
      BY DEF Channel
<1>2. CASE job.config = 0
      <2>1. Reports(0, {}) /\ Advances("cell")
            BY <1>2 DEF Channel
      <2>2. OwnInputs'
            BY <1>1, <2>1, Busy, Reporting
      <2> QED BY <1>1, <2>1, <2>2, Busy, Advancing DEF Places, Cells
<1>3. CASE job.config # 0
      <2>1. Raises /\ reports' = reports
            BY <1>3 DEF Channel
      <2> QED BY <1>1, <2>1, Busy, NoReport, Raising
<1> QED BY <1>2, <1>3

LEMMA CellInv ==
    ASSUME Inv, Cell
    PROVE  Inv'
<1>1. job.at = "cell" /\ job.op \in Cells /\ UNCHANGED <<engine, asked>>
      BY DEF Cell, Cells
<1>2. PICK c \in 0..Configs : (Runs(c) /\ Advances("cell")) \/ Fails(c)
      BY DEF Cell
<1>3. c \in Nat
      BY JobsAssumption
<1>4. CASE Runs(c) /\ Advances("cell")
      BY <1>1, <1>3, <1>4, Running, Busy, Advancing DEF Places
<1>5. CASE Fails(c)
      BY <1>1, <1>3, <1>5, Failing
<1> QED BY <1>2, <1>4, <1>5

(* What is timed has a configuration of the general path.                   *)
LEMMA TimingInv ==
    ASSUME Inv, Timing
    PROVE  Inv'
<1>1. job.at = "cell" /\ job.op = "xctiming" /\ job.op \in Cells /\ Advances("cell") /\ UNCHANGED <<engine, asked>>
      BY DEF Timing, Cells
<1>2. job.config \in Nat /\ job # Idle
      BY <1>1, Busy
<1>3. CASE statics' = Benchmarked(job.config) /\ Reports(job.config, {statics'.cache})
      <2>1. job.config > 0
            BY <1>1, <1>2 DEF Inv, UnderWay
      <2>2. statics' \in [Statics -> Inputs] /\ statics'.cache = <<0, job.config>>
            BY <1>1, <1>2, <1>3, <2>1, Benchmarking
      <2>3. OwnInputs'
            BY <1>1, <1>3, <2>2, Busy, Reporting
      <2> QED BY <1>1, <1>2, <2>2, <2>3, Advancing DEF Places
<1>4. CASE statics' = NotBuilt(job.config) /\ Reports(job.config, {})
      BY <1>1, <1>2, <1>4, Benchmarking, Busy, Reporting, Advancing DEF Places
<1> QED BY <1>3, <1>4 DEF Timing

LEMMA ChunkInv ==
    ASSUME Inv, Chunk
    PROVE  Inv'
<1>1. job.at = "chunk" /\ UNCHANGED <<engine, asked>>
      BY DEF Chunk
<1>2. /\ job # Idle /\ job \in Jobs /\ job.config \in Nat /\ job.row \in Nat /\ Rows \in Nat
      /\ job.op = "stream" /\ job.row <= Rows + 1 /\ engine' \in {"none", "ready", "failed"}
      BY <1>1, Busy, JobsAssumption DEF InPlace, Jobs
<1>3. CASE job.row > Rows \/ Stopped
      <2>1. Ends("done", job.row - 1) /\ UNCHANGED <<statics, reports>>
            BY <1>3 DEF Chunk
      <2>2. CASE job.row > Rows
            <3>1. job.row - 1 = Total(job.op) /\ job.row - 1 \in Int
                  BY <1>2, <2>2 DEF Total, Single
            <3> QED BY <1>1, <1>2, <2>1, <3>1, Busy, NoReport, Finishing
      <2>3. CASE Stopped
            <3>1. asked[job.n] # "no" /\ job.row - 1 \in Int
                  BY <1>2, <2>3 DEF Inv, CancelsHeard, Stopped
            <3> QED BY <1>1, <1>2, <2>1, <3>1, Busy, NoReport, Finishing
      <2> QED BY <1>3, <2>2, <2>3
<1>4. CASE /\ ~(job.row > Rows \/ Stopped) /\ Runs(job.config)
           /\ job' = [job EXCEPT !.row = @ + 1] /\ UNCHANGED <<cancelled, ended>>
      <2>1. statics' \in [Statics -> Inputs] /\ OwnInputs'
            BY <1>1, <1>2, <1>4, Running
      <2>2. /\ job' \in Jobs /\ job'.n = job.n /\ job'.op = job.op /\ job'.config = job.config
            /\ job'.at = "chunk" /\ job'.from = job.from /\ job'.row = job.row + 1
            BY <1>1, <1>2, <1>4 DEF Jobs
      <2>3. job.from = {} /\ job.row + 1 <= Rows + 1
            BY <1>1, <1>2, <1>4 DEF Inv, InPlace
      <2>4. InPlace' /\ FromRow'
            BY <1>2, <2>2, <2>3 DEF InPlace, FromRow
      <2> QED BY <1>1, <1>2, <1>4, <2>1, <2>2, <2>4, Proceeding
<1>5. CASE Fails(job.config)
      BY <1>1, <1>2, <1>5, Failing
<1> QED BY <1>3, <1>4, <1>5 DEF Chunk

-----------------------------------------------------------------------------
(* The comparison with Stim.                                                *)
LEMMA RowFailing ==
    ASSUME Inv, job.at \in {"dem", "circuit"}, RowFails, asked' = asked, engine' = engine,
           statics' \in [Statics -> Inputs]
    PROVE  Inv'
<1>1. Reports(0, {}) /\ Advances("dem") /\ job # Idle
      BY Busy DEF RowFails
<1>2. OwnInputs'
      BY <1>1, Busy, Reporting
<1> QED BY <1>1, <1>2, Advancing DEF Places

LEMMA FetchDemInv ==
    ASSUME Inv, FetchDem
    PROVE  Inv'
<1>1. job.at = "dem" /\ UNCHANGED <<engine, asked>> /\ UNCHANGED statics
      BY DEF FetchDem, FetchFails
<1>2. job # Idle /\ statics' \in [Statics -> Inputs] /\ job.from = {} /\ job \in Jobs
      BY <1>1, Busy DEF InPlace
<1>3. CASE Goes("circuit") /\ UNCHANGED <<statics, reports>>
      <2>1. job' = [job EXCEPT !.at = "circuit"] /\ cancelled' = cancelled /\ ended' = ended
            BY <1>3 DEF Goes
      <2>2. OwnInputs'
            BY <1>1, <1>3, Busy, NoReport
      <2>3. job' = [job EXCEPT !.at = "circuit", !.from = {}]
            BY <1>2, <2>1 DEF Jobs
      <2> QED BY <1>1, <1>2, <2>1, <2>2, <2>3, Going DEF Places
<1>4. CASE FetchFails
      BY <1>1, <1>2, <1>4, RowFailing DEF FetchFails
<1> QED BY <1>3, <1>4 DEF FetchDem

LEMMA CompareInv ==
    ASSUME Inv, Compare
    PROVE  Inv'
<1>1. job.at = "circuit" /\ UNCHANGED <<engine, asked>>
      BY DEF Compare
<1>2. /\ Refused \in [Statics -> Inputs] /\ Loaded \in [Statics -> Inputs]
      /\ Refused.text = Me /\ Refused.circuit = statics.circuit /\ Loaded.text = Me /\ Loaded.circuit = Me
      BY <1>1, Busy, Statical DEF Refused, Loaded
<1>3. CASE FetchFails
      BY <1>1, <1>3, Busy, RowFailing DEF FetchFails
<1>4. CASE statics' \in {Refused, Loaded} /\ statics' = Refused
      BY <1>1, <1>2, <1>4, RowFailing DEF Compare, Threw, RowFails, FetchFails
<1>5. CASE statics' = Loaded /\ statics' # Refused
      <2>1. (Reports(0, {statics'.text, statics'.circuit}) \/ Reports(0, {})) /\ Advances("dem")
            BY <1>5 DEF Compare, Threw, FetchFails, RowFails
      <2>2. OwnInputs'
            BY <1>1, <1>2, <1>5, <2>1, Busy, Reporting
      <2> QED BY <1>1, <1>2, <1>5, <2>1, <2>2, Busy, Advancing DEF Places
<1> QED BY <1>3, <1>4, <1>5 DEF Compare

-----------------------------------------------------------------------------
(* Hardware data: a row's models are decoded with what they were built from.  *)
LEMMA HwFilesInv ==
    ASSUME Inv, HwFiles
    PROVE  Inv'
<1>1. job.at = "files" /\ UNCHANGED <<engine, asked, reports>>
      BY DEF HwFiles
<1>2. job # Idle /\ job.from = {} /\ job \in Jobs /\ OwnInputs' /\ engine' \in {"none", "ready", "failed"}
      BY <1>1, Busy, NoReport DEF InPlace
<1>3. statics \in [Statics -> Inputs] /\ Converted \in [Statics -> Inputs]
      BY <1>1, Busy DEF Converted
<1>4. CASE statics' = Converted /\ Goes("models")
      <2>1. job' = [job EXCEPT !.at = "models"] /\ cancelled' = cancelled /\ ended' = ended
            BY <1>4 DEF Goes
      <2>2. job' = [job EXCEPT !.at = "models", !.from = {}]
            BY <1>2, <2>1 DEF Jobs
      <2> QED BY <1>1, <1>2, <1>3, <1>4, <2>1, <2>2, Going DEF Places
<1>5. CASE statics' \in {statics, Converted} /\ Raises
      BY <1>1, <1>2, <1>3, <1>5, Raising
<1> QED BY <1>4, <1>5 DEF HwFiles, NotInflated

LEMMA HwModelInv ==
    ASSUME Inv, NEW slot \in {"model0", "model1"}, NEW next \in {"model1", "belief"}, HwModel(slot, next),
           job.at # "idle", asked' = asked, engine' = engine,
           reports' = reports \/ (job' # Idle /\ Reports(0, job'.from))
    PROVE  Inv'
<1> DEFINE built == [statics EXCEPT !.text = Me, ![slot] = Me, !.bytes = Me]
<1>1. /\ job # Idle /\ job \in Jobs /\ job.from \subseteq {Me} /\ engine' \in {"none", "ready", "failed"}
      /\ Me \in Inputs /\ statics \in [Statics -> Inputs] /\ OwnInputs
      BY Busy DEF FromRow
<1>2. /\ built \in [Statics -> Inputs] /\ Refused \in [Statics -> Inputs]
      /\ built[slot] = Me /\ built.bytes = Me
      BY <1>1, Statical DEF Refused
<1>3. CASE /\ statics' = built /\ job' = [job EXCEPT !.at = next, !.from = @ \cup {built[slot], built.bytes}]
           /\ UNCHANGED <<cancelled, ended>>
      <2>1. job.from \cup {Me} \in SUBSET Inputs /\ job.from \cup {Me} \subseteq {Me}
            BY <1>1
      <2>2. job' = [job EXCEPT !.at = next, !.from = job.from \cup {Me}] /\ job'.from \subseteq {Me}
            BY <1>1, <1>2, <1>3, <2>1 DEF Jobs
      <2>3. OwnInputs'
            BY <1>1, <2>2, NoReport, Reporting
      <2> QED BY <1>1, <1>2, <1>3, <2>1, <2>2, <2>3, Going DEF Places
<1>4. CASE statics' \in {Refused, built} /\ Raises
      <2>1. job' = Idle
            BY <1>4 DEF Raises, Ends
      <2>2. OwnInputs'
            BY <1>1, <2>1, NoReport
      <2> QED BY <1>1, <1>2, <1>4, <2>2, Raising
<1> QED BY <1>3, <1>4 DEF HwModel

LEMMA HwModelsInv ==
    ASSUME Inv, HwModels
    PROVE  Inv'
<1>1. UNCHANGED <<engine, asked>>
      BY DEF HwModels
<1>2. CASE job.at = "models" /\ HwModel("model0", "model1") /\ UNCHANGED reports
      BY <1>1, <1>2, HwModelInv
<1>3. CASE /\ job.at = "model1" /\ HwModel("model1", "belief")
           /\ IF job' = Idle THEN UNCHANGED reports ELSE Reports(0, job'.from)
      BY <1>1, <1>3, HwModelInv
<1> QED BY <1>2, <1>3 DEF HwModels

LEMMA HwBeliefInv ==
    ASSUME Inv, HwBelief
    PROVE  Inv'
<1>1. job.at = "belief" /\ UNCHANGED <<engine, asked>>
      BY DEF HwBelief
<1>2. /\ Believed \in [Statics -> Inputs] /\ Refused \in [Statics -> Inputs]
      /\ Believed.belief = Me /\ Believed.bytes = Me
      BY <1>1, Busy, Statical DEF Believed, Refused
<1>3. CASE statics' = Believed /\ Reports(0, {Believed.belief, Believed.bytes}) /\ Advances("files")
      <2>1. OwnInputs'
            BY <1>1, <1>2, <1>3, Busy, Reporting
      <2> QED BY <1>1, <1>2, <1>3, <2>1, Busy, Advancing DEF Places
<1>4. CASE statics' \in {Refused, Believed} /\ Raises /\ UNCHANGED reports
      BY <1>1, <1>2, <1>4, Busy, NoReport, Raising
<1> QED BY <1>3, <1>4 DEF HwBelief

LEMMA HwFitsInv ==
    ASSUME Inv, HwFits
    PROVE  Inv'
<1>1. job.at = "fits" /\ UNCHANGED <<engine, statics, asked>>
      BY DEF HwFits
<1>2. CASE Reports(0, {}) /\ Advances("fits")
      <2>1. OwnInputs'
            BY <1>1, <1>2, Busy, Reporting
      <2> QED BY <1>1, <1>2, <2>1, Busy, Advancing DEF Places
<1>3. CASE Raises /\ UNCHANGED reports
      BY <1>1, <1>3, Busy, NoReport, Raising
<1> QED BY <1>2, <1>3 DEF HwFits

-----------------------------------------------------------------------------
(* Experiments: a batch is that of the experiment the job set up, which no    *)
(* call of the batch before it replaced.                                    *)
LEMMA SetupInv ==
    ASSUME Inv, Setup
    PROVE  Inv'
<1> DEFINE made == [statics EXCEPT ![job.op] = <<job.n, 0>>, !.text = Me,
                                   !.last = IF job.op = "realtime" THEN None ELSE @]
<1>1. job.at = "setup" /\ UNCHANGED <<engine, asked, reports>>
      BY DEF Setup
<1>2. /\ job # Idle /\ job.from = {} /\ job \in Jobs /\ job.op \in Batched /\ OwnInputs'
      /\ engine' \in {"none", "ready", "failed"}
      BY <1>1, Busy, NoReport DEF InPlace
<1>3. /\ made \in [Statics -> Inputs] /\ Refused \in [Statics -> Inputs]
      /\ made[job.op] = <<job.n, 0>>
      BY <1>1, <1>2, Busy, Statical DEF Refused
<1>4. CASE statics' = made /\ Goes("batch")
      <2>1. job' = [job EXCEPT !.at = "batch"] /\ cancelled' = cancelled /\ ended' = ended
            BY <1>4 DEF Goes
      <2>2. job' = [job EXCEPT !.at = "batch", !.from = {}]
            BY <1>2, <2>1 DEF Jobs
      <2> QED BY <1>1, <1>2, <1>3, <1>4, <2>1, <2>2, Going DEF Places
<1>5. CASE statics' = Refused /\ Raises
      BY <1>1, <1>2, <1>3, <1>5, Raising
<1> QED BY <1>4, <1>5 DEF Setup

LEMMA BatchInv ==
    ASSUME Inv, Batch
    PROVE  Inv'
<1>1. job.at = "batch" /\ UNCHANGED <<engine, asked>>
      BY DEF Batch
<1>2. job.op \in Batched /\ statics[job.op] = <<job.n, 0>>
      BY <1>1, Busy DEF InPlace
<1>3. /\ Ran \in [Statics -> Inputs] /\ Refused \in [Statics -> Inputs]
      /\ Ran[job.op] = <<job.n, 0>> /\ (job.op = "realtime" => Ran.last = Me)
      BY <1>1, <1>2, Busy, Statical DEF Ran, Refused
<1>4. RanWith \subseteq {<<job.n, 0>>, Me, <<0, 0>>}
      BY <1>3 DEF RanWith
<1>5. CASE statics' = Ran /\ Reports(0, RanWith) /\ Advances("batch")
      <2>1. OwnInputs'
            BY <1>1, <1>4, <1>5, Busy, Reporting
      <2> QED BY <1>1, <1>2, <1>3, <1>5, <2>1, Busy, Advancing DEF Places
<1>6. CASE statics' \in {Refused, Ran} /\ Raises /\ UNCHANGED reports
      BY <1>1, <1>3, <1>6, Busy, NoReport, Raising
<1> QED BY <1>5, <1>6 DEF Batch

-----------------------------------------------------------------------------
LEMMA InitInv ==
    ASSUME JobsInit
    PROVE  Inv
<1>1. None \in Inputs /\ <<>> \in Seq([op : Operations \cup {"none"}, how : {"done", "error"}, rows : Int])
      BY DEF None, Inputs
<1>2. TypeOK
      BY <1>1, IdleType DEF JobsInit, TypeOK
<1>3. UnderWay /\ InPlace /\ FromRow
      BY JobsAssumption, IdleType DEF JobsInit, UnderWay, InPlace, FromRow
<1>4. CancelsHeard /\ OwnInputs /\ WholeUnlessCancelled
      BY DEF JobsInit, CancelsHeard, OwnInputs, WholeUnlessCancelled
<1> QED BY <1>2, <1>3, <1>4 DEF Inv

LEMMA NextInv ==
    ASSUME Inv, [JobsNext]_jobVars
    PROVE  Inv'
<1>1. CASE UNCHANGED jobVars
      BY <1>1 DEF jobVars, Inv, TypeOK, UnderWay, InPlace, FromRow, Me, CancelsHeard, OwnInputs, WholeUnlessCancelled
<1>2. CASE JobsNext
      BY <1>2, TakeInv, AskInv, HearInv, EngineInv, VitalsInv, BenchmarkInv, ChannelInv, CellInv, TimingInv,
         ChunkInv, FetchDemInv, CompareInv, HwFilesInv, HwModelsInv, HwBeliefInv, HwFitsInv, SetupInv, BatchInv
         DEF JobsNext
<1> QED BY <1>1, <1>2

LEMMA InvariantHolds == JobsSpec => []Inv
<1>1. JobsInit => Inv
      BY InitInv
<1>2. Inv /\ [JobsNext]_jobVars => Inv'
      BY NextInv
<1> QED BY <1>1, <1>2, PTL DEF JobsSpec

(* The state is of the types the code gives it, in every state.              *)
THEOREM TypeCorrect == JobsSpec => []TypeOK
<1>1. Inv => TypeOK
      BY DEF Inv
<1> QED BY <1>1, InvariantHolds, PTL

(* Whatever earlier jobs and rows left in the engine, a job reports what was  *)
(* computed from its own inputs (run_circuit, hw_decode, rt_batch and the    *)
(* other exports read statics).                                             *)
THEOREM ReportsOwnInputs == JobsSpec => []OwnInputs
<1>1. Inv => OwnInputs
      BY DEF Inv
<1> QED BY <1>1, InvariantHolds, PTL

(* A job that is done ran to its end, or was itself asked to stop (worker.js). *)
THEOREM DoneIsWholeOrCancelled == JobsSpec => []WholeUnlessCancelled
<1>1. Inv => WholeUnlessCancelled
      BY DEF Inv
<1> QED BY <1>1, InvariantHolds, PTL
=============================================================================

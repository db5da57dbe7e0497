----------------------------- MODULE EngineJobs -----------------------------
(***************************************************************************)
(* One worker's jobs over one engine (js/worker.js, js/engine.js and the     *)
(* engine's exports in src/wasm_*.rs).  The engine keeps what it was given    *)
(* last in static variables: a text and a byte buffer, a circuit, a sampler  *)
(* with its decoder, two decoders and a belief-matcher for hardware data,    *)
(* and one experiment each for streams, bicycle codes and lattice surgery.   *)
(* A call that refuses its input leaves them as they were, so what an        *)
(* earlier row or job left is still there for a later call to use.           *)
(*                                                                         *)
(* A static is the input it was made from: <<job, row>>, <<job, 0>> for what  *)
(* a job sets up once, <<0, c>> for a configuration c of the sampler.        *)
(* The worker runs a job to its end before the next, since the pool posts    *)
(* no second one; only cancel messages come in between, at an await.         *)
(***************************************************************************)
EXTENDS Integers, Sequences

CONSTANTS
    WorkerJobs,  \* bound: the jobs the worker is given
    Rows,        \* bound: the rows, cells, chunks or batches of a job
    Configs,     \* bound: the configurations of the general path
    Operations   \* the operations to run

VARIABLES
    engine,      \* the promised engine: "none", "ready" or "failed"
    job,         \* the job being run and where it stands, or Idle
    statics,     \* what each static of the engine was made from
    asked,       \* each job's cancel message: "no", "coming" or "heard"
    cancelled,   \* ids of streaming jobs asked to stop
    reports,     \* the last job's rows as they were reported
    ended        \* the jobs' terminal messages

jobVars == <<engine, job, statics, asked, cancelled, reports, ended>>

-----------------------------------------------------------------------------
None == <<0, 0>>
Idle == [n |-> 0, op |-> "none", config |-> 0, row |-> 0, at |-> "idle", from |-> {}]
Statics == {"text", "bytes", "circuit", "cache", "errors", "model0", "model1", "belief",
            "realtime", "last", "bbrun", "surgery"}

(* Operations by their shape: cells and chunks of benchmark runs, and        *)
(* experiments set up once and run in batches.                             *)
Cells      == {"vitals", "benchmark", "channel", "xctiming", "sweep", "table"}
Batched     == {"realtime", "bbrun", "surgery"}
Single     == {"vitals", "benchmark", "channel", "xctiming"}

ASSUME JobsAssumption ==
    /\ WorkerJobs \in Nat /\ Rows \in Nat /\ Configs \in Nat
    /\ Operations \subseteq Cells \cup Batched \cup {"stream", "xcheck", "hardware", "hwfits"}

Total(op) == IF op \in Single THEN 1 ELSE Rows
First(op) ==
    CASE op \in Cells -> "cell" [] op = "stream" -> "chunk" [] op = "xcheck" -> "dem"
      [] op = "hardware" -> "files" [] op = "hwfits" -> "fits" [] op \in Batched -> "setup"

(* Which inputs the operations take: vitals and channel have no             *)
(* configuration of the general path (a channel refuses one).               *)
ConfigsOf(op) ==
    CASE op \in {"benchmark", "channel", "stream"} -> 0..Configs
      [] op = "xctiming" -> 1..Configs
      [] OTHER -> {0}

Me == <<job.n, job.row>>

-----------------------------------------------------------------------------
(* The terminal message, after which the id is no longer cancelled.         *)
Ends(how, rows) ==
    /\ ended' = Append(ended, [op |-> job.op, how |-> how, rows |-> rows])
    /\ cancelled' = cancelled \ {job.n}
    /\ job' = Idle
Raises == Ends("error", 0)

Goes(place) == job' = [job EXCEPT !.at = place] /\ UNCHANGED <<cancelled, ended>>

(* A row is reported and the next begun at a place, or the job is done.     *)
Reports(config, from) == reports' = reports \cup {[n |-> job.n, row |-> job.row, config |-> config, from |-> from]}
Advances(place) ==
    IF job.row = Total(job.op)
    THEN Ends("done", job.row)
    ELSE /\ job' = [job EXCEPT !.row = @ + 1, !.at = place, !.from = {}]
         /\ UNCHANGED <<cancelled, ended>>

(* Where the code waits for its event loop.                                 *)
Awaiting ==
    \/ job.at \in {"idle", "engine", "chunk", "dem", "circuit", "files", "models", "fits"}
    \/ job.op = "realtime" /\ job.at = "batch" /\ job.row > 1

-----------------------------------------------------------------------------
(* The page posts the next job once the one before was answered, and may    *)
(* cancel a streamed run while it waits for it; the message can come when   *)
(* the run is over.                                                        *)
Take ==
    /\ job = Idle /\ Len(ended) < WorkerJobs
    /\ \E op \in Operations : \E c \in ConfigsOf(op) :
          job' = [Idle EXCEPT !.n = Len(ended) + 1, !.op = op, !.config = c, !.row = 1, !.at = "engine"]
    /\ reports' = {}
    /\ UNCHANGED <<engine, statics, asked, cancelled, ended>>

Ask ==
    /\ job.op = "stream" /\ asked[job.n] = "no"
    /\ asked' = [asked EXCEPT ![job.n] = "coming"]
    /\ UNCHANGED <<engine, job, statics, cancelled, reports, ended>>

Hear(n) ==
    /\ Awaiting /\ asked[n] = "coming"
    /\ asked' = [asked EXCEPT ![n] = "heard"]
    /\ cancelled' = cancelled \cup {n}
    /\ UNCHANGED <<engine, job, statics, reports, ended>>

(* The engine is fetched at the first job unless the page's compiled module *)
(* was taken; a promise that failed stays.                                 *)
Engine ==
    /\ job.at = "engine"
    /\ engine' \in IF engine = "none" THEN {"ready", "failed"} ELSE {engine}
    /\ IF engine' = "ready" THEN Goes(First(job.op)) ELSE Raises
    /\ UNCHANGED <<statics, asked, reports>>

-----------------------------------------------------------------------------
(***************************************************************************)
(* Benchmark runs.  One of the general path (SD6) goes through the cached    *)
(* sampler and decoder, built anew when they are for another configuration,  *)
(* and leaves the number of shots it could not decode beside the rate.       *)
(***************************************************************************)

(* Mutant of Cached: what is cached is used whatever its configuration.     *)
CachedAny(c) == IF statics.cache = None THEN <<0, c>> ELSE statics.cache

Cached(c) == <<0, c>>

Builds(c) == statics.cache # <<0, c>>

(* What is left by a run of configuration c, and by one that is refused.     *)
Benchmarked(c) == IF c = 0 THEN statics ELSE [statics EXCEPT !.cache = Cached(c), !.errors = Me]
NotBuilt(c)    == IF c = 0 THEN statics ELSE [statics EXCEPT !.errors = Me]
RanFrom(c, left) == IF c = 0 THEN {} ELSE {left.cache, left.errors}

(* A run that is made and reported, and one that raises.                    *)
Runs(c)  == statics' = Benchmarked(c) /\ Reports(c, RanFrom(c, statics'))
Fails(c) == (c > 0 => Builds(c)) /\ statics' = NotBuilt(c) /\ Raises /\ UNCHANGED reports

(* The runs of the vitals, all of one configuration.                        *)
Vitals ==
    /\ job.at = "cell" /\ job.op = "vitals"
    /\ \/ Runs(0) /\ Advances("cell")
       \/ Fails(0)
    /\ UNCHANGED <<engine, asked>>

Benchmark ==
    /\ job.at = "cell" /\ job.op = "benchmark"
    /\ \/ Runs(job.config) /\ Advances("cell")
       \/ Fails(job.config)
    /\ UNCHANGED <<engine, asked>>

(* A logical channel needs both bases, which the general path refuses.      *)
Channel ==
    /\ job.at = "cell" /\ job.op = "channel"
    /\ IF job.config = 0 THEN Reports(0, {}) /\ Advances("cell") ELSE Raises /\ UNCHANGED reports
    /\ UNCHANGED <<engine, statics, asked>>

(* A sweep's points and a table's cells, each of any configuration.          *)
Cell ==
    /\ job.at = "cell" /\ job.op \in {"sweep", "table"}
    /\ \E c \in 0..Configs :
         \/ Runs(c) /\ Advances("cell")
         \/ Fails(c)
    /\ UNCHANGED <<engine, asked>>

(* Three runs, whose rates nothing looks at.                                *)
Timing ==
    /\ job.at = "cell" /\ job.op = "xctiming"
    /\ \/ statics' = Benchmarked(job.config) /\ Reports(job.config, {statics'.cache})
       \/ Builds(job.config) /\ statics' = NotBuilt(job.config) /\ Reports(job.config, {})
    /\ Advances("cell")
    /\ UNCHANGED <<engine, asked>>

(* Mutant of Stopped: any cancelled id stops the run.                       *)
StoppedByAny == cancelled # {}

Stopped == job.n \in cancelled

(* The bench's run in chunks, with a turn of the event loop after each.      *)
Chunk ==
    /\ job.at = "chunk"
    /\ IF job.row > Rows \/ Stopped
       THEN Ends("done", job.row - 1) /\ UNCHANGED <<statics, reports>>
       ELSE \/ /\ Runs(job.config)
               /\ job' = [job EXCEPT !.row = @ + 1]
               /\ UNCHANGED <<cancelled, ended>>
            \/ Fails(job.config)
    /\ UNCHANGED <<engine, asked>>

-----------------------------------------------------------------------------
(***************************************************************************)
(* The comparison with Stim, row by row.  A row that fails says so, and the  *)
(* next begins; the circuit of the row before is then still loaded.          *)
(***************************************************************************)
RowFails   == Reports(0, {}) /\ Advances("dem")
FetchFails == UNCHANGED statics /\ RowFails

FetchDem ==
    /\ job.at = "dem"
    /\ \/ Goes("circuit") /\ UNCHANGED <<statics, reports>>
       \/ FetchFails
    /\ UNCHANGED <<engine, asked>>

(* What a refused circuit or generator leaves in the text buffer and the     *)
(* circuit's slot is what the row gave and what was there before.           *)
Refused == [statics EXCEPT !.text = Me]
Loaded  == [statics EXCEPT !.text = Me, !.circuit = Me]

(* Mutant of Threw: a circuit that is not accepted is not noticed.          *)
ThrewNever == FALSE

(* The wrappers throw what the engine refuses.                              *)
Threw == statics' = Refused

Compare ==
    /\ job.at = "circuit"
    /\ \/ FetchFails
       \/ /\ statics' \in {Refused, Loaded}
          /\ IF Threw
             THEN RowFails
             ELSE /\ \/ Reports(0, {statics'.text, statics'.circuit})
                     \/ Reports(0, {})                  \* the comparison is refused
                  /\ Advances("dem")
    /\ UNCHANGED <<engine, asked>>

-----------------------------------------------------------------------------
(***************************************************************************)
(* Hardware data, one experiment to a row.  What the files' rows convert to  *)
(* is kept by the job and copied into the byte buffer for each decoding.     *)
(***************************************************************************)
Converted   == [statics EXCEPT !.text = Me, !.bytes = Me]
NotInflated == UNCHANGED statics /\ Raises

HwFiles ==
    /\ job.at = "files"
    /\ \/ statics' = Converted /\ (Goes("models") \/ Raises)
       \/ NotInflated
    /\ UNCHANGED <<engine, asked, reports>>

(* One prior's decoder is built into its slot and decodes plainly and with   *)
(* correlations; the experiment is reported after the second.               *)
HwModel(slot, next) ==
    LET built == [statics EXCEPT !.text = Me, ![slot] = Me, !.bytes = Me]
    IN  \/ /\ statics' = built
           /\ job' = [job EXCEPT !.at = next, !.from = @ \cup {built[slot], built.bytes}]
           /\ UNCHANGED <<cancelled, ended>>
        \/ statics' \in {Refused, built} /\ Raises

HwModels ==
    /\ \/ job.at = "models" /\ HwModel("model0", "model1") /\ UNCHANGED reports
       \/ /\ job.at = "model1" /\ HwModel("model1", "belief")
          /\ IF job' = Idle THEN UNCHANGED reports ELSE Reports(0, job'.from)
    /\ UNCHANGED <<engine, asked>>

(* Belief-matching last and in chunks, each reported.                       *)
Believed == [statics EXCEPT !.text = Me, !.belief = Me, !.bytes = Me]

HwBelief ==
    /\ job.at = "belief"
    /\ \/ statics' = Believed /\ Reports(0, {Believed.belief, Believed.bytes}) /\ Advances("files")
       \/ statics' \in {Refused, Believed} /\ Raises /\ UNCHANGED reports
    /\ UNCHANGED <<engine, asked>>

(* The recorded counts are fetched and fitted decoder by decoder, without    *)
(* the engine's exports.                                                   *)
HwFits ==
    /\ job.at = "fits"
    /\ \/ Reports(0, {}) /\ Advances("fits")
       \/ job.row = 1 /\ Raises /\ UNCHANGED reports
    /\ UNCHANGED <<engine, statics, asked>>

-----------------------------------------------------------------------------
(***************************************************************************)
(* Experiments, simulated in batches of 64 shots.  A stream's batch is       *)
(* decoded in windows and then, drawn again, globally.                      *)
(***************************************************************************)
Setup ==
    /\ job.at = "setup"
    /\ \/ /\ statics' = [statics EXCEPT ![job.op] = <<job.n, 0>>, !.text = Me,
                                        !.last = IF job.op = "realtime" THEN None ELSE @]
          /\ Goes("batch")
       \/ statics' = Refused /\ Raises
    /\ UNCHANGED <<engine, asked, reports>>

Ran     == [statics EXCEPT !.text = Me, !.last = IF job.op = "realtime" THEN Me ELSE @]
RanWith == {Ran[job.op]} \cup (IF job.op = "realtime" THEN {Ran.last} ELSE {})

Batch ==
    /\ job.at = "batch"
    /\ \/ statics' = Ran /\ Reports(0, RanWith) /\ Advances("batch")
       \/ statics' \in {Refused, Ran} /\ Raises /\ UNCHANGED reports
    /\ UNCHANGED <<engine, asked>>

-----------------------------------------------------------------------------
JobsInit ==
    /\ engine \in {"none", "ready"} /\ job = Idle
    /\ statics = [s \in Statics |-> None]
    /\ asked = [n \in 1..WorkerJobs |-> "no"]
    /\ cancelled = {} /\ reports = {} /\ ended = <<>>

JobsNext ==
    \/ Take \/ Ask \/ Engine
    \/ \E n \in 1..WorkerJobs : Hear(n)
    \/ Vitals \/ Benchmark \/ Channel \/ Cell \/ Timing \/ Chunk \/ FetchDem \/ Compare
    \/ HwFiles \/ HwModels \/ HwBelief \/ HwFits \/ Setup \/ Batch

JobsSpec == JobsInit /\ [][JobsNext]_jobVars

-----------------------------------------------------------------------------
(* Every row, chunk, cell and batch a job reports was computed from that     *)
(* job's inputs for that row, whatever earlier rows and jobs left in the      *)
(* engine and whichever of its calls were refused.                          *)
OwnInputs ==
    \A r \in reports : r.from \subseteq {<<r.n, 0>>, <<r.n, r.row>>, <<0, r.config>>}

(* A job that is done reported all its rows, unless it is a stream and its   *)
(* own cancel was asked for: another's that comes late stops nothing.        *)
WholeUnlessCancelled ==
    \A n \in DOMAIN ended :
        ended[n].how = "done" =>
            \/ ended[n].rows = Total(ended[n].op)
            \/ ended[n].op = "stream" /\ asked[n] # "no"
=============================================================================

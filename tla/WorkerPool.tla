----------------------------- MODULE WorkerPool -----------------------------
(***************************************************************************)
(* The pool of Monte Carlo workers: class Pool (js/pool.js), the Compute    *)
(* it keeps for each worker (js/compute.js) and the worker's end            *)
(* (js/worker.js), joined by two channels of messages per worker.           *)
(*                                                                         *)
(* The page runs one task at a time.  A message is a task of its own; what  *)
(* it settles goes on in microtasks, which all run before the next message. *)
(* Callers call and cancel between any two of these.  An inner call's       *)
(* number stands for the job it was made for.  A run's shots are counted in *)
(* chunks.                                                                 *)
(***************************************************************************)
EXTENDS Integers, Sequences, FiniteSets, FiniteSetsExt

CONSTANTS
    MaxWorkers,   \* the size the page asks for
    RunCounts,    \* the chunks a caller may ask a stream for
    MayFail,      \* bound: the workers that may crash and whose runs may fail
    MaxCancels,   \* bound: the cancels of callers
    MaxCalls      \* bound: the numbers given out to calls, parts and streams

ASSUME PoolAssumption ==
    MaxWorkers \in Nat \ {0} /\ RunCounts \subseteq Nat
    /\ MayFail \subseteq 1 .. MaxWorkers /\ MaxCancels \in Nat /\ MaxCalls \in Nat

Workers == 1 .. MaxWorkers
None == 0
Ids == 1 .. MaxCalls

VARIABLES
    \* the pool
    size,       \* at most so many workers are started
    started,    \* workers 1 .. started are
    queue,      \* the jobs that wait, in order
    alone,      \* a job that asked for the machine is running
    flagged,    \* waiting jobs that were cancelled
    groups,     \* the streams whose parts a cancel still reaches
    module,     \* the page's compiled engine: "compiling", "compiled" or "failed"
    \* each worker, as the pool and its Compute see it
    phase,      \* see Phases
    current,    \* the job it was given, or None
    settled,    \* what its inner promise settled with
    dead,       \* Compute.dead
    \* the channels
    toWorker, toPage,
    \* each worker itself
    alive,
    job, done,  \* the job it runs, or None, and the chunks it has run of it
    stops,      \* the worker's set of cancelled jobs
    \* callers
    calls,      \* by number: what was called
    outcome,    \* by number: how its promise settled
    latest,     \* by number: the chunks a part last reported
    asked,      \* the numbers that were cancelled, and the parts that meant
    limit       \* the workers the browser will start

poolVars   == <<size, started, queue, alone, flagged>>
sideVars   == <<phase, current, settled, dead>>
workerVars == <<alive, job, done, stops>>
callVars   == <<calls, outcome, latest>>
vars == <<poolVars, groups, module, sideVars, toWorker, toPage, workerVars, callVars,
          asked, limit>>

(* A worker's way through the page: "off", then "starting" until the module *)
(* is there, "handing" it over, "readying", "idle"; "running" a job until   *)
(* its inner promise has "settled", and "freeing" until the finally.  It is *)
(* ready from "idle" on, and busy in all but "idle".                        *)
Phases == {"off", "starting", "handing", "readying", "idle", "running", "settled", "freeing"}

Message(type, of, runs, stopped) == [type |-> type, of |-> of, runs |-> runs, stopped |-> stopped]
Failure(of) == Message("error", of, 0, FALSE)

Call(kind, runs, parts) == [kind |-> kind, runs |-> runs, parts |-> parts]
Pending == Message("pending", None, 0, FALSE)

Init ==
    /\ size = MaxWorkers /\ started = 1
    /\ queue = <<>> /\ alone = FALSE /\ flagged = {} /\ groups = {}
    /\ module = "compiling"
    /\ phase = [w \in Workers |-> IF w = 1 THEN "starting" ELSE "off"]
    /\ current = [w \in Workers |-> None]
    /\ settled = [w \in Workers |-> Pending]
    /\ dead = [w \in Workers |-> FALSE]
    /\ toWorker = [w \in Workers |-> <<>>]
    /\ toPage = [w \in Workers |-> <<>>]
    /\ alive = [w \in Workers |-> TRUE]
    /\ job = [w \in Workers |-> None]
    /\ done = [w \in Workers |-> 0]
    /\ stops = [w \in Workers |-> {}]
    /\ calls = <<>>
    /\ outcome = [i \in Ids |-> Pending]
    /\ latest = [i \in Ids |-> 0]
    /\ asked = {}
    /\ limit \in Workers

Alone(i) == calls[i].kind = "alone"
Parts(g) == calls[g].parts

-----------------------------------------------------------------------------
(***************************************************************************)
(* #pump on the waiting jobs q: idle workers, in order, take jobs from the  *)
(* front until the queue is empty, a job that wants the machine is at its   *)
(* front and some worker is busy, or such a job was given out; if it comes  *)
(* to the end of the workers, one is started for each job that is left and  *)
(* has no unready worker to wait for, up to the size, and the size shrinks  *)
(* to what the browser will start.                                          *)
(***************************************************************************)
Idle(ph) == {w \in Workers : ph[w] = "idle"}
Starting(ph) == {w \in Workers : ph[w] \in {"starting", "handing", "readying"}}
Busy(ph) == {w \in Workers : ph[w] \notin {"idle", "off"}}

(* The number of jobs at the front of q that do not want the machine.      *)
Sharing(q, calling) ==
    Max({n \in 0 .. Len(q) : \A i \in 1 .. n : calling[q[i]].kind # "alone"})

Given(q, calling, ph, exclusive, busy) ==
    IF exclusive \/ q = <<>> THEN 0
    ELSE IF calling[q[1]].kind = "alone" THEN IF busy = {} THEN 1 ELSE 0
    ELSE Min({Cardinality(Idle(ph)), Sharing(q, calling)})

(* Compute.call: rejected at once if the worker is dead, posted otherwise; *)
(* a job cancelled while it waited is cancelled right behind it.           *)
PostJob(w, i) ==
    Append(toWorker[w], Message("job", i, 0, FALSE))
        \o IF i \in flagged THEN <<Message("cancel", i, 0, FALSE)>> ELSE <<>>

(* #spawn, until the browser will not start another.                       *)
WillStart(wanted) == Max({0, Min({wanted, limit - started})})

PumpBy(q, calling, ph, cur, exclusive, busy) ==
    LET n == Given(q, calling, ph, exclusive, busy)
        taking == {w \in Idle(ph) : Cardinality({v \in Idle(ph) : v <= w}) <= n}
        of == [w \in taking |-> q[Cardinality({v \in Idle(ph) : v <= w})]]
        rest == SubSeq(q, n + 1, Len(q))
        ended == taking = Idle(ph) /\ ~exclusive /\ (n = 1 => calling[q[1]].kind # "alone")
        wanted == IF ended THEN Min({Len(rest) - Cardinality(Starting(ph)), size - started})
                           ELSE 0
        got == WillStart(wanted)
    IN  /\ queue' = rest
        /\ alone' = (exclusive \/ (n = 1 /\ calling[q[1]].kind = "alone"))
        /\ flagged' = flagged \ {of[w] : w \in taking}
        /\ started' = started + got
        /\ size' = IF wanted > got THEN started + got ELSE size
        /\ phase' = [w \in Workers |->
                       IF w \in taking THEN IF dead[w] THEN "settled" ELSE "running"
                       ELSE IF w > started /\ w <= started + got THEN "starting"
                       ELSE ph[w]]
        /\ current' = [w \in Workers |-> IF w \in taking THEN of[w] ELSE cur[w]]
        /\ settled' = [w \in Workers |-> IF w \in taking /\ dead[w] THEN Failure(of[w])
                                                                   ELSE settled[w]]
        /\ toWorker' = [w \in Workers |-> IF w \in taking /\ ~dead[w] THEN PostJob(w, of[w])
                                                                      ELSE toWorker[w]]

(* Mutant of Pump: workers that are still starting do not count as busy.   *)
PumpBesideStarting(q, calling, ph, cur, exclusive) ==
    PumpBy(q, calling, ph, cur, exclusive, Busy(ph) \ Starting(ph))

Pump(q, calling, ph, cur, exclusive) ==
    PumpBy(q, calling, ph, cur, exclusive, Busy(ph))

-----------------------------------------------------------------------------
(***************************************************************************)
(* What callers do.                                                        *)
(***************************************************************************)
Job(kind) ==
    LET calling == Append(calls, Call(kind, 0, {}))
    IN  /\ Len(calls) < MaxCalls
        /\ calls' = calling
        /\ Pump(Append(queue, Len(calling)), calling, phase, current, alone)
        /\ UNCHANGED <<groups, module, dead, toPage, workerVars, outcome, latest, asked, limit>>

(* splitRuns: near-equal parts, none empty unless there are fewer shots.   *)
SplitRuns(total, n) ==
    LET parts == Max({1, Min({n, total})})
    IN  [i \in 1 .. parts |-> (total \div parts) + IF i <= total % parts THEN 1 ELSE 0]

(* stream: its parts are calls of their own, then the group gets a number. *)
Stream(total) ==
    LET shares == SplitRuns(total, size)
        ids == (Len(calls) + 1) .. (Len(calls) + Len(shares))
        calling == calls \o [i \in DOMAIN shares |-> Call("part", shares[i], {})]
                         \o <<Call("stream", total, ids)>>
    IN  /\ Len(calling) <= MaxCalls
        /\ calls' = calling
        /\ groups' = groups \cup {Len(calling)}
        /\ Pump(queue \o [i \in DOMAIN shares |-> Len(calls) + i], calling, phase, current, alone)
        /\ UNCHANGED <<module, dead, toPage, workerVars, outcome, latest, asked, limit>>

(* cancel, of a number that a caller was given; once, since a second cancel *)
(* only posts what was posted before.  Compute.cancel posts only for a call *)
(* that is pending on a worker that is not dead.                           *)
CancelPosts(id, running) ==
    LET targets == IF id \in groups THEN Parts(id) ELSE {id}
        reached == {w \in running : current[w] \in targets /\ ~dead[w]}
        waiting == {queue[i] : i \in DOMAIN queue} \cap targets
    IN  /\ calls[id].kind # "part"
        /\ Cardinality({i \in asked : calls[i].kind # "part"}) < MaxCancels
        /\ (targets \cup {id}) \cap asked = {}
        /\ toWorker' = [w \in Workers |->
                          IF w \in reached THEN Append(toWorker[w], Message("cancel", current[w], 0, FALSE))
                                           ELSE toWorker[w]]
        /\ flagged' = flagged \cup waiting
        /\ asked' = asked \cup targets \cup {id}
        /\ UNCHANGED <<size, started, queue, alone, groups, module, sideVars, toPage, workerVars,
                       callVars, limit>>

(* Mutant of Cancel: only jobs that wait are cancelled.                    *)
CancelWaiting(id) == CancelPosts(id, {})

Cancel(id) == CancelPosts(id, {w \in Workers : phase[w] = "running"})

-----------------------------------------------------------------------------
(***************************************************************************)
(* The page's microtasks.                                                  *)
(***************************************************************************)
(* Mutant of HandModule: a module that could not be compiled is not caught. *)
HandCompiled(w) ==
    /\ phase[w] = "starting"
    /\ module = "compiled"
    /\ phase' = [phase EXCEPT ![w] = "handing"]
    /\ toWorker' = [toWorker EXCEPT ![w] = Append(@, Message("module", None, 0, FALSE))]
    /\ UNCHANGED <<poolVars, groups, module, current, settled, dead, toPage, workerVars, callVars,
                   asked, limit>>

(* #spawn: once the module is compiled it is handed over; if it could not  *)
(* be compiled, or the worker is dead by then, the worker is ready.        *)
HandModule(w) ==
    /\ phase[w] = "starting"
    /\ module # "compiling"
    /\ IF module = "compiled" /\ ~dead[w]
         THEN /\ phase' = [phase EXCEPT ![w] = "handing"]
              /\ toWorker' = [toWorker EXCEPT ![w] = Append(@, Message("module", None, 0, FALSE))]
         ELSE /\ phase' = [phase EXCEPT ![w] = "readying"]
              /\ UNCHANGED toWorker
    /\ UNCHANGED <<poolVars, groups, module, current, settled, dead, toPage, workerVars, callVars,
                   asked, limit>>

MadeReady(w) ==
    /\ phase[w] = "readying"
    /\ Pump(queue, calls, [phase EXCEPT ![w] = "idle"], current, alone)
    /\ UNCHANGED <<groups, module, dead, toPage, workerVars, callVars, asked, limit>>

(* inner.then(job.resolve, job.reject).                                    *)
Settle(w) ==
    /\ phase[w] = "settled"
    /\ phase' = [phase EXCEPT ![w] = "freeing"]
    /\ outcome' = [outcome EXCEPT ![current[w]] = settled[w]]
    /\ UNCHANGED <<poolVars, groups, module, current, settled, dead, toWorker, toPage, workerVars,
                   calls, latest, asked, limit>>

(* Mutant of Free: the next job is left to the next call.                  *)
FreeOnly(w) ==
    /\ phase[w] = "freeing"
    /\ phase' = [phase EXCEPT ![w] = "idle"]
    /\ current' = [current EXCEPT ![w] = None]
    /\ settled' = [settled EXCEPT ![w] = Pending]
    /\ alone' = (alone /\ ~Alone(current[w]))
    /\ UNCHANGED <<size, started, queue, flagged, groups, module, dead, toWorker, toPage, workerVars,
                   callVars, asked, limit>>

(* The finally behind it.                                                  *)
Free(w) ==
    /\ phase[w] = "freeing"
    /\ Pump(queue, calls, [phase EXCEPT ![w] = "idle"], [current EXCEPT ![w] = None],
            alone /\ ~Alone(current[w]))
    /\ UNCHANGED <<groups, module, dead, toPage, workerVars, callVars, asked, limit>>

(* mergeStreamResults, for the numbers that are sums.                      *)
Merge(g) ==
    Message("done", g, MapThenSumSet(LAMBDA p : outcome[p].runs, Parts(g)),
            \E p \in Parts(g) : outcome[p].stopped)

(* Promise.all: the first failure of a part, or all the results.  The      *)
(* finally behind it forgets the group.                                    *)
Decided(g) ==
    \/ \E p \in Parts(g) : outcome[p].type = "error"
    \/ \A p \in Parts(g) : outcome[p].type = "done"

StreamEnds(g) ==
    /\ g \in groups
    /\ Decided(g)
    /\ outcome' = [outcome EXCEPT ![g] =
                     IF \E p \in Parts(g) : outcome[p].type = "error" THEN Failure(g) ELSE Merge(g)]
    /\ groups' = groups \ {g}
    /\ UNCHANGED <<poolVars, module, sideVars, toWorker, toPage, workerVars, calls, latest, asked, limit>>

(* No microtask is left to run: the page may take its next message.        *)
Rested ==
    /\ \A w \in Workers : phase[w] \notin {"settled", "freeing", "readying"}
    /\ \A w \in Workers : phase[w] = "starting" => module = "compiling"
    /\ \A g \in groups : ~Decided(g)

-----------------------------------------------------------------------------
(***************************************************************************)
(* Messages to the page: Compute's #receive and #failAll.                  *)
(***************************************************************************)
ModuleSettles ==
    /\ module = "compiling"
    /\ Rested
    /\ module' \in {"compiled", "failed"}
    /\ UNCHANGED <<poolVars, groups, sideVars, toWorker, toPage, workerVars, callVars, asked, limit>>

(* The inner promise of what w was given is settled.                       *)
SettleInner(w, with) ==
    /\ phase' = [phase EXCEPT ![w] = CASE @ = "running" -> "settled"
                                        [] @ = "handing" -> "readying"
                                        [] OTHER -> @]
    /\ settled' = IF phase[w] = "running" THEN [settled EXCEPT ![w] = with] ELSE settled

FailAll(w) == SettleInner(w, Failure(current[w]))

Receive(w) ==
    LET m == Head(toPage[w])
    IN  /\ toPage[w] # <<>>
        /\ Rested
        /\ toPage' = [toPage EXCEPT ![w] = Tail(@)]
        /\ latest' = IF m.type = "progress" THEN [latest EXCEPT ![m.of] = m.runs] ELSE latest
        /\ dead' = IF m.type = "crash" THEN [dead EXCEPT ![w] = TRUE] ELSE dead
        /\ CASE m.type = "progress" -> UNCHANGED <<phase, settled>>
             [] m.type = "crash"    -> FailAll(w)
             [] OTHER               -> SettleInner(w, m)
        /\ UNCHANGED <<poolVars, groups, module, current, toWorker, workerVars, calls, outcome, asked,
                       limit>>

-----------------------------------------------------------------------------
(***************************************************************************)
(* A worker: its onmessage, and a job's run in chunks.  A job that is not   *)
(* a part of a stream is one step here.  A run that fails, or whose engine  *)
(* cannot be loaded, answers with an error; a crash may end all at any     *)
(* time, and the page then hears of it by onerror.                         *)
(***************************************************************************)
Post(w, m) == toPage' = [toPage EXCEPT ![w] = Append(@, m)]

TakeMessage(w) ==
    LET m == Head(toWorker[w])
    IN  /\ alive[w]
        /\ toWorker[w] # <<>>
        /\ toWorker' = [toWorker EXCEPT ![w] = Tail(@)]
        /\ \/ /\ m.type = "cancel"
              /\ stops' = [stops EXCEPT ![w] = @ \cup {m.of}]
              /\ UNCHANGED <<toPage, job, done>>
           \/ /\ m.type = "module"
              /\ Post(w, Message("done", None, 0, FALSE)) \/ Post(w, Failure(None))
              /\ UNCHANGED <<job, done, stops>>
           \/ /\ m.type = "job"
              /\ job' = [job EXCEPT ![w] = m.of]
              /\ done' = [done EXCEPT ![w] = 0]
              /\ UNCHANGED <<toPage, stops>>
        /\ UNCHANGED <<poolVars, groups, module, sideVars, alive, callVars, asked, limit>>

Stopped(w) == job[w] \in stops[w]

RunChunk(w) ==
    /\ alive[w] /\ job[w] # None
    /\ ~Stopped(w)
    /\ done[w] < calls[job[w]].runs
    /\ done' = [done EXCEPT ![w] = @ + 1]
    /\ Post(w, Message("progress", job[w], done[w] + 1, FALSE))
    /\ UNCHANGED <<poolVars, groups, module, sideVars, toWorker, alive, job, stops, callVars, asked, limit>>

(* The result or the error is posted and the cancel forgotten.             *)
Ends(w, m) ==
    /\ alive[w]
    /\ Post(w, m)
    /\ stops' = [stops EXCEPT ![w] = @ \ {job[w]}]
    /\ job' = [job EXCEPT ![w] = None]
    /\ UNCHANGED <<poolVars, groups, module, sideVars, toWorker, alive, done, callVars, asked, limit>>

(* Mutant of Return: a stopped stream reports what it was asked for.       *)
ReturnAll(w) ==
    /\ job[w] # None
    /\ Stopped(w) \/ done[w] = calls[job[w]].runs
    /\ Ends(w, Message("done", job[w], calls[job[w]].runs, Stopped(w)))

Return(w) ==
    /\ job[w] # None
    /\ Stopped(w) \/ done[w] = calls[job[w]].runs
    /\ Ends(w, Message("done", job[w], done[w], Stopped(w)))

Raise(w) ==
    /\ w \in MayFail
    /\ job[w] # None
    /\ Ends(w, Failure(job[w]))

Crash(w) ==
    /\ w \in MayFail
    /\ alive[w] /\ phase[w] # "off"
    /\ alive' = [alive EXCEPT ![w] = FALSE]
    /\ Post(w, Message("crash", None, 0, FALSE))
    /\ UNCHANGED <<poolVars, groups, module, sideVars, toWorker, job, done, stops, callVars, asked, limit>>

(* Nothing is under way and nobody calls.                                  *)
Rest ==
    /\ \A i \in DOMAIN calls : outcome[i] # Pending
    /\ \A w \in Workers : phase[w] \in {"off", "idle"}
    /\ UNCHANGED vars

Use ==
    \/ \E kind \in {"plain", "alone"} : Job(kind)
    \/ \E total \in RunCounts : Stream(total)
    \/ \E id \in DOMAIN calls : Cancel(id)

Microtask(w) == HandModule(w) \/ MadeReady(w) \/ Settle(w) \/ Free(w)

Run(w) == RunChunk(w) \/ Return(w) \/ Raise(w)

Next ==
    \/ Use
    \/ \E w \in Workers : Microtask(w) \/ Receive(w) \/ TakeMessage(w) \/ Run(w) \/ Crash(w)
    \/ \E g \in Ids : StreamEnds(g)
    \/ ModuleSettles
    \/ Rest

Spec == Init /\ [][Next]_vars

(***************************************************************************)
(* Fairness: the event loop of the page and that of each worker go on, and  *)
(* the engine's compilation settles.  Nothing makes a caller call or cancel. *)
(***************************************************************************)
PageLoop == (\E g \in Ids : StreamEnds(g)) \/ \E w \in Workers : Microtask(w) \/ Receive(w)

Fairness ==
    /\ WF_vars(ModuleSettles)
    /\ WF_vars(PageLoop)
    /\ \A w \in Workers : WF_vars(TakeMessage(w) \/ Run(w))

FairSpec == Spec /\ Fairness

-----------------------------------------------------------------------------
Waiting(i) == \E n \in DOMAIN queue : queue[n] = i
Running(w) == alive[w] /\ (job[w] # None \/ \E n \in DOMAIN toWorker[w] : toWorker[w][n].type = "job")

(* callAlone: a job that must have the machine to itself runs while every  *)
(* other worker that works at all is idle, with no job and no start in     *)
(* progress, and nothing else starts until it is done.                     *)
AloneExclusive ==
    \A w \in Workers : phase[w] = "running" /\ Alone(current[w]) =>
        \A v \in Workers \ {w} : phase[v] \in {"off", "idle"} /\ ~Running(v)

(* A job waits only while every worker has work, a job that wants the      *)
(* machine has it or is next, or the page is between two microtasks; and   *)
(* while jobs wait for busy workers, as many are started as may be.        *)
WaitsForReason ==
    queue # <<>> /\ Rested /\ ~alone =>
        \/ Alone(Head(queue)) /\ Busy(phase) # {}
        \/ /\ Idle(phase) = {}
           /\ started = size \/ Cardinality(Starting(phase)) >= Len(queue)

(* A cancel is not lost, whenever it comes: the job it reached is marked in *)
(* the queue, or the cancel is on its way behind the job, or the worker     *)
(* has it, until the worker's answer is on its way.                        *)
CancelNotLost ==
    \A i \in asked : outcome[i] = Pending =>
        /\ Waiting(i) => i \in flagged
        /\ \A w \in Workers :
              phase[w] = "running" /\ current[w] = i /\ Running(w) =>
                  \/ i \in stops[w]
                  \/ \E n \in DOMAIN toWorker[w] : /\ toWorker[w][n] = Message("cancel", i, 0, FALSE)
                                                   /\ job[w] = i \/ n > 1

(* What a stream resolves to is what its parts last reported; it is all    *)
(* that was asked for unless it says that it was cancelled; and it says so *)
(* only if it was.                                                         *)
ShotsAddUp ==
    \A g \in DOMAIN calls : calls[g].kind = "stream" /\ outcome[g].type = "done" =>
        /\ outcome[g].runs = MapThenSumSet(LAMBDA p : latest[p], Parts(g))
        /\ ~outcome[g].stopped => outcome[g].runs = calls[g].runs
        /\ outcome[g].stopped => Parts(g) \cap asked # {}

(* Every call's promise settles, whatever fails.                           *)
EveryCallSettles ==
    \A i \in Ids : i \in DOMAIN calls ~> outcome[i] # Pending

(* stream: "cancelling the returned promise's id stops every part".        *)
CancelReachesEveryPart ==
    \A g \in asked : calls[g].kind = "stream" =>
        \A p \in Parts(g) : outcome[p] = Pending => p \in asked
=============================================================================

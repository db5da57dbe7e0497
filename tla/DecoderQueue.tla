---------------------------- MODULE DecoderQueue ----------------------------
(***************************************************************************)
(* DecoderQueue of python/stabilizer_qec/realtime.py: a decoder behind a   *)
(* pool of worker threads, with numbered tickets, an ordered list of       *)
(* batches not yet collected, and statistics.                              *)
(*                                                                         *)
(* The threads that may call the queue are split by what they call:        *)
(* producers enqueue, consumers collect, owners reset, closers close.  A   *)
(* thread that does it all is covered, because its calls are one of the        *)
(* interleavings of such callers.  One action is one critical        *)
(* section of `_lock`, one operation on a future or on the pool, or one    *)
(* unlocked access to shared state, together with the thread-local code up *)
(* to the next of those.                                                   *)
(*                                                                         *)
(* A batch is its ticket.  Its syndromes, the predictions and the text of  *)
(* an error are left out; whether the decode returns or raises is chosen.  *)
(***************************************************************************)
EXTENDS Integers, Sequences, FiniteSets

CONSTANTS
    Producers,   \* threads that call enqueue_syndromes and submit
    Consumers,   \* threads that call get_corrections
    Impatient,   \* the consumers that give a timeout, or may be interrupted
    Owners,      \* threads that call reset
    Closers,     \* threads that call close
    Workers,     \* threads of the pool
    MaxTickets,  \* bound: batches ever enqueued
    MaxResets    \* bound: calls of reset

ASSUME CastAssumption ==
    /\ Impatient \subseteq Consumers
    /\ Producers \cap Consumers = {}
    /\ Producers \cap Owners = {}
    /\ Consumers \cap Owners = {}
    /\ Closers \cap (Producers \cup Consumers \cup Owners) = {}

ASSUME BoundAssumption == MaxTickets \in Nat /\ MaxResets \in Nat

Clients == Producers \cup Consumers \cup Owners \cup Closers
Tickets == 0 .. MaxTickets - 1
NoTicket == -1
NoTime == 0                    \* the code's None for a time that is not set

(***************************************************************************)
(* Where a thread is: the shared access it performs next.                  *)
(***************************************************************************)
EnqueuePC == {"numbering", "handing", "registering", "hooking"}
SubmitPC  == {"s_numbering", "s_handing", "s_registering", "s_hooking", "claiming"}
GetPC     == {"waiting", "timedOut", "returning", "raising", "timingOut"}
OwnerPC   == {"cancelling", "dropping"}
ClosePC   == {"shutting", "joining"}
ClientPC  == {"idle"} \cup EnqueuePC \cup SubmitPC \cup GetPC \cup OwnerPC \cup ClosePC
WorkerPC  == {"idle", "decoding", "counting", "answering", "failing", "calling"}

FutureState == {"none", "pending", "running", "finished", "failed", "cancelled"}

VARIABLES
    \* the DecoderQueue object, guarded by _lock (but for closed)
    nextTicket,   \* _next_ticket
    epoch,        \* _epoch
    results,      \* the keys of _results
    uncollected,  \* _uncollected
    latencies,    \* entries each batch has in _latencies (and _services, _decoded)
    spanOpen,     \* whether _first_enqueue is set
    lastFinish,   \* _last_finish
    inFlight,     \* _in_flight
    depthMax,     \* _depth_max
    closed,       \* _closed
    \* concurrent.futures
    workQueue,    \* the pool's queue of batches
    shut,         \* the pool's shutdown flag
    future,       \* the state of each batch's future
    hook,         \* its done callback: "unset", "set", or "ran"
    \* the closures and locals of the calls in progress
    born,         \* the epoch a batch was numbered in
    finishedAt,   \* holder["finished"]
    clock,        \* time.perf_counter, one tick for each finish
    pc, mine,     \* each client's position, and the ticket it works on
    doomed,       \* the snapshot of results a reset is cancelling
    wpc, job,     \* each worker's position and batch
    \* what the callers have been given
    returned,     \* how often each batch's predictions were returned
    raised        \* how often each batch's error was raised

queueVars  == <<nextTicket, epoch, results, uncollected, inFlight, depthMax, closed>>
statVars   == <<latencies, spanOpen, lastFinish>>
poolVars   == <<workQueue, shut, future, hook>>
workerVars == <<wpc, job, finishedAt>>
givenVars  == <<returned, raised>>
vars == <<queueVars, statVars, poolVars, workerVars, givenVars,
          born, clock, pc, mine, doomed>>

-----------------------------------------------------------------------------
Init ==
    /\ nextTicket = 0 /\ epoch = 0
    /\ results = {} /\ uncollected = <<>>
    /\ latencies = [t \in Tickets |-> 0]
    /\ spanOpen = FALSE /\ lastFinish = NoTime
    /\ inFlight = 0 /\ depthMax = 0
    /\ closed = FALSE
    /\ workQueue = <<>> /\ shut = FALSE
    /\ future = [t \in Tickets |-> "none"]
    /\ hook = [t \in Tickets |-> "unset"]
    /\ born = [t \in Tickets |-> 0]
    /\ finishedAt = [t \in Tickets |-> NoTime]
    /\ clock = 1
    /\ pc = [c \in Clients |-> "idle"]
    /\ mine = [c \in Clients |-> NoTicket]
    /\ doomed = [o \in Owners |-> {}]
    /\ wpc = [w \in Workers |-> "idle"]
    /\ job = [w \in Workers |-> NoTicket]
    /\ returned = [t \in Tickets |-> 0]
    /\ raised = [t \in Tickets |-> 0]

Listed == {uncollected[i] : i \in DOMAIN uncollected}

(* The list without its first occurrence of t, as list.remove leaves it.   *)
Without(list, t) ==
    LET i == CHOOSE j \in DOMAIN list :
                /\ list[j] = t
                /\ \A k \in DOMAIN list : list[k] = t => j <= k
    IN  SubSeq(list, 1, i - 1) \o SubSeq(list, i + 1, Len(list))

Later(a, b) == IF a < b THEN b ELSE a

Settled(t) == future[t] \in {"finished", "failed"}
Done(t) == future[t] \in {"finished", "failed", "cancelled"}

Goto(c, where) == pc' = [pc EXCEPT ![c] = where]

(* The call of c returns or raises.                                        *)
Leave(c) ==
    /\ Goto(c, "idle")
    /\ mine' = [mine EXCEPT ![c] = NoTicket]

-----------------------------------------------------------------------------
(***************************************************************************)
(* enqueue_syndromes, and submit, which calls it and then takes the result *)
(* for itself.  The phases of submit's enqueue carry the prefix "s_".      *)
(***************************************************************************)
Numbering == {p \in Producers : pc[p] \in {"numbering", "s_numbering"}}

(* `_closed` is read without the lock.                                     *)
Enter(p, phase) ==
    /\ pc[p] = "idle"
    /\ ~closed
    /\ nextTicket + Cardinality(Numbering) < MaxTickets
    /\ Goto(p, phase)
    /\ UNCHANGED <<queueVars, statVars, poolVars, workerVars, givenVars,
                   born, clock, mine, doomed>>

(* Mutant of Number: the depth is read before the batch is counted in.     *)
NumberDepthFirst(p) ==
    /\ pc[p] \in {"numbering", "s_numbering"}
    /\ nextTicket \in Tickets
    /\ nextTicket' = nextTicket + 1
    /\ born' = [born EXCEPT ![nextTicket] = epoch]
    /\ spanOpen' = TRUE
    /\ inFlight' = inFlight + 1
    /\ depthMax' = Later(depthMax, inFlight)
    /\ mine' = [mine EXCEPT ![p] = nextTicket]
    /\ Goto(p, IF pc[p] = "numbering" THEN "handing" ELSE "s_handing")
    /\ UNCHANGED <<epoch, results, uncollected, closed, latencies, lastFinish,
                   poolVars, workerVars, givenVars, clock, doomed>>

(* The first locked block: the ticket, the epoch and the depth.            *)
Number(p) ==
    /\ pc[p] \in {"numbering", "s_numbering"}
    /\ nextTicket \in Tickets
    /\ nextTicket' = nextTicket + 1
    /\ born' = [born EXCEPT ![nextTicket] = epoch]
    /\ spanOpen' = TRUE
    /\ inFlight' = inFlight + 1
    /\ depthMax' = Later(depthMax, inFlight')
    /\ mine' = [mine EXCEPT ![p] = nextTicket]
    /\ Goto(p, IF pc[p] = "numbering" THEN "handing" ELSE "s_handing")
    /\ UNCHANGED <<epoch, results, uncollected, closed, latencies, lastFinish,
                   poolVars, workerVars, givenVars, clock, doomed>>

(* pool.submit queues the batch.                                           *)
HandToPool(p) ==
    /\ pc[p] \in {"handing", "s_handing"}
    /\ ~shut
    /\ future' = [future EXCEPT ![mine[p]] = "pending"]
    /\ workQueue' = Append(workQueue, mine[p])
    /\ Goto(p, IF pc[p] = "handing" THEN "registering" ELSE "s_registering")
    /\ UNCHANGED <<queueVars, statVars, shut, hook, workerVars, givenVars,
                   born, clock, mine, doomed>>

(* pool.submit raises once the pool is shut down: the batch stays counted  *)
(* in _in_flight.                                                          *)
PoolRefuses(p) ==
    /\ pc[p] \in {"handing", "s_handing"}
    /\ shut
    /\ Leave(p)
    /\ UNCHANGED <<queueVars, statVars, poolVars, workerVars, givenVars,
                   born, clock, doomed>>

(* The second locked block: the result can be collected from here on.      *)
Register(p) ==
    /\ pc[p] \in {"registering", "s_registering"}
    /\ results' = results \cup {mine[p]}
    /\ uncollected' = Append(uncollected, mine[p])
    /\ Goto(p, IF pc[p] = "registering" THEN "hooking" ELSE "s_hooking")
    /\ UNCHANGED <<nextTicket, epoch, inFlight, depthMax, closed, statVars,
                   poolVars, workerVars, givenVars, born, clock, mine, doomed>>

(* Mutant of RunHook: the callback counts every batch out, as well as run. *)
RunHookCountsAll(t) ==
    /\ hook' = [hook EXCEPT ![t] = "ran"]
    /\ inFlight' = inFlight - 1

(* What the done callback does to a batch: it counts out a cancelled one.  *)
RunHook(t) ==
    /\ hook' = [hook EXCEPT ![t] = "ran"]
    /\ inFlight' = IF future[t] = "cancelled" THEN inFlight - 1 ELSE inFlight

(* add_done_callback runs the callback at once if the future is done.      *)
AddHook(p) ==
    /\ pc[p] \in {"hooking", "s_hooking"}
    /\ \/ /\ Done(mine[p])
          /\ RunHook(mine[p])
       \/ /\ ~Done(mine[p])
          /\ hook' = [hook EXCEPT ![mine[p]] = "set"]
          /\ UNCHANGED inFlight
    /\ \/ /\ pc[p] = "hooking"
          /\ Leave(p)
       \/ /\ pc[p] = "s_hooking"
          /\ Goto(p, "claiming")
          /\ UNCHANGED mine
    /\ UNCHANGED <<nextTicket, epoch, results, uncollected, depthMax, closed,
                   statVars, workQueue, shut, future, workerVars, givenVars,
                   born, clock, doomed>>

(* submit's own locked block.  list.remove raises when a reset or another  *)
(* caller took the batch first, and nothing changes.                       *)
Claim(p) ==
    /\ pc[p] = "claiming"
    /\ IF mine[p] \in Listed
         THEN /\ uncollected' = Without(uncollected, mine[p])
              /\ results' = results \ {mine[p]}
         ELSE UNCHANGED <<uncollected, results>>
    /\ Leave(p)
    /\ UNCHANGED <<nextTicket, epoch, inFlight, depthMax, closed, statVars,
                   poolVars, workerVars, givenVars, born, clock, doomed>>

-----------------------------------------------------------------------------
(***************************************************************************)
(* get_corrections.  The LookupErrors change nothing and are left out.     *)
(***************************************************************************)
Pick(c, t) ==
    /\ pc[c] = "idle"
    /\ t \in results
    /\ Goto(c, "waiting")
    /\ mine' = [mine EXCEPT ![c] = t]
    /\ UNCHANGED <<queueVars, statVars, poolVars, workerVars, givenVars,
                   born, clock, doomed>>

PickOldest(c) == uncollected # <<>> /\ Pick(c, Head(uncollected))
PickTicket(c) == \E t \in Tickets : Pick(c, t)

(* Mutant of Wake: a waiter on a batch that a reset dropped is not woken.  *)
WakeUnlessDropped(c) ==
    /\ pc[c] = "waiting"
    /\ Settled(mine[c])
    /\ Goto(c, IF future[mine[c]] = "finished" THEN "returning" ELSE "raising")
    /\ UNCHANGED <<queueVars, statVars, poolVars, workerVars, givenVars,
                   born, clock, mine, doomed>>

(* result.get: the predictions, the decode's error, or, of a batch a reset *)
(* dropped, a RuntimeError that collects nothing.                          *)
Wake(c) ==
    /\ pc[c] = "waiting"
    /\ Done(mine[c])
    /\ \/ /\ future[mine[c]] = "finished"
          /\ Goto(c, "returning")
          /\ UNCHANGED mine
       \/ /\ future[mine[c]] = "failed"
          /\ Goto(c, "raising")
          /\ UNCHANGED mine
       \/ /\ future[mine[c]] = "cancelled"
          /\ Leave(c)
    /\ UNCHANGED <<queueVars, statVars, poolVars, workerVars, givenVars,
                   born, clock, doomed>>

(* The timeout passes, or the waiter is interrupted, before the batch is   *)
(* done.                                                                   *)
TimeOut(c) ==
    /\ pc[c] = "waiting"
    /\ c \in Impatient
    /\ ~Done(mine[c])
    /\ Goto(c, "timedOut")
    /\ UNCHANGED <<queueVars, statVars, poolVars, workerVars, givenVars,
                   born, clock, mine, doomed>>

(* Mutant of CheckFailed: every exception of the wait collects the batch.  *)
CollectAnyway(c) ==
    /\ pc[c] = "timedOut"
    /\ Goto(c, "timingOut")
    /\ UNCHANGED <<queueVars, statVars, poolVars, workerVars, givenVars,
                   born, clock, mine, doomed>>

(* The handler of the exception asks the future again, result._failed().   *)
CheckFailed(c) ==
    /\ pc[c] = "timedOut"
    /\ IF future[mine[c]] = "failed"
         THEN Goto(c, "timingOut") /\ UNCHANGED mine
         ELSE Leave(c)
    /\ UNCHANGED <<queueVars, statVars, poolVars, workerVars, givenVars,
                   born, clock, doomed>>

(* Mutant of Collect: the ticket stays on the list of uncollected batches. *)
CollectKeepsListed(c) ==
    /\ pc[c] \in {"returning", "raising", "timingOut"}
    /\ results' = results \ {mine[c]}
    /\ returned' = IF pc[c] = "returning" THEN [returned EXCEPT ![mine[c]] = @ + 1]
                                          ELSE returned
    /\ raised' = IF pc[c] = "raising" THEN [raised EXCEPT ![mine[c]] = @ + 1] ELSE raised
    /\ Leave(c)
    /\ UNCHANGED <<nextTicket, epoch, uncollected, inFlight, depthMax, closed, statVars,
                   poolVars, workerVars, born, clock, doomed>>

(* _collected, and the end of the call: the predictions are returned, the  *)
(* decode's error is raised, or the TimeoutError is.                       *)
Collect(c) ==
    /\ pc[c] \in {"returning", "raising", "timingOut"}
    /\ IF mine[c] \in results
         THEN /\ results' = results \ {mine[c]}
              /\ uncollected' = IF mine[c] \in Listed THEN Without(uncollected, mine[c])
                                                       ELSE uncollected
         ELSE UNCHANGED <<results, uncollected>>
    /\ returned' = IF pc[c] = "returning" THEN [returned EXCEPT ![mine[c]] = @ + 1]
                                          ELSE returned
    /\ raised' = IF pc[c] = "raising" THEN [raised EXCEPT ![mine[c]] = @ + 1] ELSE raised
    /\ Leave(c)
    /\ UNCHANGED <<nextTicket, epoch, inFlight, depthMax, closed, statVars,
                   poolVars, workerVars, born, clock, doomed>>

-----------------------------------------------------------------------------
(* Mutant of Reset: the end of the span survives.                          *)
ResetKeepsSpan(o) ==
    /\ pc[o] = "idle"
    /\ epoch < MaxResets
    /\ epoch' = epoch + 1
    /\ doomed' = [doomed EXCEPT ![o] = results]
    /\ results' = {} /\ uncollected' = <<>>
    /\ latencies' = [t \in Tickets |-> 0]
    /\ spanOpen' = FALSE
    /\ depthMax' = 0
    /\ Goto(o, "cancelling")
    /\ UNCHANGED <<nextTicket, inFlight, closed, lastFinish, poolVars, workerVars, givenVars,
                   born, clock, mine>>

(***************************************************************************)
(* reset: one locked block, then each result it saw is cancelled outside   *)
(* the lock (in any order; the code's is that of the dict).                *)
(***************************************************************************)
Reset(o) ==
    /\ pc[o] = "idle"
    /\ epoch < MaxResets
    /\ epoch' = epoch + 1
    /\ doomed' = [doomed EXCEPT ![o] = results]
    /\ results' = {} /\ uncollected' = <<>>
    /\ latencies' = [t \in Tickets |-> 0]
    /\ spanOpen' = FALSE /\ lastFinish' = NoTime
    /\ depthMax' = 0
    /\ Goto(o, "cancelling")
    /\ UNCHANGED <<nextTicket, inFlight, closed, poolVars, workerVars, givenVars,
                   born, clock, mine>>

(* Future.cancel has no effect on a batch that runs or is done.  On one    *)
(* that waits in the pool it runs the callback, if that is already added.  *)
Cancel(o, t) ==
    /\ pc[o] = "cancelling"
    /\ t \in doomed[o]
    /\ doomed' = [doomed EXCEPT ![o] = @ \ {t}]
    /\ IF future[t] = "pending"
         THEN /\ future' = [future EXCEPT ![t] = "cancelled"]
              /\ IF hook[t] = "set"
                   THEN Goto(o, "dropping") /\ mine' = [mine EXCEPT ![o] = t]
                   ELSE UNCHANGED <<pc, mine>>
         ELSE UNCHANGED <<future, pc, mine>>
    /\ UNCHANGED <<queueVars, statVars, workQueue, shut, hook, workerVars, givenVars,
                   born, clock>>

Drop(o) ==
    /\ pc[o] = "dropping"
    /\ RunHook(mine[o])
    /\ Goto(o, "cancelling")
    /\ mine' = [mine EXCEPT ![o] = NoTicket]
    /\ UNCHANGED <<nextTicket, epoch, results, uncollected, depthMax, closed, statVars,
                   workQueue, shut, future, workerVars, givenVars, born, clock, doomed>>

EndReset(o) ==
    /\ pc[o] = "cancelling"
    /\ doomed[o] = {}
    /\ Leave(o)
    /\ UNCHANGED <<queueVars, statVars, poolVars, workerVars, givenVars,
                   born, clock, doomed>>

(* close: the flag, the pool's shutdown, and with wait=True the join of    *)
(* its threads, which end when the pool's queue is empty.                  *)
Close(k) ==
    /\ pc[k] = "idle"
    /\ closed' = TRUE
    /\ Goto(k, "shutting")
    /\ UNCHANGED <<nextTicket, epoch, results, uncollected, inFlight, depthMax, statVars,
                   poolVars, workerVars, givenVars, born, clock, mine, doomed>>

ShutDown(k) ==
    /\ pc[k] = "shutting"
    /\ shut' = TRUE
    /\ \E wait \in BOOLEAN : IF wait THEN Goto(k, "joining") /\ UNCHANGED mine ELSE Leave(k)
    /\ UNCHANGED <<queueVars, statVars, workQueue, future, hook, workerVars, givenVars,
                   born, clock, doomed>>

PoolIdle == workQueue = <<>> /\ \A w \in Workers : wpc[w] = "idle"

Join(k) ==
    /\ pc[k] = "joining"
    /\ PoolIdle
    /\ Leave(k)
    /\ UNCHANGED <<queueVars, statVars, poolVars, workerVars, givenVars,
                   born, clock, doomed>>

-----------------------------------------------------------------------------
(***************************************************************************)
(* A worker of the pool.                                                   *)
(***************************************************************************)
(* Mutant of Start: the pool runs a batch that was cancelled.              *)
StartAny(w) ==
    /\ wpc[w] = "idle"
    /\ workQueue # <<>>
    /\ workQueue' = Tail(workQueue)
    /\ future' = [future EXCEPT ![Head(workQueue)] = "running"]
    /\ job' = [job EXCEPT ![w] = Head(workQueue)]
    /\ wpc' = [wpc EXCEPT ![w] = "decoding"]
    /\ UNCHANGED <<queueVars, statVars, shut, hook, finishedAt, givenVars,
                   born, clock, pc, mine, doomed>>

Start(w) ==
    /\ wpc[w] = "idle"
    /\ workQueue # <<>>
    /\ future[Head(workQueue)] = "pending"
    /\ workQueue' = Tail(workQueue)
    /\ future' = [future EXCEPT ![Head(workQueue)] = "running"]
    /\ job' = [job EXCEPT ![w] = Head(workQueue)]
    /\ wpc' = [wpc EXCEPT ![w] = "decoding"]
    /\ UNCHANGED <<queueVars, statVars, shut, hook, finishedAt, givenVars,
                   born, clock, pc, mine, doomed>>

Skip(w) ==
    /\ wpc[w] = "idle"
    /\ workQueue # <<>>
    /\ future[Head(workQueue)] = "cancelled"
    /\ workQueue' = Tail(workQueue)
    /\ UNCHANGED <<queueVars, statVars, shut, future, hook, workerVars, givenVars,
                   born, clock, pc, mine, doomed>>

(* run(): the decode returns, and the time is read before the lock is.     *)
DecodeReturns(w) ==
    /\ wpc[w] = "decoding"
    /\ finishedAt' = [finishedAt EXCEPT ![job[w]] = clock]
    /\ clock' = clock + 1
    /\ wpc' = [wpc EXCEPT ![w] = "counting"]
    /\ UNCHANGED <<queueVars, statVars, poolVars, job, givenVars,
                   born, pc, mine, doomed>>

(* Mutant of DecodeRaises: the error path forgets to count the batch out.  *)
RaiseUncounted(w) ==
    /\ wpc[w] = "decoding"
    /\ wpc' = [wpc EXCEPT ![w] = "failing"]
    /\ UNCHANGED <<queueVars, statVars, poolVars, job, finishedAt, givenVars,
                   born, clock, pc, mine, doomed>>

DecodeRaises(w) ==
    /\ wpc[w] = "decoding"
    /\ inFlight' = inFlight - 1
    /\ wpc' = [wpc EXCEPT ![w] = "failing"]
    /\ UNCHANGED <<nextTicket, epoch, results, uncollected, depthMax, closed, statVars,
                   poolVars, job, finishedAt, givenVars, born, clock, pc, mine, doomed>>

(* Mutant of Count: the epoch is not compared.                             *)
CountAnyEpoch(w) ==
    /\ wpc[w] = "counting"
    /\ inFlight' = inFlight - 1
    /\ latencies' = [latencies EXCEPT ![job[w]] = @ + 1]
    /\ lastFinish' = finishedAt[job[w]]
    /\ wpc' = [wpc EXCEPT ![w] = "answering"]
    /\ UNCHANGED <<nextTicket, epoch, results, uncollected, depthMax, closed, spanOpen,
                   poolVars, job, finishedAt, givenVars, born, clock, pc, mine, doomed>>

(* run()'s locked block: no statistics for a batch of an earlier epoch.    *)
Count(w) ==
    /\ wpc[w] = "counting"
    /\ inFlight' = inFlight - 1
    /\ IF born[job[w]] = epoch
         THEN /\ latencies' = [latencies EXCEPT ![job[w]] = @ + 1]
              /\ lastFinish' = finishedAt[job[w]]
         ELSE UNCHANGED <<latencies, lastFinish>>
    /\ wpc' = [wpc EXCEPT ![w] = "answering"]
    /\ UNCHANGED <<nextTicket, epoch, results, uncollected, depthMax, closed, spanOpen,
                   poolVars, job, finishedAt, givenVars, born, clock, pc, mine, doomed>>

(* set_result or set_exception: waiters may wake from here on.             *)
Settle(w) ==
    /\ wpc[w] \in {"answering", "failing"}
    /\ future' = [future EXCEPT ![job[w]] = IF wpc[w] = "answering" THEN "finished"
                                                                    ELSE "failed"]
    /\ wpc' = [wpc EXCEPT ![w] = "calling"]
    /\ UNCHANGED <<queueVars, statVars, workQueue, shut, hook, job, finishedAt, givenVars,
                   born, clock, pc, mine, doomed>>

(* The future's callbacks, then the next batch.                            *)
CallBack(w) ==
    /\ wpc[w] = "calling"
    /\ IF hook[job[w]] = "set" THEN RunHook(job[w]) ELSE UNCHANGED <<hook, inFlight>>
    /\ wpc' = [wpc EXCEPT ![w] = "idle"]
    /\ job' = [job EXCEPT ![w] = NoTicket]
    /\ UNCHANGED <<nextTicket, epoch, results, uncollected, depthMax, closed, statVars,
                   workQueue, shut, future, finishedAt, givenVars,
                   born, clock, pc, mine, doomed>>

(* Nothing is under way and no caller makes a further call.                *)
Quiet ==
    /\ PoolIdle
    /\ \A c \in Clients : pc[c] = "idle"
    /\ UNCHANGED vars

-----------------------------------------------------------------------------
Produce(p) ==
    \/ Enter(p, "numbering") \/ Enter(p, "s_numbering")
    \/ Number(p) \/ HandToPool(p) \/ PoolRefuses(p)
    \/ Register(p) \/ AddHook(p) \/ Claim(p)

Consume(c) ==
    \/ PickOldest(c) \/ PickTicket(c)
    \/ Wake(c) \/ TimeOut(c) \/ CheckFailed(c) \/ Collect(c)

Own(o) ==
    \/ Reset(o) \/ (\E t \in Tickets : Cancel(o, t)) \/ Drop(o) \/ EndReset(o)

Finalise(k) == Close(k) \/ ShutDown(k) \/ Join(k)

Work(w) ==
    \/ Start(w) \/ Skip(w) \/ DecodeReturns(w) \/ DecodeRaises(w)
    \/ Count(w) \/ Settle(w) \/ CallBack(w)

Next ==
    \/ \E p \in Producers : Produce(p)
    \/ \E c \in Consumers : Consume(c)
    \/ \E o \in Owners : Own(o)
    \/ \E k \in Closers : Finalise(k)
    \/ \E w \in Workers : Work(w)
    \/ Quiet

Spec == Init /\ [][Next]_vars

(***************************************************************************)
(* Fairness: the operating system runs every thread, and a decode ends.    *)
(* Callers need make no call, but a call that was begun goes on.           *)
(***************************************************************************)
Proceed(p) ==
    Number(p) \/ HandToPool(p) \/ PoolRefuses(p) \/ Register(p) \/ AddHook(p) \/ Claim(p)

Fairness ==
    /\ \A p \in Producers : WF_vars(Proceed(p))
    /\ \A c \in Consumers : WF_vars(Wake(c) \/ CheckFailed(c) \/ Collect(c))
    /\ \A o \in Owners : WF_vars((\E t \in Tickets : Cancel(o, t)) \/ Drop(o) \/ EndReset(o))
    /\ \A k \in Closers : WF_vars(ShutDown(k) \/ Join(k))
    /\ \A w \in Workers : WF_vars(Work(w))

FairSpec == Spec /\ Fairness

-----------------------------------------------------------------------------
QueueTypes ==
    /\ nextTicket \in 0 .. MaxTickets /\ epoch \in 0 .. MaxResets
    /\ born \in [Tickets -> 0 .. MaxResets]
    /\ results \subseteq Tickets /\ uncollected \in Seq(Tickets)
    /\ latencies \in [Tickets -> Nat]
    /\ spanOpen \in BOOLEAN /\ lastFinish \in Nat
    /\ inFlight \in Nat /\ depthMax \in Nat /\ closed \in BOOLEAN
    /\ returned \in [Tickets -> Nat] /\ raised \in [Tickets -> Nat]

PoolTypes ==
    /\ workQueue \in Seq(Tickets) /\ shut \in BOOLEAN
    /\ future \in [Tickets -> FutureState]
    /\ hook \in [Tickets -> {"unset", "set", "ran"}]
    /\ wpc \in [Workers -> WorkerPC]
    /\ job \in [Workers -> Tickets \cup {NoTicket}]
    /\ finishedAt \in [Tickets -> Nat] /\ clock \in Nat \ {0}

PhasesOf(c) ==
    {"idle"} \cup (IF c \in Producers THEN EnqueuePC \cup SubmitPC
                   ELSE IF c \in Consumers THEN GetPC
                   ELSE IF c \in Owners THEN OwnerPC ELSE ClosePC)

CallTypes ==
    /\ pc \in [Clients -> ClientPC] /\ \A c \in Clients : pc[c] \in PhasesOf(c)
    /\ mine \in [Clients -> Tickets \cup {NoTicket}]
    /\ doomed \in [Owners -> SUBSET Tickets]

(* Type correctness.  _in_flight never falls below zero, so no batch is     *)
(* counted out twice, and callers keep to their own operations.            *)
TypeOK == QueueTypes /\ PoolTypes /\ CallTypes

(***************************************************************************)
(* The in-flight counter.  It is raised by the enqueuing thread, lowered   *)
(* by the worker, or, for a batch a reset cancelled, by whichever thread   *)
(* runs the done callback.  A batch the pool refused stays counted.        *)
(***************************************************************************)
CountedOut(t) ==
    \/ Settled(t)
    \/ future[t] = "cancelled" /\ hook[t] = "ran"
    \/ \E w \in Workers : job[w] = t /\ wpc[w] \in {"answering", "failing"}

Live == {t \in 0 .. nextTicket - 1 : ~CountedOut(t)}

(* _in_flight is the number of batches numbered and not yet counted out:   *)
(* no path through worker, callback and reset counts one twice or never.   *)
InFlightExact == inFlight = Cardinality(Live)

(* queue_depth_max is no less than the number of batches enqueued since    *)
(* the last reset that are in flight, though reset zeroes it while earlier *)
(* batches run and are still counted.                                      *)
DepthCovers == Cardinality({t \in Live : born[t] = epoch}) <= depthMax

(* Whoever sees a result of the present epoch finds it in the statistics   *)
(* (the comment in run()), each batch is in them at most once, and none    *)
(* from before the last reset or that raised is.                           *)
StatsMatchResults ==
    \A t \in Tickets :
        /\ latencies[t] <= 1
        /\ future[t] = "finished" /\ born[t] = epoch => latencies[t] = 1
        /\ latencies[t] = 1 => born[t] = epoch /\ future[t] \in {"running", "finished"}

(* The span that stats() divides by runs from the first enqueue "to the    *)
(* last result" (DecoderStats): of the batches counted since the last      *)
(* reset, none finished later than the span ends, and it ends with one of   *)
(* them, or not at all while none is counted, however late the batches of   *)
(* an earlier epoch finish.  True of one worker; two may count their        *)
(* batches in the other order than they finished them.                     *)
SpanEndsAtLastResult ==
    LET Counted == {t \in Tickets : latencies[t] > 0}
    IN  /\ Counted # {} => spanOpen
        /\ \A t \in Counted : finishedAt[t] <= lastFinish
        /\ lastFinish # NoTime => \E t \in Counted : finishedAt[t] = lastFinish

(* _uncollected lists the keys of _results, each once, so the oldest batch *)
(* get_corrections picks is always one it can look up.                     *)
ListMatchesResults ==
    /\ Listed = results
    /\ \A i, j \in DOMAIN uncollected : uncollected[i] = uncollected[j] => i = j

(* A batch leaves _results only by a reset, by the submit that made it, or *)
(* once its decode has settled: a wait that timed out leaves it in place.  *)
LeavesSettled ==
    [][\A t \in results \ results' :
          \/ epoch' # epoch
          \/ Settled(t)
          \/ \E p \in Producers : pc[p] = "claiming" /\ mine[p] = t]_vars

(* A patient collector gets an answer, every enqueue, reset and close that *)
(* was begun returns.                                                      *)
CallsReturn == \A c \in Clients : pc[c] # "idle" ~> pc[c] = "idle"

(***************************************************************************)
(* The ledger this queue keeps, when one thread collects.                  *)
(***************************************************************************)
FateOf(t) ==
    CASE future[t] = "none" -> "absent"
      [] future[t] = "pending" -> "waiting"
      [] future[t] = "running" -> "started"
      [] future[t] = "finished" -> "decoded"
      [] future[t] = "failed" -> "failed"
      [] future[t] = "cancelled" -> "dropped"

BeingEnqueued(t) ==
    \E p \in Producers :
        mine[p] = t /\ pc[p] \in {"handing", "s_handing", "registering", "s_registering"}

ListingOf(t) ==
    IF t >= nextTicket \/ BeingEnqueued(t) THEN "new"
    ELSE IF t \in results THEN "listed" ELSE "gone"

Ledger == INSTANCE DecoderLedger
            WITH Batches <- Tickets,
                 fate <- [t \in Tickets |-> FateOf(t)],
                 listing <- [t \in Tickets |-> ListingOf(t)],
                 answered <- {t \in Tickets : returned[t] > 0}

(* Every step of the queue is a step of the ledger or none of its concern, *)
(* and batches that wait are begun or dropped.                             *)
KeepsLedger == Ledger!FairSpec

(* get_corrections: "A batch is handed back once."                         *)
HandedBackOnce == \A t \in Tickets : returned[t] <= 1

(* get_corrections: "a batch whose decode raised is collected by raising   *)
(* its error".                                                             *)
ErrorsAreRaised ==
    [][\A t \in results \ results' :
          future[t] = "failed" /\ epoch' = epoch
             => \/ raised'[t] > raised[t]
                \/ \E p \in Producers : pc[p] = "claiming" /\ mine[p] = t]_vars
=============================================================================

------------------------- MODULE DecoderQueueProofs -------------------------
(***************************************************************************)
(* Theorems about DecoderQueue, for any callers, any number of workers and *)
(* any bounds.                                                             *)
(*                                                                         *)
(* The counters and statistics are touched by several threads, so none of  *)
(* their invariants is inductive alone: each rests on who holds which      *)
(* batch.  Ownership is the strengthening: every batch is held by at most  *)
(* one producer, one worker and one reset, and its future's state follows  *)
(* from where its holder stands.                                           *)
(***************************************************************************)
EXTENDS DecoderQueue, FiniteSetTheorems, SequenceTheorems, TLAPS

Handing     == {"handing", "s_handing"}
Registering == {"registering", "s_registering"}
Hooking     == {"hooking", "s_hooking"}
Enqueuing   == Handing \cup Registering \cup Hooking

(* Typing of what the ownership argument reads.                            *)
Shapes ==
    /\ nextTicket \in 0 .. MaxTickets
    /\ workQueue \in Seq(Tickets)
    /\ future \in [Tickets -> FutureState]
    /\ hook \in [Tickets -> {"unset", "set", "ran"}]
    /\ mine \in [Clients -> Tickets \cup {NoTicket}]
    /\ job \in [Workers -> Tickets \cup {NoTicket}]
    /\ wpc \in [Workers -> WorkerPC]
    /\ pc \in [Clients -> ClientPC]

(* A worker away from "idle" runs one batch, which no other worker has.    *)
WorkersOK ==
    \A w \in Workers :
        /\ wpc[w] = "idle" <=> job[w] = NoTicket
        /\ wpc[w] \in {"decoding", "counting", "answering", "failing"}
              => future[job[w]] = "running"
        /\ wpc[w] = "calling" => future[job[w]] \in {"finished", "failed"}
        /\ \A v \in Workers : job[w] = job[v] /\ job[w] # NoTicket => w = v

(* The pool's queue holds batches that wait or were cancelled, each once.  *)
PoolOK ==
    /\ \A i \in DOMAIN workQueue : future[workQueue[i]] \in {"pending", "cancelled"}
    /\ \A i, j \in DOMAIN workQueue : workQueue[i] = workQueue[j] => i = j

(* Tickets not yet given out have left no trace; a callback that ran was   *)
(* that of a future that is done.                                          *)
TicketsOK ==
    \A t \in Tickets :
        /\ t >= nextTicket => future[t] = "none" /\ hook[t] = "unset"
        /\ hook[t] = "ran" => Done(t)

(* A batch being enqueued has one producer, and its callback is not added. *)
ProducersOK ==
    \A p \in Producers :
        /\ pc[p] \in Enqueuing => mine[p] \in 0 .. nextTicket - 1 /\ mine[p] \in Tickets
                                     /\ hook[mine[p]] = "unset"
        /\ pc[p] \in Handing => future[mine[p]] = "none"
        /\ pc[p] \in Registering \cup Hooking => future[mine[p]] # "none"
        /\ \A q \in Producers :
              pc[p] \in Enqueuing /\ pc[q] \in Enqueuing /\ mine[p] = mine[q] => p = q

(* The batch whose callback a reset is about to run was cancelled by it.   *)
OwnersOK ==
    \A o \in Owners :
        pc[o] = "dropping" =>
            /\ mine[o] \in Tickets
            /\ future[mine[o]] = "cancelled"
            /\ hook[mine[o]] = "set"
            /\ \A q \in Owners : pc[q] = "dropping" /\ mine[q] = mine[o] => q = o

Ownership == WorkersOK /\ PoolOK /\ TicketsOK /\ ProducersOK /\ OwnersOK

-----------------------------------------------------------------------------
LEMMA TicketFacts == NoTicket \notin Tickets /\ NoTicket \in Int /\ Tickets \subseteq Nat
BY BoundAssumption DEF NoTicket, Tickets

(* What one cancel of a reset does to the futures.                         *)
LEMMA CancelEffect ==
    ASSUME Shapes, NEW o \in Owners, NEW t \in Tickets, Cancel(o, t)
    PROVE  \A u \in Tickets :
              \/ future'[u] = future[u]
              \/ u = t /\ future[u] = "pending" /\ future'[u] = "cancelled"
<1>1. CASE future[t] = "pending"
      BY <1>1 DEF Cancel, Shapes
<1>2. CASE future[t] # "pending"
      BY <1>2 DEF Cancel
<1> QED BY <1>1, <1>2

(* Workers keep to their own batches.                                      *)
LEMMA WorkersStep == Shapes /\ Ownership /\ [Next]_vars => WorkersOK'
<1> SUFFICES ASSUME Shapes, Ownership, [Next]_vars PROVE WorkersOK'
    OBVIOUS
<1> USE TicketFacts DEF Ownership, Shapes
<1>1. ASSUME UNCHANGED <<wpc, job, future>> PROVE WorkersOK'
      BY <1>1 DEF WorkersOK
<1>2. ASSUME NEW p \in Producers, Produce(p) PROVE WorkersOK'
      <2>1. CASE HandToPool(p)
            BY <2>1 DEF HandToPool, WorkersOK, ProducersOK, Enqueuing, Handing, workerVars
      <2>2. CASE ~HandToPool(p)
            BY <1>1, <1>2, <2>2 DEF Produce, Enter, Number, PoolRefuses, Register, AddHook, Claim,
                                    workerVars, poolVars
      <2> QED BY <2>1, <2>2
<1>3. ASSUME NEW c \in Consumers, Consume(c) PROVE WorkersOK'
      BY <1>1, <1>3 DEF Consume, PickOldest, PickTicket, Pick, Wake, TimeOut, CheckFailed, Collect,
                        workerVars, poolVars
<1>4. ASSUME NEW o \in Owners, Own(o) PROVE WorkersOK'
      <2>1. ASSUME NEW t \in Tickets, Cancel(o, t) PROVE WorkersOK'
            <3>1. UNCHANGED <<wpc, job>>
                  BY <2>1 DEF Cancel, workerVars
            <3>2. \A u \in Tickets : future'[u] = future[u] \/ future[u] = "pending"
                  BY <2>1, CancelEffect
            <3>3. ASSUME NEW w \in Workers, wpc[w] # "idle" PROVE future'[job[w]] = future[job[w]]
                  <4>1. job[w] \in Tickets
                        BY <3>3 DEF WorkersOK
                  <4>2. future[job[w]] # "pending"
                        BY <3>3 DEF WorkersOK, WorkerPC
                  <4> QED BY <3>2, <4>1, <4>2
            <3> QED BY <3>1, <3>3 DEF WorkersOK, WorkerPC
      <2>2. CASE ~ \E t \in Tickets : Cancel(o, t)
            BY <1>1, <1>4, <2>2 DEF Own, Reset, Drop, EndReset, workerVars, poolVars
      <2> QED BY <2>1, <2>2
<1>5. ASSUME NEW k \in Closers, Finalise(k) PROVE WorkersOK'
      BY <1>1, <1>5 DEF Finalise, Close, ShutDown, Join, workerVars, poolVars
<1>6. ASSUME NEW w \in Workers, Work(w) PROVE WorkersOK'
      <2>1. CASE Start(w)
            <3>1. /\ Head(workQueue) \in Tickets /\ future[Head(workQueue)] = "pending"
                  /\ wpc[w] = "idle" /\ job[w] = NoTicket
                  BY <2>1 DEF Start, WorkersOK
            <3>2. /\ future' = [future EXCEPT ![Head(workQueue)] = "running"]
                  /\ job' = [job EXCEPT ![w] = Head(workQueue)]
                  /\ wpc' = [wpc EXCEPT ![w] = "decoding"]
                  BY <2>1 DEF Start
            <3>3. \A v \in Workers : job[v] # Head(workQueue)
                  BY <3>1 DEF WorkersOK, WorkerPC
            <3> QED BY <3>1, <3>2, <3>3 DEF WorkersOK, WorkerPC
      <2>2. CASE Skip(w)
            BY <1>1, <2>2 DEF Skip, workerVars
      <2>3. CASE DecodeReturns(w)
            BY <2>3 DEF DecodeReturns, WorkersOK, WorkerPC, poolVars
      <2>4. CASE DecodeRaises(w)
            BY <2>4 DEF DecodeRaises, WorkersOK, WorkerPC, poolVars
      <2>5. CASE Count(w)
            BY <2>5 DEF Count, WorkersOK, WorkerPC, poolVars
      <2>6. CASE Settle(w)
            <3>1. job[w] \in Tickets
                  BY <2>6 DEF Settle, WorkersOK
            <3> QED BY <2>6, <3>1 DEF Settle, WorkersOK, WorkerPC
      <2>7. CASE CallBack(w)
            BY <2>7 DEF CallBack, WorkersOK, WorkerPC
      <2> QED BY <1>6, <2>1, <2>2, <2>3, <2>4, <2>5, <2>6, <2>7 DEF Work
<1>7. CASE Quiet \/ UNCHANGED vars
      BY <1>1, <1>7 DEF Quiet, vars, workerVars, poolVars
<1> QED BY <1>2, <1>3, <1>4, <1>5, <1>6, <1>7 DEF Next

(* Batches enter the pool's queue once, when their future is made.         *)
LEMMA PoolStep == Shapes /\ Ownership /\ [Next]_vars => PoolOK'
<1> SUFFICES ASSUME Shapes, Ownership, [Next]_vars PROVE PoolOK'
    OBVIOUS
<1> USE TicketFacts DEF Ownership, Shapes
<1>1. ASSUME UNCHANGED <<workQueue, future>> PROVE PoolOK'
      BY <1>1 DEF PoolOK
<1>2. ASSUME NEW p \in Producers, Produce(p) PROVE PoolOK'
      <2>1. CASE HandToPool(p)
            <3>1. mine[p] \in Tickets /\ future[mine[p]] = "none"
                  BY <2>1 DEF HandToPool, ProducersOK, Enqueuing, Handing
            <3>2. workQueue' = Append(workQueue, mine[p])
                  BY <2>1 DEF HandToPool
            <3>3. \A i \in DOMAIN workQueue : workQueue[i] \in Tickets /\ workQueue[i] # mine[p]
                  BY <3>1 DEF PoolOK
            <3>4. future' = [future EXCEPT ![mine[p]] = "pending"]
                  BY <2>1 DEF HandToPool
            <3> QED BY <3>1, <3>2, <3>3, <3>4 DEF PoolOK
      <2>2. CASE ~HandToPool(p)
            BY <1>1, <1>2, <2>2 DEF Produce, Enter, Number, PoolRefuses, Register, AddHook, Claim,
                                    poolVars
      <2> QED BY <2>1, <2>2
<1>3. ASSUME NEW c \in Consumers, Consume(c) PROVE PoolOK'
      BY <1>1, <1>3 DEF Consume, PickOldest, PickTicket, Pick, Wake, TimeOut, CheckFailed, Collect,
                        poolVars
<1>4. ASSUME NEW o \in Owners, Own(o) PROVE PoolOK'
      <2>1. ASSUME NEW t \in Tickets, Cancel(o, t) PROVE PoolOK'
            <3>1. UNCHANGED workQueue
                  BY <2>1 DEF Cancel
            <3>2. \A u \in Tickets : future'[u] = future[u] \/ future'[u] = "cancelled"
                  BY <2>1, CancelEffect
            <3>3. \A i \in DOMAIN workQueue : workQueue[i] \in Tickets
                  OBVIOUS
            <3> QED BY <3>1, <3>2, <3>3 DEF PoolOK
      <2>2. CASE ~ \E t \in Tickets : Cancel(o, t)
            BY <1>1, <1>4, <2>2 DEF Own, Reset, Drop, EndReset, poolVars
      <2> QED BY <2>1, <2>2
<1>5. ASSUME NEW k \in Closers, Finalise(k) PROVE PoolOK'
      BY <1>1, <1>5 DEF Finalise, Close, ShutDown, Join, poolVars
<1>6. ASSUME NEW w \in Workers, Work(w) PROVE PoolOK'
      <2>1. CASE Start(w)
            <3>1. workQueue # <<>> /\ workQueue' = Tail(workQueue)
                  BY <2>1 DEF Start
            <3>2. \A i \in DOMAIN workQueue' :
                     /\ workQueue'[i] = workQueue[i + 1]
                     /\ i + 1 \in DOMAIN workQueue /\ i + 1 # 1 /\ i \in Nat
                  BY <3>1
            <3>3. \A i \in DOMAIN workQueue' : workQueue'[i] \in Tickets /\ workQueue'[i] # Head(workQueue)
                  BY <3>1, <3>2 DEF PoolOK
            <3>4. future' = [future EXCEPT ![Head(workQueue)] = "running"]
                  BY <2>1 DEF Start
            <3> QED BY <3>2, <3>3, <3>4 DEF PoolOK
      <2>2. CASE Skip(w)
            <3>1. workQueue # <<>> /\ workQueue' = Tail(workQueue) /\ UNCHANGED future
                  BY <2>2 DEF Skip
            <3>2. \A i \in DOMAIN workQueue' :
                     /\ workQueue'[i] = workQueue[i + 1]
                     /\ i + 1 \in DOMAIN workQueue /\ i \in Nat
                  BY <3>1
            <3> QED BY <3>1, <3>2 DEF PoolOK
      <2>3. CASE Settle(w)
            <3>1. job[w] \in Tickets /\ future[job[w]] = "running"
                  BY <2>3 DEF Settle, WorkersOK
            <3>2. UNCHANGED workQueue /\ \A u \in Tickets : u # job[w] => future'[u] = future[u]
                  BY <2>3 DEF Settle
            <3>3. \A i \in DOMAIN workQueue : workQueue[i] \in Tickets /\ workQueue[i] # job[w]
                  BY <3>1 DEF PoolOK
            <3> QED BY <3>2, <3>3 DEF PoolOK
      <2>4. CASE DecodeReturns(w) \/ DecodeRaises(w) \/ Count(w) \/ CallBack(w)
            BY <1>1, <2>4 DEF DecodeReturns, DecodeRaises, Count, CallBack, poolVars
      <2> QED BY <1>6, <2>1, <2>2, <2>3, <2>4 DEF Work
<1>7. CASE Quiet \/ UNCHANGED vars
      BY <1>1, <1>7 DEF Quiet, vars, poolVars
<1> QED BY <1>2, <1>3, <1>4, <1>5, <1>6, <1>7 DEF Next

(* A callback runs only when its future is done, and futures stay done.    *)
LEMMA TicketsStep == Shapes /\ Ownership /\ [Next]_vars => TicketsOK'
<1> SUFFICES ASSUME Shapes, Ownership, [Next]_vars PROVE TicketsOK'
    OBVIOUS
<1> USE TicketFacts DEF Ownership, Shapes
<1>1. ASSUME UNCHANGED <<nextTicket, future, hook>> PROVE TicketsOK'
      BY <1>1 DEF TicketsOK, Done
<1>2. ASSUME NEW p \in Producers, Produce(p) PROVE TicketsOK'
      <2>1. CASE Number(p)
            BY <2>1 DEF Number, TicketsOK, Done, poolVars
      <2>2. CASE HandToPool(p)
            BY <2>2 DEF HandToPool, TicketsOK, Done, ProducersOK, Enqueuing, Handing, queueVars
      <2>3. CASE AddHook(p)
            BY <2>3 DEF AddHook, RunHook, TicketsOK, Done, ProducersOK, Enqueuing, Hooking
      <2>4. CASE ~Number(p) /\ ~HandToPool(p) /\ ~AddHook(p)
            BY <1>1, <1>2, <2>4 DEF Produce, Enter, PoolRefuses, Register, Claim, poolVars, queueVars
      <2> QED BY <2>1, <2>2, <2>3, <2>4
<1>3. ASSUME NEW c \in Consumers, Consume(c) PROVE TicketsOK'
      BY <1>1, <1>3 DEF Consume, PickOldest, PickTicket, Pick, Wake, TimeOut, CheckFailed, Collect,
                        poolVars, queueVars
<1>4. ASSUME NEW o \in Owners, Own(o) PROVE TicketsOK'
      <2>1. ASSUME NEW t \in Tickets, Cancel(o, t) PROVE TicketsOK'
            <3>1. UNCHANGED <<nextTicket, hook>>
                  BY <2>1 DEF Cancel, queueVars
            <3>2. \A u \in Tickets : \/ future'[u] = future[u]
                                     \/ future[u] = "pending" /\ future'[u] = "cancelled"
                  BY <2>1, CancelEffect
            <3> QED BY <3>1, <3>2 DEF TicketsOK, Done
      <2>2. CASE Drop(o)
            BY <2>2 DEF Drop, RunHook, TicketsOK, Done, OwnersOK
      <2>3. CASE Reset(o) \/ EndReset(o)
            BY <1>1, <2>3 DEF Reset, EndReset, poolVars, queueVars
      <2> QED BY <1>4, <2>1, <2>2, <2>3 DEF Own
<1>5. ASSUME NEW k \in Closers, Finalise(k) PROVE TicketsOK'
      BY <1>1, <1>5 DEF Finalise, Close, ShutDown, Join, poolVars, queueVars
<1>6. ASSUME NEW w \in Workers, Work(w) PROVE TicketsOK'
      <2>1. CASE Start(w)
            <3>1. Head(workQueue) \in Tickets /\ future[Head(workQueue)] = "pending"
                  BY <2>1 DEF Start
            <3> QED BY <2>1, <3>1 DEF Start, TicketsOK, Done, queueVars
      <2>2. CASE Settle(w)
            <3>1. job[w] \in Tickets /\ future[job[w]] = "running"
                  BY <2>2 DEF Settle, WorkersOK
            <3> QED BY <2>2, <3>1 DEF Settle, TicketsOK, Done, queueVars
      <2>3. CASE CallBack(w)
            <3>1. job[w] \in Tickets /\ future[job[w]] \in {"finished", "failed"}
                  BY <2>3 DEF CallBack, WorkersOK
            <3> QED BY <2>3, <3>1 DEF CallBack, RunHook, TicketsOK, Done
      <2>4. CASE Skip(w) \/ DecodeReturns(w) \/ DecodeRaises(w) \/ Count(w)
            BY <1>1, <2>4 DEF Skip, DecodeReturns, DecodeRaises, Count, poolVars, queueVars
      <2> QED BY <1>6, <2>1, <2>2, <2>3, <2>4 DEF Work
<1>7. CASE Quiet \/ UNCHANGED vars
      BY <1>1, <1>7 DEF Quiet, vars, poolVars, queueVars
<1> QED BY <1>2, <1>3, <1>4, <1>5, <1>6, <1>7 DEF Next

(* A producer alone has the batch it is enqueuing: nobody else adds its    *)
(* callback, and nobody takes its ticket.                                  *)
LEMMA ProducersStep == Shapes /\ Ownership /\ [Next]_vars => ProducersOK'
<1> SUFFICES ASSUME Shapes, Ownership, [Next]_vars PROVE ProducersOK'
    OBVIOUS
<1> USE TicketFacts, CastAssumption
    DEF Ownership, Shapes, Clients, Enqueuing, Handing, Registering, Hooking
<1>1. ASSUME UNCHANGED <<nextTicket, future, hook>>,
             \A p \in Producers : pc'[p] = pc[p] /\ mine'[p] = mine[p]
      PROVE  ProducersOK'
      BY <1>1 DEF ProducersOK
<1>2. ASSUME NEW p \in Producers, Produce(p) PROVE ProducersOK'
      <2>1. CASE Number(p)
            BY <2>1 DEF Number, Goto, TicketsOK, ProducersOK, poolVars
      <2>2. CASE HandToPool(p)
            BY <2>2 DEF HandToPool, Goto, ProducersOK, queueVars
      <2>3. CASE AddHook(p)
            BY <2>3 DEF AddHook, RunHook, Goto, Leave, ProducersOK
      <2>4. CASE Enter(p, "numbering") \/ Enter(p, "s_numbering")
            BY <2>4 DEF Enter, Goto, ProducersOK, queueVars, poolVars
      <2>5. CASE Register(p)
            BY <2>5 DEF Register, Goto, ProducersOK, poolVars
      <2>6. CASE PoolRefuses(p) \/ Claim(p)
            BY <2>6 DEF PoolRefuses, Claim, Goto, Leave, ProducersOK, queueVars, poolVars
      <2> QED BY <1>2, <2>1, <2>2, <2>3, <2>4, <2>5, <2>6 DEF Produce
<1>3. ASSUME NEW c \in Consumers, Consume(c) PROVE ProducersOK'
      BY <1>1, <1>3 DEF Consume, PickOldest, PickTicket, Pick, Wake, TimeOut, CheckFailed, Collect,
                        Goto, Leave, poolVars, queueVars
<1>4. ASSUME NEW o \in Owners, Own(o) PROVE ProducersOK'
      <2>1. ASSUME NEW t \in Tickets, Cancel(o, t) PROVE ProducersOK'
            <3>1. UNCHANGED <<nextTicket, hook>>
                  BY <2>1 DEF Cancel, queueVars
            <3>2. \A p \in Producers : pc'[p] = pc[p] /\ mine'[p] = mine[p]
                  BY <2>1 DEF Cancel, Goto
            <3>3. \A u \in Tickets : (future'[u] = "none") <=> (future[u] = "none")
                  BY <2>1, CancelEffect
            <3> QED BY <3>1, <3>2, <3>3 DEF ProducersOK
      <2>2. CASE Drop(o)
            <3>1. mine[o] \in Tickets /\ hook[mine[o]] = "set"
                  BY <2>2 DEF Drop, OwnersOK
            <3>2. \A p \in Producers : pc'[p] = pc[p] /\ mine'[p] = mine[p]
                  BY <2>2 DEF Drop, Goto
            <3> QED BY <2>2, <3>1, <3>2 DEF Drop, RunHook, ProducersOK
      <2>3. CASE Reset(o) \/ EndReset(o)
            BY <1>1, <2>3 DEF Reset, EndReset, Goto, Leave, poolVars, queueVars
      <2> QED BY <1>4, <2>1, <2>2, <2>3 DEF Own
<1>5. ASSUME NEW k \in Closers, Finalise(k) PROVE ProducersOK'
      BY <1>1, <1>5 DEF Finalise, Close, ShutDown, Join, Goto, Leave, poolVars, queueVars
<1>6. ASSUME NEW w \in Workers, Work(w) PROVE ProducersOK'
      <2>1. CASE Start(w)
            <3>1. Head(workQueue) \in Tickets /\ future[Head(workQueue)] = "pending"
                  BY <2>1 DEF Start
            <3> QED BY <2>1, <3>1 DEF Start, ProducersOK, queueVars
      <2>2. CASE Settle(w)
            <3>1. job[w] \in Tickets /\ future[job[w]] = "running"
                  BY <2>2 DEF Settle, WorkersOK
            <3> QED BY <2>2, <3>1 DEF Settle, ProducersOK, queueVars
      <2>3. CASE CallBack(w)
            BY <2>3 DEF CallBack, RunHook, ProducersOK
      <2>4. CASE Skip(w) \/ DecodeReturns(w) \/ DecodeRaises(w) \/ Count(w)
            BY <1>1, <2>4 DEF Skip, DecodeReturns, DecodeRaises, Count, poolVars, queueVars
      <2> QED BY <1>6, <2>1, <2>2, <2>3, <2>4 DEF Work
<1>7. CASE Quiet \/ UNCHANGED vars
      BY <1>1, <1>7 DEF Quiet, vars, poolVars, queueVars
<1> QED BY <1>2, <1>3, <1>4, <1>5, <1>6, <1>7 DEF Next

(* A reset alone runs the callback of a batch it cancelled.                *)
LEMMA OwnersStep == Shapes /\ Ownership /\ [Next]_vars => OwnersOK'
<1> SUFFICES ASSUME Shapes, Ownership, [Next]_vars PROVE OwnersOK'
    OBVIOUS
<1> USE TicketFacts, CastAssumption DEF Ownership, Shapes, Clients
<1>1. ASSUME UNCHANGED <<future, hook>>,
             \A o \in Owners : pc'[o] = pc[o] /\ mine'[o] = mine[o]
      PROVE  OwnersOK'
      BY <1>1 DEF OwnersOK
<1>2. ASSUME NEW p \in Producers, Produce(p) PROVE OwnersOK'
      <2>1. CASE HandToPool(p)
            <3>1. mine[p] \in Tickets /\ future[mine[p]] = "none"
                  BY <2>1 DEF HandToPool, ProducersOK, Enqueuing, Handing
            <3> QED BY <2>1, <3>1 DEF HandToPool, Goto, OwnersOK
      <2>2. CASE AddHook(p)
            <3>1. mine[p] \in Tickets /\ hook[mine[p]] = "unset"
                  BY <2>2 DEF AddHook, ProducersOK, Enqueuing, Hooking
            <3>2. \A o \in Owners : pc'[o] = pc[o] /\ mine'[o] = mine[o]
                  BY <2>2 DEF AddHook, Goto, Leave
            <3>3. \A t \in Tickets : t # mine[p] => hook'[t] = hook[t]
                  BY <2>2 DEF AddHook, RunHook
            <3>4. UNCHANGED future
                  BY <2>2 DEF AddHook
            <3> QED BY <3>1, <3>2, <3>3, <3>4 DEF OwnersOK
      <2>3. CASE ~HandToPool(p) /\ ~AddHook(p)
            BY <1>1, <1>2, <2>3 DEF Produce, Enter, Number, PoolRefuses, Register, Claim,
                                    Goto, Leave, poolVars
      <2> QED BY <2>1, <2>2, <2>3
<1>3. ASSUME NEW c \in Consumers, Consume(c) PROVE OwnersOK'
      BY <1>1, <1>3 DEF Consume, PickOldest, PickTicket, Pick, Wake, TimeOut, CheckFailed, Collect,
                        Goto, Leave, poolVars
<1>4. ASSUME NEW o \in Owners, Own(o) PROVE OwnersOK'
      <2>1. ASSUME NEW t \in Tickets, Cancel(o, t) PROVE OwnersOK'
            <3>1. CASE future[t] = "pending" /\ hook[t] = "set"
                  <4>1. /\ future' = [future EXCEPT ![t] = "cancelled"]
                        /\ pc' = [pc EXCEPT ![o] = "dropping"]
                        /\ mine' = [mine EXCEPT ![o] = t]
                        /\ UNCHANGED hook
                        BY <2>1, <3>1 DEF Cancel, Goto
                  <4> QED BY <3>1, <4>1 DEF OwnersOK
            <3>2. CASE ~(future[t] = "pending" /\ hook[t] = "set")
                  <4>1. UNCHANGED <<pc, mine, hook>>
                        BY <2>1, <3>2 DEF Cancel
                  <4>2. \A u \in Tickets : future[u] = "cancelled" => future'[u] = "cancelled"
                        BY <2>1, CancelEffect
                  <4> QED BY <4>1, <4>2 DEF OwnersOK
            <3> QED BY <3>1, <3>2
      <2>2. CASE Drop(o)
            BY <2>2 DEF Drop, RunHook, Goto, OwnersOK
      <2>3. CASE Reset(o) \/ EndReset(o)
            BY <2>3 DEF Reset, EndReset, Goto, Leave, OwnersOK, poolVars
      <2> QED BY <1>4, <2>1, <2>2, <2>3 DEF Own
<1>5. ASSUME NEW k \in Closers, Finalise(k) PROVE OwnersOK'
      BY <1>1, <1>5 DEF Finalise, Close, ShutDown, Join, Goto, Leave, poolVars
<1>6. ASSUME NEW w \in Workers, Work(w) PROVE OwnersOK'
      <2>1. CASE Start(w)
            <3>1. Head(workQueue) \in Tickets /\ future[Head(workQueue)] = "pending"
                  BY <2>1 DEF Start
            <3> QED BY <2>1, <3>1 DEF Start, OwnersOK
      <2>2. CASE Settle(w)
            <3>1. job[w] \in Tickets /\ future[job[w]] = "running"
                  BY <2>2 DEF Settle, WorkersOK
            <3> QED BY <2>2, <3>1 DEF Settle, OwnersOK
      <2>3. CASE CallBack(w)
            <3>1. job[w] \in Tickets /\ future[job[w]] \in {"finished", "failed"}
                  BY <2>3 DEF CallBack, WorkersOK
            <3> QED BY <2>3, <3>1 DEF CallBack, RunHook, OwnersOK
      <2>4. CASE Skip(w) \/ DecodeReturns(w) \/ DecodeRaises(w) \/ Count(w)
            BY <1>1, <2>4 DEF Skip, DecodeReturns, DecodeRaises, Count, poolVars
      <2> QED BY <1>6, <2>1, <2>2, <2>3, <2>4 DEF Work
<1>7. CASE Quiet \/ UNCHANGED vars
      BY <1>1, <1>7 DEF Quiet, vars, poolVars
<1> QED BY <1>2, <1>3, <1>4, <1>5, <1>6, <1>7 DEF Next

LEMMA OwnershipInit == Init => Ownership
BY TicketFacts, CastAssumption, SMT
   DEF Init, Ownership, WorkersOK, PoolOK, TicketsOK, ProducersOK, OwnersOK, Done, Clients,
       Enqueuing, Handing, Registering, Hooking

LEMMA OwnershipStep == Shapes /\ Ownership /\ [Next]_vars => Ownership'
BY WorkersStep, PoolStep, TicketsStep, ProducersStep, OwnersStep DEF Ownership

-----------------------------------------------------------------------------
(***************************************************************************)
(* The in-flight counter.                                                  *)
(***************************************************************************)
LEMMA LiveFinite ==
    ASSUME Shapes
    PROVE  IsFiniteSet(Live) /\ Cardinality(Live) \in Nat
<1>1. IsFiniteSet(0 .. nextTicket - 1)
      BY FS_Interval, BoundAssumption DEF Shapes
<1>2. Live \in SUBSET (0 .. nextTicket - 1)
      BY DEF Live
<1> QED BY <1>1, <1>2, FS_Subset, FS_CardinalityType

CounterOK == inFlight \in Nat /\ InFlightExact

(* One batch counted out, and the counter lowered by one.                  *)
LEMMA CountOut ==
    ASSUME Shapes, CounterOK, NEW t \in Live,
           Live' = Live \ {t}, inFlight' = inFlight - 1
    PROVE  CounterOK'
<1>1. IsFiniteSet(Live \ {t}) /\ Cardinality(Live \ {t}) = Cardinality(Live) - 1
      BY LiveFinite, FS_RemoveElement
<1>2. Cardinality(Live \ {t}) \in Nat
      BY <1>1, FS_CardinalityType
<1> QED BY <1>1, <1>2 DEF CounterOK, InFlightExact

(* A future that was made belongs to a ticket that was given out.          *)
LEMMA MadeIsNumbered ==
    ASSUME Shapes, Ownership, NEW t \in Tickets, future[t] # "none"
    PROVE  t \in 0 .. nextTicket - 1
BY BoundAssumption DEF Shapes, Ownership, TicketsOK, Tickets

LEMMA LiveStep == Shapes /\ Ownership /\ CounterOK /\ [Next]_vars => CounterOK'
<1> SUFFICES ASSUME Shapes, Ownership, CounterOK, [Next]_vars PROVE CounterOK'
    OBVIOUS
<1> USE TicketFacts
<1>0. \A t \in 0 .. nextTicket - 1 : t \in Tickets
      BY BoundAssumption DEF Shapes, Tickets
<1>1. ASSUME UNCHANGED <<inFlight, nextTicket>>,
             \A t \in Tickets : CountedOut(t)' <=> CountedOut(t)
      PROVE  CounterOK'
      <2>1. Live' = Live
            BY <1>0, <1>1 DEF Live
      <2> QED BY <1>1, <2>1 DEF CounterOK, InFlightExact
<1>2. ASSUME UNCHANGED <<inFlight, nextTicket, future, hook, wpc, job>> PROVE CounterOK'
      BY <1>1, <1>2 DEF CountedOut, Settled
<1>3. ASSUME NEW p \in Producers, Produce(p) PROVE CounterOK'
      <2>1. CASE Number(p)
            <3>1. /\ nextTicket \in Tickets /\ nextTicket' = nextTicket + 1
                  /\ inFlight' = inFlight + 1
                  /\ UNCHANGED <<future, hook, wpc, job>>
                  BY <2>1 DEF Number, poolVars, workerVars
            <3>2. \A t \in Tickets : CountedOut(t)' <=> CountedOut(t)
                  BY <3>1 DEF CountedOut, Settled
            <3>3. future[nextTicket] = "none"
                  BY <3>1 DEF Ownership, TicketsOK, Shapes
            <3>4. ~CountedOut(nextTicket)
                  BY <3>1, <3>3 DEF CountedOut, Settled, Ownership, WorkersOK
            <3>5. Live' = Live \cup {nextTicket}
                  BY <1>0, <3>1, <3>2, <3>4, BoundAssumption DEF Live, Tickets
            <3>6. nextTicket \notin Live
                  BY DEF Live, Shapes
            <3>7. Cardinality(Live') = Cardinality(Live) + 1
                  BY <3>5, <3>6, LiveFinite, FS_AddElement
            <3> QED BY <3>1, <3>7 DEF CounterOK, InFlightExact
      <2>2. CASE HandToPool(p)
            <3>1. /\ mine[p] \in Tickets /\ future[mine[p]] = "none"
                  /\ future' = [future EXCEPT ![mine[p]] = "pending"]
                  /\ UNCHANGED <<inFlight, nextTicket, hook, wpc, job>>
                  BY <2>2 DEF HandToPool, Ownership, ProducersOK, Enqueuing, Handing, queueVars,
                              workerVars
            <3>2. \A t \in Tickets : CountedOut(t)' <=> CountedOut(t)
                  BY <3>1 DEF CountedOut, Settled, Shapes
            <3> QED BY <1>1, <3>1, <3>2
      <2>3. CASE AddHook(p)
            <3>0. PICK m \in Tickets : m = mine[p]
                  BY <2>3 DEF AddHook, Ownership, ProducersOK, Enqueuing, Hooking
            <3>1. /\ m \in 0 .. nextTicket - 1
                  /\ hook[m] = "unset"
                  /\ UNCHANGED <<nextTicket, future, wpc, job>>
                  BY <2>3, <3>0 DEF AddHook, Ownership, ProducersOK, Enqueuing, Hooking, workerVars
            <3>2. \A t \in Tickets : t # m => hook'[t] = hook[t]
                  BY <2>3, <3>0 DEF AddHook, RunHook, Shapes
            <3>3. \A t \in Tickets : t # m => (CountedOut(t)' <=> CountedOut(t))
                  BY <3>1, <3>2 DEF CountedOut, Settled
            <3>4. CASE future[m] = "cancelled"
                  <4>1. inFlight' = inFlight - 1 /\ hook'[m] = "ran"
                        BY <2>3, <3>0, <3>1, <3>4 DEF AddHook, RunHook, Done, Shapes
                  <4>2. ~CountedOut(m)
                        BY <3>1, <3>4 DEF CountedOut, Settled, Ownership, WorkersOK
                  <4>3. CountedOut(m)'
                        BY <3>1, <3>4, <4>1 DEF CountedOut
                  <4>4. m \in Live /\ Live' = Live \ {m}
                        BY <1>0, <3>1, <3>3, <4>2, <4>3 DEF Live
                  <4> QED BY <4>1, <4>4, CountOut
            <3>5. CASE future[m] # "cancelled"
                  <4>1. UNCHANGED inFlight
                        BY <2>3, <3>0, <3>5 DEF AddHook, RunHook
                  <4>2. CountedOut(m)' <=> CountedOut(m)
                        BY <3>1, <3>5 DEF CountedOut, Settled
                  <4> QED BY <1>1, <3>1, <3>3, <4>1, <4>2
            <3> QED BY <3>4, <3>5
      <2>4. CASE ~Number(p) /\ ~HandToPool(p) /\ ~AddHook(p)
            BY <1>2, <1>3, <2>4 DEF Produce, Enter, PoolRefuses, Register, Claim,
                                    queueVars, poolVars, workerVars
      <2> QED BY <2>1, <2>2, <2>3, <2>4
<1>4. ASSUME NEW c \in Consumers, Consume(c) PROVE CounterOK'
      BY <1>2, <1>4 DEF Consume, PickOldest, PickTicket, Pick, Wake, TimeOut, CheckFailed, Collect,
                        queueVars, poolVars, workerVars
<1>5. ASSUME NEW o \in Owners, Own(o) PROVE CounterOK'
      <2>1. ASSUME NEW t \in Tickets, Cancel(o, t) PROVE CounterOK'
            <3>1. UNCHANGED <<inFlight, nextTicket, hook, wpc, job>>
                  BY <2>1 DEF Cancel, queueVars, workerVars
            <3>2. ASSUME NEW u \in Tickets PROVE CountedOut(u)' <=> CountedOut(u)
                  <4>1. CASE future'[u] = future[u]
                        BY <3>1, <4>1 DEF CountedOut, Settled
                  <4>2. CASE future[u] = "pending" /\ future'[u] = "cancelled"
                        <5>1. hook[u] # "ran"
                              BY <4>2 DEF Ownership, TicketsOK, Done
                        <5> QED BY <3>1, <4>2, <5>1 DEF CountedOut, Settled
                  <4> QED BY <2>1, <4>1, <4>2, CancelEffect
            <3> QED BY <1>1, <3>1, <3>2
      <2>2. CASE Drop(o)
            <3>0. PICK m \in Tickets : m = mine[o]
                  BY <2>2 DEF Drop, Ownership, OwnersOK
            <3>1. /\ future[m] = "cancelled" /\ hook[m] = "set"
                  BY <2>2, <3>0 DEF Drop, Ownership, OwnersOK
            <3>2. /\ hook' = [hook EXCEPT ![m] = "ran"] /\ inFlight' = inFlight - 1
                  /\ UNCHANGED <<nextTicket, future, wpc, job>>
                  BY <2>2, <3>0, <3>1 DEF Drop, RunHook, workerVars
            <3>3. m \in 0 .. nextTicket - 1
                  BY <3>1, MadeIsNumbered
            <3>4. ~CountedOut(m)
                  BY <3>1 DEF CountedOut, Settled, Ownership, WorkersOK
            <3>5. CountedOut(m)'
                  BY <3>1, <3>2 DEF CountedOut, Shapes
            <3>6. \A t \in Tickets : t # m => (CountedOut(t)' <=> CountedOut(t))
                  BY <3>1, <3>2 DEF CountedOut, Settled, Shapes
            <3>7. m \in Live /\ Live' = Live \ {m}
                  BY <1>0, <3>2, <3>3, <3>4, <3>5, <3>6 DEF Live
            <3> QED BY <3>2, <3>7, CountOut
      <2>3. CASE Reset(o) \/ EndReset(o)
            BY <1>2, <2>3 DEF Reset, EndReset, queueVars, poolVars, workerVars
      <2> QED BY <1>5, <2>1, <2>2, <2>3 DEF Own
<1>6. ASSUME NEW k \in Closers, Finalise(k) PROVE CounterOK'
      BY <1>2, <1>6 DEF Finalise, Close, ShutDown, Join, queueVars, poolVars, workerVars
<1>7. ASSUME NEW w \in Workers, Work(w) PROVE CounterOK'
      <2>1. CASE Start(w)
            <3>1. /\ Head(workQueue) \in Tickets /\ future[Head(workQueue)] = "pending"
                  /\ wpc[w] = "idle" /\ job[w] = NoTicket
                  BY <2>1 DEF Start, Shapes, Ownership, WorkersOK
            <3>2. /\ future' = [future EXCEPT ![Head(workQueue)] = "running"]
                  /\ job' = [job EXCEPT ![w] = Head(workQueue)]
                  /\ wpc' = [wpc EXCEPT ![w] = "decoding"]
                  /\ UNCHANGED <<inFlight, nextTicket, hook>>
                  BY <2>1 DEF Start, queueVars
            <3>3. \A t \in Tickets : CountedOut(t)' <=> CountedOut(t)
                  BY <3>1, <3>2 DEF CountedOut, Settled, Shapes
            <3> QED BY <1>1, <3>2, <3>3
      <2>2. CASE Skip(w)
            BY <1>2, <2>2 DEF Skip, queueVars, workerVars
      <2>3. CASE DecodeReturns(w)
            <3>1. /\ wpc[w] = "decoding" /\ wpc' = [wpc EXCEPT ![w] = "counting"]
                  /\ UNCHANGED <<inFlight, nextTicket, future, hook, job>>
                  BY <2>3 DEF DecodeReturns, queueVars, poolVars
            <3>2. \A t \in Tickets : CountedOut(t)' <=> CountedOut(t)
                  BY <3>1 DEF CountedOut, Settled, Shapes
            <3> QED BY <1>1, <3>1, <3>2
      <2>4. CASE DecodeRaises(w) \/ Count(w)
            <3>1. /\ wpc[w] \in {"decoding", "counting"} /\ inFlight' = inFlight - 1
                  /\ UNCHANGED <<nextTicket, future, hook, job>>
                  BY <2>4 DEF DecodeRaises, Count, poolVars
            <3>2. \E phase \in {"answering", "failing"} : wpc' = [wpc EXCEPT ![w] = phase]
                  BY <2>4 DEF DecodeRaises, Count
            <3>3. job[w] \in Tickets /\ future[job[w]] = "running"
                  BY <3>1 DEF Shapes, Ownership, WorkersOK
            <3>4. job[w] \in 0 .. nextTicket - 1
                  BY <3>3, MadeIsNumbered
            <3>5. ~CountedOut(job[w])
                  BY <3>1, <3>3 DEF CountedOut, Settled, Ownership, WorkersOK
            <3>6. CountedOut(job[w])'
                  BY <3>1, <3>2 DEF CountedOut, Shapes
            <3>7. \A t \in Tickets : t # job[w] => (CountedOut(t)' <=> CountedOut(t))
                  BY <3>1, <3>2 DEF CountedOut, Settled, Shapes
            <3>8. job[w] \in Live /\ Live' = Live \ {job[w]}
                  BY <1>0, <3>1, <3>4, <3>5, <3>6, <3>7 DEF Live
            <3> QED BY <3>1, <3>8, CountOut
      <2>5. CASE Settle(w)
            <3>1. /\ wpc[w] \in {"answering", "failing"} /\ wpc' = [wpc EXCEPT ![w] = "calling"]
                  /\ UNCHANGED <<inFlight, nextTicket, hook, job>>
                  BY <2>5 DEF Settle, queueVars
            <3>2. job[w] \in Tickets
                  BY <3>1 DEF Shapes, Ownership, WorkersOK
            <3>3. /\ future'[job[w]] \in {"finished", "failed"}
                  /\ \A t \in Tickets : t # job[w] => future'[t] = future[t]
                  BY <2>5, <3>2 DEF Settle, Shapes
            <3>4. \A t \in Tickets : t # job[w] => (CountedOut(t)' <=> CountedOut(t))
                  BY <3>1, <3>3 DEF CountedOut, Settled, Shapes
            <3>5. CountedOut(job[w]) /\ CountedOut(job[w])'
                  BY <3>1, <3>3 DEF CountedOut, Settled
            <3> QED BY <1>1, <3>1, <3>4, <3>5
      <2>6. CASE CallBack(w)
            <3>a. job[w] \in Tickets
                  BY <2>6 DEF CallBack, Shapes, Ownership, WorkersOK
            <3>0. PICK t \in Tickets : t = job[w]
                  BY <3>a
            <3>1. future[t] \in {"finished", "failed"}
                  BY <2>6, <3>0 DEF CallBack, Ownership, WorkersOK
            <3>2. /\ wpc[w] = "calling" /\ wpc' = [wpc EXCEPT ![w] = "idle"]
                  /\ job' = [job EXCEPT ![w] = NoTicket]
                  /\ UNCHANGED <<inFlight, nextTicket, future>>
                  /\ \A u \in Tickets : u # t => hook'[u] = hook[u]
                  BY <2>6, <3>0, <3>1 DEF CallBack, RunHook, Shapes
            <3>3. \A u \in Tickets : u # t => (CountedOut(u)' <=> CountedOut(u))
                  BY <3>0, <3>2 DEF CountedOut, Settled, Shapes
            <3>4. CountedOut(t) /\ CountedOut(t)'
                  BY <3>1, <3>2 DEF CountedOut, Settled
            <3> QED BY <1>1, <3>2, <3>3, <3>4
      <2> QED BY <1>7, <2>1, <2>2, <2>3, <2>4, <2>5, <2>6 DEF Work
<1>8. CASE Quiet \/ UNCHANGED vars
      BY <1>2, <1>8 DEF Quiet, vars, queueVars, poolVars, workerVars
<1> QED BY <1>3, <1>4, <1>5, <1>6, <1>7, <1>8 DEF Next

-----------------------------------------------------------------------------
(***************************************************************************)
(* Types.                                                                  *)
(***************************************************************************)
LEMMA TypesShape == TypeOK => Shapes
BY DEF TypeOK, QueueTypes, PoolTypes, CallTypes, Shapes

LEMMA TypeInit == Init => TypeOK
<1> SUFFICES ASSUME Init PROVE TypeOK
    OBVIOUS
<1> USE BoundAssumption DEF Init
<1>1. /\ nextTicket \in 0 .. MaxTickets /\ epoch \in 0 .. MaxResets
      /\ results \subseteq Tickets /\ uncollected \in Seq(Tickets)
      /\ workQueue \in Seq(Tickets)
      OBVIOUS
<1>2. /\ latencies \in [Tickets -> Nat] /\ finishedAt \in [Tickets -> Nat]
      /\ returned \in [Tickets -> Nat] /\ raised \in [Tickets -> Nat]
      /\ born \in [Tickets -> 0 .. MaxResets]
      /\ clock \in Nat \ {0} /\ lastFinish \in Nat
      /\ inFlight \in Nat /\ depthMax \in Nat
      BY DEF NoTime
<1>3. /\ spanOpen \in BOOLEAN /\ closed \in BOOLEAN /\ shut \in BOOLEAN
      OBVIOUS
<1>4. /\ future \in [Tickets -> FutureState]
      /\ hook \in [Tickets -> {"unset", "set", "ran"}]
      /\ wpc \in [Workers -> WorkerPC]
      BY DEF FutureState, WorkerPC
<1>5. pc \in [Clients -> ClientPC] /\ \A c \in Clients : pc[c] \in PhasesOf(c)
      BY DEF ClientPC, PhasesOf
<1>6. /\ mine \in [Clients -> Tickets \cup {NoTicket}]
      /\ doomed \in [Owners -> SUBSET Tickets]
      /\ job \in [Workers -> Tickets \cup {NoTicket}]
      OBVIOUS
<1> QED BY <1>1, <1>2, <1>3, <1>4, <1>5, <1>6
       DEF TypeOK, QueueTypes, PoolTypes, CallTypes

-----------------------------------------------------------------------------
(***************************************************************************)
(* The list of uncollected batches.                                        *)
(***************************************************************************)
Distinct(list) == \A i, j \in DOMAIN list : list[i] = list[j] => i = j
Members(list) == {list[i] : i \in DOMAIN list}

(* list.remove takes one entry out of a list without repetitions.          *)
LEMMA WithoutEntry ==
    ASSUME NEW list \in Seq(Tickets), Distinct(list), NEW i \in DOMAIN list
    PROVE  /\ Without(list, list[i]) \in Seq(Tickets)
           /\ Distinct(Without(list, list[i]))
           /\ Members(Without(list, list[i])) = Members(list) \ {list[i]}
<1> DEFINE First(j) == list[j] = list[i] /\ \A k \in DOMAIN list : list[k] = list[i] => j <= k
           before == SubSeq(list, 1, i - 1)
           after == SubSeq(list, i + 1, Len(list))
           rest == before \o after
<1>0. i \in 1 .. Len(list) /\ Len(list) \in Nat /\ DOMAIN list = 1 .. Len(list)
      OBVIOUS
<1>1. \A j \in DOMAIN list : First(j) <=> j = i
      BY <1>0 DEF Distinct
<1>2. (CHOOSE j \in DOMAIN list : First(j)) = i
      BY <1>1
<1>3. Without(list, list[i]) = rest
      BY <1>2 DEF Without
<1>4. /\ before \in Seq(Tickets) /\ Len(before) = i - 1
      /\ \A k \in 1 .. i - 1 : before[k] = list[k]
      BY <1>0, SubSeqProperties
<1>5. /\ after \in Seq(Tickets) /\ Len(after) = Len(list) - i
      /\ \A k \in 1 .. Len(list) - i : after[k] = list[i + k]
      <2>1. \A k \in i + 1 .. Len(list) : list[k] \in Tickets
            BY <1>0
      <2>2. /\ after \in Seq(Tickets)
            /\ Len(after) = IF i + 1 <= Len(list) THEN Len(list) - (i + 1) + 1 ELSE 0
            /\ \A k \in 1 .. Len(list) - (i + 1) + 1 : after[k] = list[(i + 1) + k - 1]
            BY <1>0, <2>1, SubSeqProperties
      <2> QED BY <1>0, <2>2
<1> HIDE DEF before, after
<1> DEFINE old(k) == IF k < i THEN k ELSE k + 1    \* where an entry of rest was
<1>6. /\ rest \in Seq(Tickets) /\ DOMAIN rest = 1 .. Len(list) - 1
      /\ \A k \in 1 .. Len(list) - 1 : rest[k] = list[old(k)]
      <2>1. /\ rest \in Seq(Tickets) /\ Len(rest) = Len(before) + Len(after)
            /\ \A k \in 1 .. Len(before) + Len(after) :
                  rest[k] = IF k <= Len(before) THEN before[k] ELSE after[k - Len(before)]
            BY <1>4, <1>5, ConcatProperties
      <2>2. Len(before) + Len(after) = Len(list) - 1
            BY <1>0, <1>4, <1>5
      <2>3. ASSUME NEW k \in 1 .. Len(list) - 1 PROVE rest[k] = list[old(k)]
            <3>1. CASE k < i
                  <4>1. k \in 1 .. i - 1 /\ k <= Len(before)
                        BY <1>0, <1>4, <3>1
                  <4>2. rest[k] = before[k]
                        BY <2>1, <2>2, <4>1
                  <4>3. before[k] = list[k]
                        BY <1>4, <4>1
                  <4> QED BY <3>1, <4>2, <4>3
            <3>2. CASE k >= i
                  <4>1. /\ k - (i - 1) \in 1 .. Len(list) - i
                        /\ i + (k - (i - 1)) = k + 1 /\ ~(k <= Len(before)) /\ ~(k < i)
                        BY <1>0, <1>4, <3>2
                  <4>2. rest[k] = after[k - (i - 1)]
                        BY <1>4, <2>1, <2>2, <4>1
                  <4>3. after[k - (i - 1)] = list[i + (k - (i - 1))]
                        BY <1>5, <4>1
                  <4> QED BY <4>1, <4>2, <4>3
            <3>3. k < i \/ k >= i
                  BY <1>0
            <3> QED BY <3>1, <3>2, <3>3
      <2>4. DOMAIN rest = 1 .. Len(rest)
            BY <2>1
      <2> QED BY <2>1, <2>2, <2>3, <2>4
<1> HIDE DEF rest
<1>7. /\ \A k \in DOMAIN rest : old(k) \in DOMAIN list /\ old(k) # i
      /\ \A k, m \in DOMAIN rest : old(k) = old(m) => k = m
      /\ \A j \in DOMAIN list : j # i => \E k \in DOMAIN rest : old(k) = j
      <2>1. /\ \A k \in DOMAIN rest : old(k) \in DOMAIN list /\ old(k) # i
            /\ \A k, m \in DOMAIN rest : old(k) = old(m) => k = m
            BY <1>0, <1>6
      <2>2. ASSUME NEW j \in DOMAIN list, j # i PROVE \E k \in DOMAIN rest : old(k) = j
            <3>1. CASE j < i
                  BY <1>0, <1>6, <3>1
            <3>2. CASE j > i
                  <4>1. j - 1 \in DOMAIN rest /\ old(j - 1) = j
                        BY <1>0, <1>6, <3>2
                  <4> QED BY <4>1
            <3> QED BY <1>0, <2>2, <3>1, <3>2
      <2> QED BY <2>1, <2>2
<1> HIDE DEF old
<1>8. Distinct(rest)
      BY <1>6, <1>7 DEF Distinct
<1>9. Members(rest) = Members(list) \ {list[i]}
      <2>1. \A t \in Members(rest) : t \in Members(list) /\ t # list[i]
            BY <1>6, <1>7 DEF Members, Distinct
      <2>2. \A j \in DOMAIN list : j # i => list[j] \in Members(rest)
            BY <1>6, <1>7 DEF Members
      <2> QED BY <2>1, <2>2 DEF Members
<1> QED BY <1>3, <1>6, <1>8, <1>9

(* A batch between its ticket and its registration is not listed yet.      *)
ListOK ==
    /\ ListMatchesResults
    /\ \A t \in results : t < nextTicket
    /\ \A p \in Producers : pc[p] \in Handing \cup Registering => mine[p] \notin results

LEMMA ListParts ==
    ListMatchesResults <=> Members(uncollected) = results /\ Distinct(uncollected)
BY DEF ListMatchesResults, Listed, Members, Distinct

(* What taking a batch off both keeps.                                     *)
LEMMA TakeOff ==
    ASSUME uncollected \in Seq(Tickets), ListMatchesResults, NEW t \in results
    PROVE  /\ t \in Listed
           /\ Without(uncollected, t) \in Seq(Tickets)
           /\ Distinct(Without(uncollected, t))
           /\ Members(Without(uncollected, t)) = results \ {t}
<1>1. t \in Listed /\ Distinct(uncollected) /\ Members(uncollected) = results
      BY ListParts DEF ListMatchesResults
<1>2. PICK i \in DOMAIN uncollected : uncollected[i] = t
      BY <1>1 DEF Listed
<1> QED BY <1>1, <1>2, WithoutEntry

(* The two ways a batch leaves the list by itself.                         *)
LEMMA ClaimEffect ==
    ASSUME uncollected \in Seq(Tickets), ListMatchesResults, NEW p \in Producers, Claim(p)
    PROVE  /\ uncollected' \in Seq(Tickets)
           /\ results' \subseteq results
           /\ ListMatchesResults'
<1>1. CASE mine[p] \in Listed
      <2>1. mine[p] \in results
            BY <1>1 DEF ListMatchesResults
      <2>2. uncollected' = Without(uncollected, mine[p]) /\ results' = results \ {mine[p]}
            BY <1>1 DEF Claim
      <2> QED BY <2>1, <2>2, TakeOff DEF ListMatchesResults, Listed, Members, Distinct
<1>2. CASE mine[p] \notin Listed
      BY <1>2 DEF Claim, ListMatchesResults, Listed
<1> QED BY <1>1, <1>2

LEMMA CollectEffect ==
    ASSUME uncollected \in Seq(Tickets), ListMatchesResults, NEW c \in Consumers, Collect(c)
    PROVE  /\ uncollected' \in Seq(Tickets)
           /\ results' \subseteq results
           /\ ListMatchesResults'
<1>1. CASE mine[c] \in results
      <2>1. mine[c] \in Listed
            BY <1>1 DEF ListMatchesResults
      <2>2. uncollected' = Without(uncollected, mine[c]) /\ results' = results \ {mine[c]}
            BY <1>1, <2>1 DEF Collect
      <2> QED BY <1>1, <2>2, TakeOff DEF ListMatchesResults, Listed, Members, Distinct
<1>2. CASE mine[c] \notin results
      BY <1>2 DEF Collect, ListMatchesResults, Listed
<1> QED BY <1>1, <1>2

LEMMA ListStep == TypeOK /\ Ownership /\ ListOK /\ [Next]_vars => ListOK'
<1> SUFFICES ASSUME TypeOK, Ownership, ListOK, [Next]_vars PROVE ListOK'
    OBVIOUS
<1>0. /\ Shapes /\ uncollected \in Seq(Tickets) /\ results \subseteq Tickets
      /\ ListMatchesResults /\ Tickets \subseteq Nat
      /\ nextTicket \in Nat /\ mine \in [Clients -> Tickets \cup {NoTicket}]
      /\ pc \in [Clients -> ClientPC]
      BY TypesShape, TicketFacts DEF TypeOK, QueueTypes, CallTypes, ListOK
<1>a. \A p \in Producers : p \in Clients /\ p \notin Consumers \cup Owners \cup Closers
      BY CastAssumption DEF Clients
<1>1. ASSUME UNCHANGED <<uncollected, results, nextTicket>>,
             \A p \in Producers :
                \/ pc'[p] = pc[p] /\ mine'[p] = mine[p]
                \/ pc[p] \in Handing /\ mine'[p] = mine[p]
                \/ pc'[p] \notin Handing \cup Registering
      PROVE  ListOK'
      BY <1>1 DEF ListOK, ListMatchesResults, Listed
<1>2. ASSUME ListMatchesResults', results' \subseteq results, nextTicket' = nextTicket,
             \A p \in Producers :
                \/ pc'[p] = pc[p] /\ mine'[p] = mine[p]
                \/ pc'[p] \notin Handing \cup Registering
      PROVE  ListOK'
      BY <1>2 DEF ListOK
<1>3. ASSUME NEW p \in Producers, Produce(p) PROVE ListOK'
      <2> USE <1>0, <1>a
      <2>1. CASE Number(p)
            <3>1. /\ nextTicket' = nextTicket + 1 /\ UNCHANGED <<uncollected, results>>
                  /\ mine' = [mine EXCEPT ![p] = nextTicket]
                  /\ \A q \in Producers : q # p => pc'[q] = pc[q]
                  BY <2>1 DEF Number, Goto
            <3>2. ASSUME NEW t \in results PROVE t < nextTicket'
                  <4>1. t \in Nat /\ t < nextTicket
                        BY DEF ListOK
                  <4> QED BY <3>1, <4>1
            <3>3. \A q \in Producers : pc'[q] \in Handing \cup Registering => mine'[q] \notin results
                  <4>1. nextTicket \notin results /\ mine'[p] = nextTicket
                        BY <3>1 DEF ListOK
                  <4>2. \A q \in Producers : q # p => mine'[q] = mine[q]
                        BY <3>1
                  <4> QED BY <3>1, <4>1, <4>2 DEF ListOK
            <3>4. ListMatchesResults'
                  BY <3>1 DEF ListMatchesResults, Listed
            <3> QED BY <3>1, <3>2, <3>3, <3>4 DEF ListOK
      <2>2. CASE Register(p)
            <3>0. PICK m \in Tickets : m = mine[p]
                  BY <2>2 DEF Register, Ownership, ProducersOK, Enqueuing, Registering
            <3>1. /\ results' = results \cup {m} /\ uncollected' = Append(uncollected, m)
                  /\ UNCHANGED <<nextTicket, mine>> /\ pc'[p] \in Hooking
                  /\ \A q \in Producers : q # p => pc'[q] = pc[q]
                  BY <2>2, <3>0 DEF Register, Goto, Hooking
            <3>2. m \notin results /\ m < nextTicket
                  BY <2>2, <3>0 DEF Register, ListOK, Registering, Ownership, ProducersOK, Enqueuing
            <3>3. \A q \in Producers : pc[q] \in Handing \cup Registering /\ q # p => mine[q] # m
                  BY <2>2, <3>0 DEF Register, Ownership, ProducersOK, Enqueuing, Registering
            <3>4. \A i \in DOMAIN uncollected : uncollected[i] \in results
                  BY DEF ListMatchesResults, Listed
            <3>5. ListMatchesResults'
                  <4>1. /\ DOMAIN uncollected' = DOMAIN uncollected \cup {Len(uncollected) + 1}
                        /\ uncollected'[Len(uncollected) + 1] = m
                        /\ \A i \in DOMAIN uncollected : uncollected'[i] = uncollected[i]
                        /\ Len(uncollected) + 1 \notin DOMAIN uncollected
                        BY <3>1
                  <4>2. Listed' = Listed \cup {m}
                        BY <4>1 DEF Listed
                  <4>3. \A i, j \in DOMAIN uncollected' : uncollected'[i] = uncollected'[j] => i = j
                        BY <3>2, <3>4, <4>1 DEF ListMatchesResults
                  <4> QED BY <3>1, <4>2, <4>3 DEF ListMatchesResults
            <3>6. \A q \in Producers : pc'[q] \in Handing \cup Registering => mine[q] \notin results'
                  BY <3>1, <3>3 DEF ListOK, Handing, Registering, Hooking
            <3> QED BY <3>1, <3>2, <3>5, <3>6 DEF ListOK
      <2>3. CASE Claim(p)
            <3>1. \A q \in Producers : \/ pc'[q] = pc[q] /\ mine'[q] = mine[q]
                                      \/ pc'[q] \notin Handing \cup Registering
                  BY <2>3 DEF Claim, Leave, Goto, Handing, Registering
            <3> QED BY <1>2, <2>3, <3>1, ClaimEffect DEF Claim
      <2>4. CASE HandToPool(p)
            BY <1>1, <2>4 DEF HandToPool, Goto, Handing, queueVars
      <2>5. CASE Enter(p, "numbering") \/ Enter(p, "s_numbering") \/ PoolRefuses(p) \/ AddHook(p)
            BY <1>1, <2>5 DEF Enter, PoolRefuses, AddHook, Goto, Leave, Handing, Registering, queueVars
      <2> QED BY <1>3, <2>1, <2>2, <2>3, <2>4, <2>5 DEF Produce
<1>4. ASSUME NEW c \in Consumers, Consume(c) PROVE ListOK'
      <2>0. \A p \in Producers : pc'[p] = pc[p] /\ mine'[p] = mine[p]
            BY <1>0, <1>4, <1>a DEF Consume, PickOldest, PickTicket, Pick, Wake, TimeOut, CheckFailed,
                                    Collect, Goto, Leave
      <2>1. CASE Collect(c)
            BY <1>0, <1>2, <2>0, <2>1, CollectEffect DEF Collect
      <2>2. CASE ~Collect(c)
            BY <1>1, <1>4, <2>0, <2>2 DEF Consume, PickOldest, PickTicket, Pick, Wake, TimeOut,
                                         CheckFailed, queueVars
      <2> QED BY <2>1, <2>2
<1>5. ASSUME NEW o \in Owners, Own(o) PROVE ListOK'
      <2>0. \A p \in Producers : pc'[p] = pc[p] /\ mine'[p] = mine[p]
            BY <1>0, <1>5, <1>a DEF Own, Reset, Cancel, Drop, EndReset, Goto, Leave
      <2>1. CASE Reset(o)
            BY <1>2, <2>0, <2>1 DEF Reset, ListMatchesResults, Listed
      <2>2. CASE ~Reset(o)
            BY <1>1, <1>5, <2>0, <2>2 DEF Own, Cancel, Drop, EndReset, queueVars
      <2> QED BY <2>1, <2>2
<1>6. ASSUME NEW k \in Closers, Finalise(k) PROVE ListOK'
      <2>0. \A p \in Producers : pc'[p] = pc[p] /\ mine'[p] = mine[p]
            BY <1>0, <1>6, <1>a DEF Finalise, Close, ShutDown, Join, Goto, Leave
      <2> QED BY <1>1, <1>6, <2>0 DEF Finalise, Close, ShutDown, Join, queueVars
<1>7. ASSUME NEW w \in Workers, Work(w) PROVE ListOK'
      BY <1>1, <1>7 DEF Work, Start, Skip, DecodeReturns, DecodeRaises, Count, Settle, CallBack,
                        queueVars
<1>8. CASE Quiet \/ UNCHANGED vars
      BY <1>1, <1>8 DEF Quiet, vars, queueVars
<1> QED BY <1>3, <1>4, <1>5, <1>6, <1>7, <1>8 DEF Next

LEMMA QueueTypesStep ==
    TypeOK /\ Ownership /\ ListOK /\ CounterOK' /\ [Next]_vars => QueueTypes'
<1> SUFFICES ASSUME TypeOK, Ownership, ListOK, CounterOK', [Next]_vars PROVE QueueTypes'
    OBVIOUS
<1>0. inFlight' \in Nat
      BY DEF CounterOK
<1> USE <1>0, BoundAssumption DEF TypeOK, QueueTypes
<1>1. ASSUME UNCHANGED <<queueVars, statVars, givenVars, born>> PROVE QueueTypes'
      BY <1>1 DEF queueVars, statVars, givenVars
<1>2. ASSUME NEW p \in Producers, Produce(p) PROVE QueueTypes'
      <2>1. CASE Number(p)
            <3>1. nextTicket' \in 0 .. MaxTickets
                  BY <2>1 DEF Number, Tickets
            <3>2. born' \in [Tickets -> 0 .. MaxResets]
                  BY <2>1 DEF Number
            <3>3. depthMax' \in Nat /\ spanOpen' \in BOOLEAN
                  BY <2>1 DEF Number, Later
            <3> QED BY <2>1, <3>1, <3>2, <3>3 DEF Number, givenVars
      <2>2. CASE Register(p)
            <3>1. mine[p] \in Tickets
                  BY <2>2 DEF Register, Ownership, ProducersOK, Enqueuing, Registering
            <3> QED BY <2>2, <3>1 DEF Register, statVars, givenVars
      <2>3. CASE AddHook(p)
            BY <2>3 DEF AddHook, statVars, givenVars
      <2>4. CASE Claim(p)
            BY <2>4, ClaimEffect DEF Claim, ListOK, statVars, givenVars
      <2>5. CASE ~(Number(p) \/ Register(p) \/ AddHook(p) \/ Claim(p))
            BY <1>1, <1>2, <2>5 DEF Produce, Enter, HandToPool, PoolRefuses
      <2> QED BY <2>1, <2>2, <2>3, <2>4, <2>5
<1>3. ASSUME NEW c \in Consumers, Consume(c) PROVE QueueTypes'
      <2>1. CASE Collect(c)
            <3>1. returned' \in [Tickets -> Nat]
                  <4>1. CASE pc[c] = "returning"
                        <5>1. returned' = [returned EXCEPT ![mine[c]] = @ + 1]
                              BY <2>1, <4>1 DEF Collect
                        <5>2. \A u \in Tickets : returned'[u] \in Nat
                              BY <5>1
                        <5> QED BY <5>1, <5>2
                  <4>2. CASE pc[c] # "returning"
                        BY <2>1, <4>2 DEF Collect
                  <4> QED BY <4>1, <4>2
            <3>2. raised' \in [Tickets -> Nat]
                  <4>1. CASE pc[c] = "raising"
                        <5>1. raised' = [raised EXCEPT ![mine[c]] = @ + 1]
                              BY <2>1, <4>1 DEF Collect
                        <5>2. \A u \in Tickets : raised'[u] \in Nat
                              BY <5>1
                        <5> QED BY <5>1, <5>2
                  <4>2. CASE pc[c] # "raising"
                        BY <2>1, <4>2 DEF Collect
                  <4> QED BY <4>1, <4>2
            <3>5. /\ UNCHANGED <<nextTicket, epoch, inFlight, depthMax, closed, born>>
                  /\ UNCHANGED <<latencies, spanOpen, lastFinish>>
                  BY <2>1 DEF Collect, statVars
            <3>6. uncollected' \in Seq(Tickets) /\ results' \subseteq Tickets
                  BY <2>1, CollectEffect DEF ListOK
            <3> QED BY <3>1, <3>2, <3>5, <3>6
      <2>2. CASE ~Collect(c)
            BY <1>1, <1>3, <2>2 DEF Consume, PickOldest, PickTicket, Pick, Wake, TimeOut, CheckFailed
      <2> QED BY <2>1, <2>2
<1>4. ASSUME NEW o \in Owners, Own(o) PROVE QueueTypes'
      <2>1. CASE Reset(o)
            <3>1. epoch' \in 0 .. MaxResets
                  BY <2>1 DEF Reset
            <3>2. /\ results' = {} /\ uncollected' = <<>> /\ depthMax' = 0
                  /\ latencies' \in [Tickets -> Nat]
                  /\ spanOpen' = FALSE /\ lastFinish' = 0
                  BY <2>1 DEF Reset, NoTime
            <3>3. UNCHANGED <<nextTicket, closed, born, givenVars>>
                  BY <2>1 DEF Reset
            <3>4. /\ UNCHANGED <<nextTicket, closed, born, returned, raised>>
                  BY <3>3 DEF givenVars
            <3>5. uncollected' \in Seq(Tickets) /\ results' \subseteq Tickets
                  BY <3>2
            <3> QED BY <3>1, <3>2, <3>4, <3>5
      <2>2. CASE Drop(o)
            BY <2>2 DEF Drop, statVars, givenVars
      <2>3. CASE ~Reset(o) /\ ~Drop(o)
            BY <1>1, <1>4, <2>3 DEF Own, Cancel, EndReset
      <2> QED BY <2>1, <2>2, <2>3
<1>5. ASSUME NEW k \in Closers, Finalise(k) PROVE QueueTypes'
      BY <1>1, <1>5 DEF Finalise, Close, ShutDown, Join, queueVars, statVars, givenVars
<1>6. ASSUME NEW w \in Workers, Work(w) PROVE QueueTypes'
      <2>1. CASE DecodeRaises(w) \/ CallBack(w)
            BY <2>1 DEF DecodeRaises, CallBack, statVars, givenVars
      <2>2. CASE Count(w)
            <3>2. job[w] \in Tickets
                  BY <2>2 DEF Count, PoolTypes, Ownership, WorkersOK
            <3>1. latencies' \in [Tickets -> Nat]
                  <4>1. \/ latencies' = [latencies EXCEPT ![job[w]] = latencies[job[w]] + 1]
                        \/ latencies' = latencies
                        BY <2>2 DEF Count
                  <4>2. latencies \in [Tickets -> Nat]
                        OBVIOUS
                  <4>3. latencies[job[w]] + 1 \in Nat
                        <5>1. latencies[job[w]] \in Nat
                              BY <3>2, <4>2
                        <5> QED BY ONLY <5>1
                  <4>4. [latencies EXCEPT ![job[w]] = latencies[job[w]] + 1] \in [Tickets -> Nat]
                        <5> HIDE DEF TypeOK, PoolTypes, QueueTypes
                        <5> QED BY ONLY <4>2, <4>3
                  <4> QED BY ONLY <4>1, <4>2, <4>4
            <3>3. lastFinish' \in Nat
                  BY <2>2, <3>2 DEF Count, PoolTypes
            <3> QED BY <2>2, <3>1, <3>3 DEF Count, givenVars
      <2>3. CASE ~DecodeRaises(w) /\ ~CallBack(w) /\ ~Count(w)
            BY <1>1, <1>6, <2>3 DEF Work, Start, Skip, DecodeReturns, Settle
      <2> QED BY <2>1, <2>2, <2>3
<1>7. CASE Quiet \/ UNCHANGED vars
      BY <1>1, <1>7 DEF Quiet, vars
<1> QED BY <1>2, <1>3, <1>4, <1>5, <1>6, <1>7 DEF Next

LEMMA PoolTypesStep == TypeOK /\ Ownership /\ [Next]_vars => PoolTypes'
<1> SUFFICES ASSUME TypeOK, Ownership, [Next]_vars PROVE PoolTypes'
    OBVIOUS
<1> USE DEF TypeOK, PoolTypes
<1>1. ASSUME UNCHANGED <<poolVars, workerVars, clock>> PROVE PoolTypes'
      BY <1>1 DEF poolVars, workerVars
<1>2. ASSUME NEW p \in Producers, Produce(p) PROVE PoolTypes'
      <2>1. CASE HandToPool(p)
            <3>1. mine[p] \in Tickets
                  BY <2>1 DEF HandToPool, Ownership, ProducersOK, Enqueuing, Handing
            <3> QED BY <2>1, <3>1 DEF HandToPool, workerVars, FutureState
      <2>2. CASE AddHook(p)
            <3>1. hook' \in [Tickets -> {"unset", "set", "ran"}]
                  BY <2>2 DEF AddHook, RunHook
            <3> QED BY <2>2, <3>1 DEF AddHook, workerVars
      <2>3. CASE ~HandToPool(p) /\ ~AddHook(p)
            BY <1>1, <1>2, <2>3 DEF Produce, Enter, Number, PoolRefuses, Register, Claim
      <2> QED BY <2>1, <2>2, <2>3
<1>3. ASSUME NEW c \in Consumers, Consume(c) PROVE PoolTypes'
      BY <1>1, <1>3 DEF Consume, PickOldest, PickTicket, Pick, Wake, TimeOut, CheckFailed, Collect
<1>4. ASSUME NEW o \in Owners, Own(o) PROVE PoolTypes'
      <2>1. ASSUME NEW t \in Tickets, Cancel(o, t) PROVE PoolTypes'
            <3>1. future' \in [Tickets -> FutureState]
                  BY <2>1 DEF Cancel, FutureState
            <3> QED BY <2>1, <3>1 DEF Cancel, workerVars
      <2>2. CASE Drop(o)
            <3>1. hook' \in [Tickets -> {"unset", "set", "ran"}]
                  BY <2>2 DEF Drop, RunHook
            <3> QED BY <2>2, <3>1 DEF Drop, workerVars
      <2>3. CASE Reset(o) \/ EndReset(o)
            BY <1>1, <2>3 DEF Reset, EndReset
      <2> QED BY <1>4, <2>1, <2>2, <2>3 DEF Own
<1>5. ASSUME NEW k \in Closers, Finalise(k) PROVE PoolTypes'
      BY <1>1, <1>5 DEF Finalise, Close, ShutDown, Join, poolVars, workerVars
<1>6. ASSUME NEW w \in Workers, Work(w) PROVE PoolTypes'
      <2>1. CASE Start(w)
            <3>1. Head(workQueue) \in Tickets /\ Tail(workQueue) \in Seq(Tickets)
                  BY <2>1 DEF Start
            <3> QED BY <2>1, <3>1 DEF Start, FutureState, WorkerPC
      <2>2. CASE Skip(w)
            BY <2>2 DEF Skip, workerVars
      <2>3. CASE DecodeReturns(w)
            <3>0. clock \in Nat /\ finishedAt \in [Tickets -> Nat]
                  OBVIOUS
            <3>1. finishedAt' \in [Tickets -> Nat] /\ clock' \in Nat \ {0}
                  <4>1. finishedAt' = [finishedAt EXCEPT ![job[w]] = clock] /\ clock' = clock + 1
                        BY <2>3 DEF DecodeReturns
                  <4>2. clock' \in Nat /\ clock' # 0
                        BY <3>0, <4>1
                  <4>3. \A t \in Tickets : finishedAt'[t] \in Nat
                        BY <3>0, <4>1
                  <4> QED BY <3>0, <4>1, <4>2, <4>3
            <3>2. wpc' \in [Workers -> WorkerPC]
                  BY <2>3 DEF DecodeReturns, WorkerPC
            <3> QED BY <2>3, <3>1, <3>2 DEF DecodeReturns, poolVars
      <2>4. CASE DecodeRaises(w) \/ Count(w)
            BY <2>4 DEF DecodeRaises, Count, poolVars, WorkerPC
      <2>5. CASE Settle(w)
            <3>1. future' \in [Tickets -> FutureState]
                  BY <2>5 DEF Settle, FutureState
            <3> QED BY <2>5, <3>1 DEF Settle, WorkerPC
      <2>6. CASE CallBack(w)
            <3>1. hook' \in [Tickets -> {"unset", "set", "ran"}]
                  BY <2>6 DEF CallBack, RunHook
            <3> QED BY <2>6, <3>1 DEF CallBack, WorkerPC
      <2> QED BY <1>6, <2>1, <2>2, <2>3, <2>4, <2>5, <2>6 DEF Work
<1>7. CASE Quiet \/ UNCHANGED vars
      BY <1>1, <1>7 DEF Quiet, vars
<1> QED BY <1>2, <1>3, <1>4, <1>5, <1>6, <1>7 DEF Next

(* A step moves one caller, within the phases of its own operations.       *)
LEMMA PhaseStep ==
    ASSUME CallTypes, NEW c \in Clients, NEW phase \in PhasesOf(c), Goto(c, phase)
    PROVE  pc' \in [Clients -> ClientPC] /\ \A d \in Clients : pc'[d] \in PhasesOf(d)
<1>1. phase \in ClientPC
      BY DEF PhasesOf, ClientPC
<1> QED BY <1>1 DEF CallTypes, Goto

LEMMA RolePhases ==
    /\ \A p \in Producers : PhasesOf(p) = {"idle"} \cup EnqueuePC \cup SubmitPC
    /\ \A c \in Consumers : PhasesOf(c) = {"idle"} \cup GetPC
    /\ \A o \in Owners : PhasesOf(o) = {"idle"} \cup OwnerPC
    /\ \A k \in Closers : PhasesOf(k) = {"idle"} \cup ClosePC
BY CastAssumption DEF PhasesOf

LEMMA CallTypesStep == TypeOK /\ Ownership /\ ListOK /\ [Next]_vars => CallTypes'
<1> SUFFICES ASSUME TypeOK, Ownership, ListOK, [Next]_vars PROVE CallTypes'
    OBVIOUS
<1>0. /\ CallTypes /\ mine \in [Clients -> Tickets \cup {NoTicket}]
      /\ doomed \in [Owners -> SUBSET Tickets] /\ nextTicket \in Nat
      /\ results \subseteq Tickets /\ pc \in [Clients -> ClientPC]
      BY BoundAssumption DEF TypeOK, CallTypes, QueueTypes
<1>1. ASSUME UNCHANGED <<pc, mine, doomed>> PROVE CallTypes'
      BY <1>0, <1>1 DEF CallTypes
<1>2. ASSUME NEW c \in Clients, NEW phase \in PhasesOf(c), Goto(c, phase), UNCHANGED doomed,
             \/ UNCHANGED mine
             \/ \E t \in Tickets \cup {NoTicket} : mine' = [mine EXCEPT ![c] = t]
      PROVE  CallTypes'
      BY <1>0, <1>2, PhaseStep DEF CallTypes
<1>3. ASSUME NEW c \in Clients, Leave(c), UNCHANGED doomed PROVE CallTypes'
      <2>1. "idle" \in PhasesOf(c)
            BY DEF PhasesOf
      <2> QED BY <1>2, <1>3, <2>1 DEF Leave
<1>4. ASSUME NEW p \in Producers, Produce(p) PROVE CallTypes'
      <2>0. p \in Clients /\ PhasesOf(p) = {"idle"} \cup EnqueuePC \cup SubmitPC
            BY RolePhases DEF Clients
      <2>1. CASE Enter(p, "numbering") \/ Enter(p, "s_numbering")
            <3>1. "numbering" \in PhasesOf(p) /\ "s_numbering" \in PhasesOf(p)
                  BY <2>0 DEF EnqueuePC, SubmitPC
            <3> QED BY <1>2, <2>0, <2>1, <3>1 DEF Enter
      <2>2. CASE Number(p)
            <3>1. "handing" \in PhasesOf(p) /\ "s_handing" \in PhasesOf(p)
                  BY <2>0 DEF EnqueuePC, SubmitPC
            <3>2. PICK phase \in PhasesOf(p) : Goto(p, phase)
                  BY <2>2, <3>1 DEF Number
            <3>3. nextTicket \in Tickets /\ mine' = [mine EXCEPT ![p] = nextTicket] /\ UNCHANGED doomed
                  BY <2>2 DEF Number
            <3> QED BY <1>2, <2>0, <3>2, <3>3
      <2>3. CASE HandToPool(p) \/ Register(p)
            <3>1. {"registering", "s_registering", "hooking", "s_hooking"} \subseteq PhasesOf(p)
                  BY <2>0 DEF EnqueuePC, SubmitPC
            <3>2. PICK phase \in PhasesOf(p) : Goto(p, phase)
                  BY <2>3, <3>1 DEF HandToPool, Register
            <3> QED BY <1>2, <2>0, <2>3, <3>2 DEF HandToPool, Register
      <2>4. CASE PoolRefuses(p) \/ Claim(p)
            BY <1>3, <2>0, <2>4 DEF PoolRefuses, Claim
      <2>5. CASE AddHook(p)
            <3>1. "claiming" \in PhasesOf(p)
                  BY <2>0 DEF SubmitPC
            <3> QED BY <1>2, <1>3, <2>0, <2>5, <3>1 DEF AddHook
      <2> QED BY <1>4, <2>1, <2>2, <2>3, <2>4, <2>5 DEF Produce
<1>5. ASSUME NEW c \in Consumers, Consume(c) PROVE CallTypes'
      <2>0. c \in Clients /\ PhasesOf(c) = {"idle"} \cup GetPC
            BY RolePhases DEF Clients
      <2>1. {"waiting", "timedOut", "returning", "raising", "timingOut"} \subseteq PhasesOf(c)
            BY <2>0 DEF GetPC
      <2>2. ASSUME NEW t \in results, Pick(c, t) PROVE CallTypes'
            BY <1>0, <1>2, <2>0, <2>1, <2>2 DEF Pick
      <2>3. CASE Wake(c)
            BY <1>2, <1>3, <2>0, <2>1, <2>3 DEF Wake
      <2>4. CASE TimeOut(c)
            BY <1>2, <2>0, <2>1, <2>4 DEF TimeOut
      <2>5. CASE CheckFailed(c)
            BY <1>2, <1>3, <2>0, <2>1, <2>5 DEF CheckFailed
      <2>6. CASE Collect(c)
            BY <1>3, <2>0, <2>6 DEF Collect
      <2>7. CASE PickOldest(c) \/ PickTicket(c)
            BY <2>2, <2>7 DEF PickOldest, PickTicket, Pick
      <2> QED BY <1>5, <2>3, <2>4, <2>5, <2>6, <2>7 DEF Consume
<1>6. ASSUME NEW o \in Owners, Own(o) PROVE CallTypes'
      <2>0. o \in Clients /\ "cancelling" \in PhasesOf(o) /\ "dropping" \in PhasesOf(o)
            BY RolePhases DEF Clients, OwnerPC
      <2>1. CASE Reset(o)
            <3>1. doomed' \in [Owners -> SUBSET Tickets] /\ UNCHANGED mine
                  BY <1>0, <2>1 DEF Reset
            <3>2. Goto(o, "cancelling")
                  BY <2>1 DEF Reset
            <3> QED BY <1>0, <2>0, <3>1, <3>2, PhaseStep DEF CallTypes
      <2>2. ASSUME NEW t \in Tickets, Cancel(o, t) PROVE CallTypes'
            <3>1. doomed' \in [Owners -> SUBSET Tickets]
                  BY <1>0, <2>2 DEF Cancel
            <3>2. \/ UNCHANGED <<pc, mine>>
                  \/ Goto(o, "dropping") /\ mine' = [mine EXCEPT ![o] = t]
                  BY <2>2 DEF Cancel
            <3> QED BY <1>0, <2>0, <3>1, <3>2, PhaseStep DEF CallTypes
      <2>3. CASE Drop(o)
            BY <1>2, <2>0, <2>3 DEF Drop
      <2>4. CASE EndReset(o)
            BY <1>3, <2>0, <2>4 DEF EndReset
      <2> QED BY <1>6, <2>1, <2>2, <2>3, <2>4 DEF Own
<1>7. ASSUME NEW k \in Closers, Finalise(k) PROVE CallTypes'
      <2>0. k \in Clients /\ "shutting" \in PhasesOf(k) /\ "joining" \in PhasesOf(k)
            BY RolePhases DEF Clients, ClosePC
      <2>1. CASE Close(k)
            BY <1>2, <2>0, <2>1 DEF Close
      <2>2. CASE ShutDown(k)
            BY <1>2, <1>3, <2>0, <2>2 DEF ShutDown
      <2>3. CASE Join(k)
            BY <1>3, <2>0, <2>3 DEF Join
      <2> QED BY <1>7, <2>1, <2>2, <2>3 DEF Finalise
<1>8. ASSUME NEW w \in Workers, Work(w) PROVE CallTypes'
      BY <1>1, <1>8 DEF Work, Start, Skip, DecodeReturns, DecodeRaises, Count, Settle, CallBack
<1>9. CASE Quiet \/ UNCHANGED vars
      BY <1>1, <1>9 DEF Quiet, vars
<1> QED BY <1>4, <1>5, <1>6, <1>7, <1>8, <1>9 DEF Next

-----------------------------------------------------------------------------
(***************************************************************************)
(* The inductive invariant, and what it gives.                             *)
(***************************************************************************)
Inv == TypeOK /\ Ownership /\ ListOK /\ CounterOK

LEMMA InvInit == Init => Inv
<1> SUFFICES ASSUME Init PROVE Inv
    OBVIOUS
<1>1. ListOK
      BY DEF Init, ListOK, ListMatchesResults, Listed, Handing, Registering, Clients
<1>2. CounterOK
      <2>1. Live = {} /\ inFlight = 0
            BY DEF Init, Live
      <2> QED BY <2>1, FS_EmptySet DEF CounterOK, InFlightExact
<1> QED BY <1>1, <1>2, TypeInit, OwnershipInit DEF Inv

LEMMA InvStep == Inv /\ [Next]_vars => Inv'
BY TypesShape, OwnershipStep, LiveStep, ListStep, QueueTypesStep, PoolTypesStep, CallTypesStep
   DEF Inv, TypeOK

LEMMA InvAlways == Spec => []Inv
BY InvInit, InvStep, PTL DEF Spec

(* Every variable keeps its type: _in_flight is never negative, and every  *)
(* caller is inside an operation of its own.                               *)
THEOREM TypeCorrect == Spec => []TypeOK
BY InvAlways, PTL DEF Inv

(* _in_flight is the number of batches numbered and not counted out, with  *)
(* any number of enqueuers, resets and workers racing.                     *)
THEOREM CounterExact == Spec => []InFlightExact
BY InvAlways, PTL DEF Inv, CounterOK

(* _uncollected and the keys of _results are the same tickets, each listed *)
(* once: the oldest batch can always be looked up.                         *)
THEOREM ListExact == Spec => []ListMatchesResults
BY InvAlways, PTL DEF Inv, ListOK

-----------------------------------------------------------------------------
(***************************************************************************)
(* The statistics.  What a worker has still to count is not counted; what  *)
(* it has counted, if of this epoch, is in them before its future settles. *)
(***************************************************************************)
StatsOK ==
    /\ StatsMatchResults
    /\ \A t \in Tickets : born[t] <= epoch
    /\ \A w \in Workers :
          /\ wpc[w] \in {"decoding", "counting", "failing"} => latencies[job[w]] = 0
          /\ wpc[w] = "answering" /\ born[job[w]] = epoch => latencies[job[w]] = 1

(* Steps that change neither statistics nor futures.                       *)
LEMMA StatsFrame ==
    ASSUME StatsOK, UNCHANGED <<epoch, latencies, born, future, wpc, job>>
    PROVE  StatsOK'
BY DEF StatsOK, StatsMatchResults

LEMMA StatsStep == Inv /\ StatsOK /\ [Next]_vars => StatsOK'
<1> SUFFICES ASSUME Inv, StatsOK, [Next]_vars PROVE StatsOK'
    OBVIOUS
<1>0. /\ epoch \in Nat /\ born \in [Tickets -> Nat] /\ latencies \in [Tickets -> Nat]
      /\ future \in [Tickets -> FutureState] /\ wpc \in [Workers -> WorkerPC]
      /\ job \in [Workers -> Tickets \cup {NoTicket}]
      /\ WorkersOK /\ NoTicket \notin Tickets
      BY TicketFacts, BoundAssumption DEF Inv, TypeOK, QueueTypes, PoolTypes, Ownership
<1>a. \A w \in Workers : wpc[w] # "idle" => job[w] \in Tickets
      BY <1>0 DEF WorkersOK
<1>1. ASSUME NEW p \in Producers, Produce(p) PROVE StatsOK'
      <2>1. CASE Number(p)
            <3>1. nextTicket \in Tickets /\ future[nextTicket] = "none"
                  BY <2>1 DEF Number, Inv, Ownership, TicketsOK, TypeOK, QueueTypes
            <3>2. /\ born' = [born EXCEPT ![nextTicket] = epoch]
                  /\ UNCHANGED <<epoch, latencies, future, wpc, job>>
                  BY <2>1 DEF Number, poolVars, workerVars
            <3>3. \A w \in Workers : wpc[w] # "idle" => job[w] # nextTicket
                  BY <1>0, <3>1 DEF WorkersOK, WorkerPC
            <3>4. StatsMatchResults'
                  BY <1>0, <3>1, <3>2 DEF StatsOK, StatsMatchResults
            <3>5. \A t \in Tickets : born'[t] <= epoch
                  BY <1>0, <3>1, <3>2 DEF StatsOK
            <3> QED BY <1>0, <3>2, <3>3, <3>4, <3>5 DEF StatsOK
      <2>2. CASE HandToPool(p)
            <3>1. mine[p] \in Tickets /\ future[mine[p]] = "none"
                  BY <2>2 DEF HandToPool, Inv, Ownership, ProducersOK, Enqueuing, Handing
            <3>2. /\ future' = [future EXCEPT ![mine[p]] = "pending"]
                  /\ UNCHANGED <<epoch, latencies, born, wpc, job>>
                  BY <2>2 DEF HandToPool, queueVars, statVars, workerVars
            <3> QED BY <1>0, <3>1, <3>2 DEF StatsOK, StatsMatchResults
      <2>3. CASE ~Number(p) /\ ~HandToPool(p)
            BY <1>1, <2>3, StatsFrame DEF Produce, Enter, PoolRefuses, Register, AddHook, Claim,
                                          queueVars, statVars, poolVars, workerVars
      <2> QED BY <2>1, <2>2, <2>3
<1>2. ASSUME NEW c \in Consumers, Consume(c) PROVE StatsOK'
      BY <1>2, StatsFrame DEF Consume, PickOldest, PickTicket, Pick, Wake, TimeOut, CheckFailed,
                              Collect, queueVars, statVars, poolVars, workerVars
<1>3. ASSUME NEW o \in Owners, Own(o) PROVE StatsOK'
      <2>1. CASE Reset(o)
            <3>1. /\ epoch' = epoch + 1 /\ \A t \in Tickets : latencies'[t] = 0
                  /\ UNCHANGED <<born, future, wpc, job>>
                  BY <2>1 DEF Reset, poolVars, workerVars
            <3>2. \A t \in Tickets : born[t] # epoch' /\ born[t] <= epoch'
                  BY <1>0, <3>1 DEF StatsOK
            <3> QED BY <1>a, <3>1, <3>2 DEF StatsOK, StatsMatchResults
      <2>2. ASSUME NEW t \in Tickets, Cancel(o, t) PROVE StatsOK'
            <3>1. UNCHANGED <<epoch, latencies, born, wpc, job>>
                  BY <2>2 DEF Cancel, queueVars, statVars, workerVars
            <3>2. \A u \in Tickets :
                     /\ future'[u] = "finished" => future[u] = "finished"
                     /\ future[u] \in {"running", "finished"} => future'[u] = future[u]
                  BY <2>2, CancelEffect, TypesShape DEF Inv
            <3> QED BY <3>1, <3>2 DEF StatsOK, StatsMatchResults
      <2>3. CASE Drop(o) \/ EndReset(o)
            BY <2>3, StatsFrame DEF Drop, EndReset, queueVars, statVars, poolVars, workerVars
      <2> QED BY <1>3, <2>1, <2>2, <2>3 DEF Own
<1>4. ASSUME NEW k \in Closers, Finalise(k) PROVE StatsOK'
      BY <1>4, StatsFrame DEF Finalise, Close, ShutDown, Join, queueVars, statVars, poolVars, workerVars
<1>5. ASSUME NEW w \in Workers, Work(w) PROVE StatsOK'
      <2>1. CASE Start(w)
            <3>1. Head(workQueue) \in Tickets /\ future[Head(workQueue)] = "pending"
                  BY <2>1 DEF Start, Inv, TypeOK, PoolTypes
            <3>2. /\ future' = [future EXCEPT ![Head(workQueue)] = "running"]
                  /\ job' = [job EXCEPT ![w] = Head(workQueue)]
                  /\ wpc' = [wpc EXCEPT ![w] = "decoding"]
                  /\ UNCHANGED <<epoch, latencies, born>>
                  BY <2>1 DEF Start, queueVars, statVars
            <3>3. latencies[Head(workQueue)] = 0
                  BY <1>0, <3>1 DEF StatsOK, StatsMatchResults
            <3>4. StatsMatchResults'
                  BY <1>0, <3>1, <3>2 DEF StatsOK, StatsMatchResults
            <3> QED BY <1>0, <3>2, <3>3, <3>4 DEF StatsOK
      <2>2. CASE Skip(w)
            BY <2>2, StatsFrame DEF Skip, queueVars, statVars, workerVars
      <2>3. CASE DecodeReturns(w) \/ DecodeRaises(w)
            <3>1. /\ wpc[w] = "decoding" /\ UNCHANGED <<epoch, latencies, born, future, job>>
                  /\ \E phase \in {"counting", "failing"} : wpc' = [wpc EXCEPT ![w] = phase]
                  BY <2>3 DEF DecodeReturns, DecodeRaises, queueVars, statVars, poolVars
            <3> QED BY <1>0, <3>1 DEF StatsOK, StatsMatchResults
      <2>4. CASE Count(w)
            <3>0. PICK t \in Tickets : t = job[w]
                  BY <1>a, <2>4 DEF Count
            <3>1. /\ future[t] = "running" /\ latencies[t] = 0
                  /\ \A v \in Workers : job[v] = t => v = w
                  BY <1>0, <2>4, <3>0 DEF Count, WorkersOK, StatsOK
            <3>2. /\ UNCHANGED <<epoch, born, future, job>>
                  /\ wpc' = [wpc EXCEPT ![w] = "answering"]
                  BY <2>4 DEF Count, poolVars
            <3>3. latencies' = IF born[t] = epoch THEN [latencies EXCEPT ![t] = @ + 1] ELSE latencies
                  BY <2>4, <3>0 DEF Count
            <3>4. latencies'[t] = IF born[t] = epoch THEN 1 ELSE 0
                  BY <1>0, <3>1, <3>3
            <3>5. \A u \in Tickets : u # t => latencies'[u] = latencies[u]
                  BY <1>0, <3>3
            <3>6. StatsMatchResults'
                  BY <3>1, <3>2, <3>4, <3>5 DEF StatsOK, StatsMatchResults
            <3>7. \A v \in Workers :
                     /\ wpc'[v] \in {"decoding", "counting", "failing"} => latencies'[job[v]] = 0
                     /\ wpc'[v] = "answering" /\ born[job[v]] = epoch => latencies'[job[v]] = 1
                  <4>1. ASSUME NEW v \in Workers, v # w
                        PROVE  wpc'[v] = wpc[v] /\ (wpc[v] # "idle" => latencies'[job[v]] = latencies[job[v]])
                        BY <1>0, <1>a, <3>1, <3>2, <3>5, <4>1
                  <4>2. wpc'[w] = "answering" /\ (born[job[w]] = epoch => latencies'[job[w]] = 1)
                        BY <1>0, <3>0, <3>2, <3>4
                  <4> QED BY <4>1, <4>2 DEF StatsOK
            <3> QED BY <3>2, <3>6, <3>7 DEF StatsOK
      <2>5. CASE Settle(w)
            <3>0. PICK t \in Tickets : t = job[w]
                  BY <1>a, <2>5 DEF Settle
            <3>1. /\ future[t] = "running"
                  /\ wpc[w] = "answering" /\ born[t] = epoch => latencies[t] = 1
                  /\ wpc[w] = "failing" => latencies[t] = 0
                  BY <1>0, <2>5, <3>0 DEF Settle, WorkersOK, StatsOK
            <3>2. /\ UNCHANGED <<epoch, latencies, born, job>>
                  /\ wpc' = [wpc EXCEPT ![w] = "calling"]
                  /\ wpc[w] \in {"answering", "failing"}
                  /\ future' = [future EXCEPT ![t] = IF wpc[w] = "answering" THEN "finished"
                                                                           ELSE "failed"]
                  BY <2>5, <3>0 DEF Settle, queueVars, statVars
            <3>3. StatsMatchResults'
                  BY <1>0, <3>1, <3>2 DEF StatsOK, StatsMatchResults
            <3> QED BY <1>0, <3>2, <3>3 DEF StatsOK
      <2>6. CASE CallBack(w)
            <3>1. /\ UNCHANGED <<epoch, latencies, born, future>>
                  /\ wpc' = [wpc EXCEPT ![w] = "idle"] /\ job' = [job EXCEPT ![w] = NoTicket]
                  BY <2>6 DEF CallBack, statVars
            <3> QED BY <1>0, <3>1 DEF StatsOK, StatsMatchResults
      <2> QED BY <1>5, <2>1, <2>2, <2>3, <2>4, <2>5, <2>6 DEF Work
<1>6. CASE Quiet \/ UNCHANGED vars
      BY <1>6, StatsFrame DEF Quiet, vars, queueVars, statVars, poolVars, workerVars
<1> QED BY <1>1, <1>2, <1>3, <1>4, <1>5, <1>6 DEF Next

LEMMA StatsInit == Init => StatsOK
BY DEF Init, StatsOK, StatsMatchResults

(* A waiter that sees a result of this epoch finds it in the statistics,   *)
(* counted once, and a reset leaves nothing of earlier epochs in them.     *)
THEOREM StatsExact == Spec => []StatsMatchResults
<1>1. Inv /\ StatsOK /\ [Next]_vars => StatsOK'
      BY StatsStep
<1> QED BY <1>1, InvAlways, StatsInit, PTL DEF Spec, StatsOK

-----------------------------------------------------------------------------
(***************************************************************************)
(* The span of one worker.  A ticket numbered in this epoch opened it; a    *)
(* finish is later than all before it, and is counted before the next is    *)
(* read, because the one worker does both.                                 *)
(***************************************************************************)
OneWorker == \A v, w \in Workers : v = w

Ended == \A t \in Tickets : finishedAt[t] < clock

CountsInOrder ==
    \A w \in Workers : wpc[w] = "counting" =>
        \A t \in Tickets : latencies[t] > 0 => finishedAt[t] <= finishedAt[job[w]]

SpanOK ==
    /\ SpanEndsAtLastResult
    /\ \A t \in Tickets : t < nextTicket /\ born[t] = epoch => spanOpen
    /\ Ended
    /\ CountsInOrder

LEMMA SpanStep == OneWorker /\ Inv /\ StatsOK /\ SpanOK /\ [Next]_vars => SpanOK'
<1> SUFFICES ASSUME OneWorker, Inv, StatsOK, SpanOK, [Next]_vars PROVE SpanOK'
    OBVIOUS
<1>a. /\ Shapes /\ WorkersOK /\ TicketsOK /\ NoTicket \notin Tickets /\ Tickets \subseteq Nat
      BY TypesShape, TicketFacts DEF Inv, Ownership
<1>b. /\ nextTicket \in Nat /\ epoch \in Nat /\ born \in [Tickets -> Nat]
      /\ latencies \in [Tickets -> Nat] /\ lastFinish \in Nat
      BY BoundAssumption DEF Inv, TypeOK, QueueTypes
<1>c. /\ finishedAt \in [Tickets -> Nat] /\ clock \in Nat \ {0}
      /\ wpc \in [Workers -> WorkerPC] /\ job \in [Workers -> Tickets \cup {NoTicket}]
      BY DEF Inv, TypeOK, PoolTypes
<1>1. ASSUME UNCHANGED <<nextTicket, epoch, born, spanOpen, latencies, lastFinish, finishedAt, clock>>,
             \A w \in Workers : wpc'[w] = "counting" => wpc[w] = "counting" /\ job'[w] = job[w]
      PROVE  SpanOK'
      BY <1>1 DEF SpanOK, SpanEndsAtLastResult, Ended, CountsInOrder
<1>2. ASSUME NEW p \in Producers, Produce(p) PROVE SpanOK'
      <2>1. CASE Number(p)
            <3>1. /\ spanOpen' /\ UNCHANGED <<latencies, lastFinish, finishedAt, clock, wpc, job>>
                  BY <2>1 DEF Number, workerVars
            <3> QED BY <3>1 DEF SpanOK, SpanEndsAtLastResult, Ended, CountsInOrder
      <2>2. CASE ~Number(p)
            BY <1>1, <1>2, <2>2 DEF Produce, Enter, HandToPool, PoolRefuses, Register, AddHook, Claim,
                                    queueVars, statVars, workerVars
      <2> QED BY <2>1, <2>2
<1>3. ASSUME NEW c \in Consumers, Consume(c) PROVE SpanOK'
      BY <1>1, <1>3 DEF Consume, PickOldest, PickTicket, Pick, Wake, TimeOut, CheckFailed, Collect,
                        queueVars, statVars, workerVars
<1>4. ASSUME NEW o \in Owners, Own(o) PROVE SpanOK'
      <2>1. CASE Reset(o)
            <3>1. /\ epoch' = epoch + 1 /\ latencies' = [t \in Tickets |-> 0] /\ lastFinish' = NoTime
                  /\ UNCHANGED <<born, finishedAt, clock, wpc, job>>
                  BY <2>1 DEF Reset, workerVars
            <3>2. \A t \in Tickets : latencies'[t] = 0 /\ born'[t] # epoch'
                  BY <1>a, <1>b, <3>1 DEF StatsOK
            <3> QED BY <3>1, <3>2 DEF SpanOK, SpanEndsAtLastResult, Ended, CountsInOrder
      <2>2. CASE ~Reset(o)
            BY <1>1, <1>4, <2>2 DEF Own, Cancel, Drop, EndReset, queueVars, statVars, workerVars
      <2> QED BY <2>1, <2>2
<1>5. ASSUME NEW k \in Closers, Finalise(k) PROVE SpanOK'
      BY <1>1, <1>5 DEF Finalise, Close, ShutDown, Join, queueVars, statVars, workerVars
<1>6. ASSUME NEW w \in Workers, Work(w) PROVE SpanOK'
      <2>1. CASE DecodeReturns(w)
            <3>1. job[w] \in Tickets /\ latencies[job[w]] = 0
                  BY <1>a, <2>1 DEF DecodeReturns, WorkersOK, StatsOK, Shapes
            <3>2. /\ UNCHANGED <<nextTicket, epoch, born, spanOpen, latencies, lastFinish, job>>
                  /\ clock' = clock + 1 /\ finishedAt' = [finishedAt EXCEPT ![job[w]] = clock]
                  BY <2>1 DEF DecodeReturns, queueVars, statVars
            <3>3. /\ finishedAt'[job[w]] = clock
                  /\ \A t \in Tickets : t # job[w] => finishedAt'[t] = finishedAt[t]
                  BY <1>c, <3>1, <3>2
            <3>4. \A t \in Tickets : latencies[t] > 0 => finishedAt'[t] = finishedAt[t]
                  BY <3>1, <3>3
            <3>5. Ended'
                  BY <1>c, <3>2, <3>3 DEF SpanOK, Ended
            <3>6. \A t \in Tickets : latencies[t] > 0 => finishedAt'[t] <= finishedAt'[job[w]]
                  BY <1>c, <3>3, <3>4 DEF SpanOK, Ended
            <3>7. CountsInOrder'
                  BY <3>2, <3>6 DEF OneWorker, CountsInOrder
            <3>8. SpanEndsAtLastResult'
                  BY <3>2, <3>4 DEF SpanOK, SpanEndsAtLastResult
            <3> QED BY <3>2, <3>5, <3>7, <3>8 DEF SpanOK
      <2>2. CASE Count(w)
            <3>a. job[w] \in Tickets /\ future[job[w]] = "running" /\ wpc[w] = "counting"
                  BY <1>a, <2>2 DEF Count, WorkersOK, Shapes
            <3>b. ~(job[w] >= nextTicket)
                  BY <1>a, <3>a DEF TicketsOK
            <3>c. job[w] \in Nat /\ nextTicket \in Nat
                  BY <1>a, <1>b, <3>a
            <3>1. job[w] \in Tickets /\ job[w] < nextTicket
                  BY <3>a, <3>b, <3>c
            <3>2. /\ UNCHANGED <<nextTicket, epoch, born, spanOpen, finishedAt, clock, job>>
                  /\ wpc' = [wpc EXCEPT ![w] = "answering"]
                  BY <2>2 DEF Count
            <3>3. CountsInOrder'
                  <4>1. \A v \in Workers : wpc'[v] # "counting"
                        BY <1>c, <3>2 DEF OneWorker
                  <4> QED BY <4>1 DEF CountsInOrder
            <3>4. CASE born[job[w]] = epoch
                  <4>1. /\ latencies' = [latencies EXCEPT ![job[w]] = @ + 1]
                        /\ lastFinish' = finishedAt[job[w]]
                        BY <2>2, <3>4 DEF Count
                  <4>2. spanOpen
                        BY <3>1, <3>4 DEF SpanOK
                  <4>3. latencies[job[w]] \in Nat /\ latencies'[job[w]] = latencies[job[w]] + 1
                        BY <1>b, <3>1, <4>1
                  <4>4. latencies'[job[w]] > 0
                        BY <4>3
                  <4>5. finishedAt[job[w]] <= finishedAt[job[w]]
                        BY <1>c, <3>1
                  <4>6. \A t \in Tickets : latencies'[t] > 0 => t = job[w] \/ latencies[t] > 0
                        BY <1>b, <4>1
                  <4>7. \A t \in Tickets : latencies'[t] > 0 => finishedAt[t] <= finishedAt[job[w]]
                        BY <3>a, <4>5, <4>6 DEF SpanOK, CountsInOrder
                  <4>8. SpanEndsAtLastResult'
                        BY <3>1, <3>2, <4>1, <4>2, <4>4, <4>7 DEF SpanEndsAtLastResult
                  <4> QED BY <3>2, <3>3, <4>2, <4>8 DEF SpanOK, Ended
            <3>5. CASE born[job[w]] # epoch
                  <4>1. UNCHANGED <<latencies, lastFinish>>
                        BY <2>2, <3>5 DEF Count
                  <4>2. \A v \in Workers : wpc'[v] = "counting" => wpc[v] = "counting" /\ job'[v] = job[v]
                        BY <1>c, <3>2
                  <4> QED BY <1>1, <3>2, <4>1, <4>2
            <3> QED BY <3>4, <3>5
      <2>3. CASE ~DecodeReturns(w) /\ ~Count(w)
            <3>1. UNCHANGED <<nextTicket, epoch, born, spanOpen, latencies, lastFinish, finishedAt, clock>>
                  BY <1>6, <2>3 DEF Work, Start, Skip, DecodeRaises, Settle, CallBack,
                                    queueVars, statVars, workerVars
            <3>2. \A v \in Workers : wpc'[v] = "counting" => wpc[v] = "counting" /\ job'[v] = job[v]
                  BY <1>c, <1>6, <2>3 DEF Work, Start, Skip, DecodeRaises, Settle, CallBack, workerVars
            <3> QED BY <1>1, <3>1, <3>2
      <2> QED BY <2>1, <2>2, <2>3
<1>7. CASE Quiet \/ UNCHANGED vars
      BY <1>1, <1>7 DEF Quiet, vars, queueVars, statVars, workerVars
<1> QED BY <1>2, <1>3, <1>4, <1>5, <1>6, <1>7 DEF Next

LEMMA SpanInit == Init => SpanOK
BY TicketFacts DEF Init, SpanOK, SpanEndsAtLastResult, Ended, CountsInOrder, NoTime

(* With one worker, as DecoderQueue has unless it is told otherwise, the    *)
(* span stats() divides by ends at the last result of the batches counted   *)
(* since the last reset, "from the first enqueue to the last result", with  *)
(* any number of producers, collectors and resets.  The run queue_span      *)
(* shows that two workers break it.                                        *)
THEOREM SpanOfOneWorker ==
    ASSUME OneWorker
    PROVE  Spec => []SpanEndsAtLastResult
<1>1. Inv /\ StatsOK /\ [Next]_vars => StatsOK'
      BY StatsStep
<1>2. Inv /\ StatsOK /\ SpanOK /\ [Next]_vars => SpanOK'
      BY SpanStep
<1>3. SpanOK => SpanEndsAtLastResult
      BY DEF SpanOK
<1> QED BY <1>1, <1>2, <1>3, InvAlways, StatsInit, SpanInit, PTL DEF Spec

-----------------------------------------------------------------------------
(***************************************************************************)
(* The depth.  A batch counted out stays so; hence only Number, which      *)
(* raises depthMax too, lets the live batches of an epoch grow.            *)
(***************************************************************************)
LEMMA CountedOutStays ==
    ASSUME Inv, [Next]_vars, NEW t \in Tickets, CountedOut(t)
    PROVE  CountedOut(t)'
<1>0. /\ Shapes /\ WorkersOK /\ NoTicket \notin Tickets
      /\ future \in [Tickets -> FutureState] /\ wpc \in [Workers -> WorkerPC]
      /\ job \in [Workers -> Tickets \cup {NoTicket}] /\ hook \in [Tickets -> {"unset", "set", "ran"}]
      BY TypesShape, TicketFacts DEF Inv, Shapes, Ownership
<1>1. CASE UNCHANGED <<future, hook, wpc, job>>
      BY <1>1 DEF CountedOut, Settled
<1>2. ASSUME NEW p \in Producers, Produce(p) PROVE CountedOut(t)'
      <2>1. CASE HandToPool(p)
            <3>1. mine[p] \in Tickets /\ future[mine[p]] = "none"
                  BY <2>1 DEF HandToPool, Inv, Ownership, ProducersOK, Enqueuing, Handing
            <3>2. /\ future' = [future EXCEPT ![mine[p]] = "pending"] /\ UNCHANGED <<hook, wpc, job>>
                  BY <2>1 DEF HandToPool, workerVars
            <3>3. t # mine[p]
                  BY <1>0, <3>1 DEF CountedOut, Settled, WorkersOK
            <3> QED BY <1>0, <3>2, <3>3 DEF CountedOut, Settled
      <2>2. CASE AddHook(p)
            <3>1. hook'[t] = hook[t] \/ hook[t] = "unset"
                  BY <1>0, <2>2 DEF AddHook, RunHook, Inv, Ownership, ProducersOK, Enqueuing, Hooking
            <3>2. UNCHANGED <<future, wpc, job>>
                  BY <2>2 DEF AddHook, workerVars
            <3> QED BY <3>1, <3>2 DEF CountedOut, Settled
      <2>3. CASE ~HandToPool(p) /\ ~AddHook(p)
            BY <1>1, <1>2, <2>3 DEF Produce, Enter, Number, PoolRefuses, Register, Claim,
                                    poolVars, workerVars
      <2> QED BY <2>1, <2>2, <2>3
<1>3. ASSUME NEW c \in Consumers, Consume(c) PROVE CountedOut(t)'
      BY <1>1, <1>3 DEF Consume, PickOldest, PickTicket, Pick, Wake, TimeOut, CheckFailed, Collect,
                        poolVars, workerVars
<1>4. ASSUME NEW o \in Owners, Own(o) PROVE CountedOut(t)'
      <2>1. ASSUME NEW u \in Tickets, Cancel(o, u) PROVE CountedOut(t)'
            <3>1. future[t] # "pending"
                  BY <1>0 DEF CountedOut, Settled, WorkersOK
            <3>2. future'[t] = future[t] /\ UNCHANGED <<hook, wpc, job>>
                  BY <1>0, <2>1, <3>1, CancelEffect DEF Cancel, workerVars
            <3> QED BY <3>2 DEF CountedOut, Settled
      <2>2. CASE Drop(o)
            <3>1. hook'[t] = hook[t] \/ hook'[t] = "ran"
                  BY <1>0, <2>2 DEF Drop, RunHook
            <3>2. UNCHANGED <<future, wpc, job>>
                  BY <2>2 DEF Drop, workerVars
            <3> QED BY <3>1, <3>2 DEF CountedOut, Settled
      <2>3. CASE Reset(o) \/ EndReset(o)
            BY <1>1, <2>3 DEF Reset, EndReset, poolVars, workerVars
      <2> QED BY <1>4, <2>1, <2>2, <2>3 DEF Own
<1>5. ASSUME NEW k \in Closers, Finalise(k) PROVE CountedOut(t)'
      BY <1>1, <1>5 DEF Finalise, Close, ShutDown, Join, poolVars, workerVars
<1>6. ASSUME NEW w \in Workers, Work(w) PROVE CountedOut(t)'
      <2>1. CASE Start(w)
            <3>1. /\ Head(workQueue) \in Tickets /\ future[Head(workQueue)] = "pending"
                  /\ wpc[w] = "idle"
                  BY <1>0, <2>1 DEF Start, Shapes
            <3>2. /\ future' = [future EXCEPT ![Head(workQueue)] = "running"]
                  /\ job' = [job EXCEPT ![w] = Head(workQueue)]
                  /\ wpc' = [wpc EXCEPT ![w] = "decoding"]
                  /\ UNCHANGED hook
                  BY <2>1 DEF Start
            <3>3. t # Head(workQueue)
                  BY <1>0, <3>1 DEF CountedOut, Settled, WorkersOK
            <3> QED BY <1>0, <3>1, <3>2, <3>3 DEF CountedOut, Settled
      <2>2. CASE Skip(w)
            BY <1>1, <2>2 DEF Skip, workerVars
      <2>3. CASE DecodeReturns(w) \/ DecodeRaises(w) \/ Count(w)
            <3>1. /\ wpc[w] \in {"decoding", "counting"} /\ UNCHANGED <<future, hook, job>>
                  /\ \A v \in Workers : v # w => wpc'[v] = wpc[v]
                  BY <1>0, <2>3 DEF DecodeReturns, DecodeRaises, Count, poolVars
            <3> QED BY <3>1 DEF CountedOut, Settled
      <2>4. CASE Settle(w)
            <3>1. /\ \A v \in Workers : v # w => wpc'[v] = wpc[v]
                  /\ UNCHANGED <<hook, job>> /\ job[w] \in Tickets
                  BY <1>0, <2>4 DEF Settle, WorkersOK
            <3>2. \/ job[w] = t /\ future'[t] \in {"finished", "failed"}
                  \/ job[w] # t /\ future'[t] = future[t]
                  BY <1>0, <2>4, <3>1 DEF Settle
            <3> QED BY <3>1, <3>2 DEF CountedOut, Settled
      <2>5. CASE CallBack(w)
            <3>1. /\ wpc[w] = "calling" /\ UNCHANGED future
                  /\ \A v \in Workers : v # w => wpc'[v] = wpc[v] /\ job'[v] = job[v]
                  /\ hook'[t] = hook[t] \/ hook'[t] = "ran"
                  BY <1>0, <2>5 DEF CallBack, RunHook
            <3> QED BY <3>1 DEF CountedOut, Settled
      <2> QED BY <1>6, <2>1, <2>2, <2>3, <2>4, <2>5 DEF Work
<1>7. CASE Quiet \/ UNCHANGED vars
      BY <1>1, <1>7 DEF Quiet, vars, poolVars, workerVars
<1> QED BY <1>2, <1>3, <1>4, <1>5, <1>6, <1>7 DEF Next

EpochLive == {t \in Live : born[t] = epoch}

LEMMA DepthStep == Inv /\ StatsOK /\ DepthCovers /\ [Next]_vars /\ Inv' => DepthCovers'
<1> SUFFICES ASSUME Inv, StatsOK, DepthCovers, [Next]_vars, Inv' PROVE DepthCovers'
    OBVIOUS
<1>0. /\ epoch \in Nat /\ depthMax \in Nat /\ born \in [Tickets -> Nat] /\ inFlight \in Nat
      /\ nextTicket \in 0 .. MaxTickets /\ MaxTickets \in Nat
      BY BoundAssumption DEF Inv, TypeOK, QueueTypes
<1>1. /\ IsFiniteSet(EpochLive) /\ IsFiniteSet(EpochLive') /\ Cardinality(EpochLive') \in Nat
      /\ IsFiniteSet(Live') /\ Cardinality(EpochLive') <= Cardinality(Live')
      <2>1. IsFiniteSet(Live)
            BY TypesShape, LiveFinite DEF Inv
      <2>2. IsFiniteSet(Live')
            <3>1. nextTicket' \in Int /\ Live' \in SUBSET (0 .. nextTicket' - 1)
                  BY <1>0 DEF Inv, TypeOK, QueueTypes, Live
            <3>2. IsFiniteSet(0 .. nextTicket' - 1)
                  BY <3>1, FS_Interval
            <3> QED BY <3>1, <3>2, FS_Subset
      <2>3. EpochLive \in SUBSET Live /\ EpochLive' \in SUBSET Live'
            BY DEF EpochLive
      <2> QED BY <2>1, <2>2, <2>3, FS_Subset, FS_CardinalityType
<1>2. ASSUME UNCHANGED <<nextTicket, epoch, born, depthMax>> PROVE DepthCovers'
      <2>1. EpochLive' \subseteq EpochLive
            BY <1>0, <1>2, CountedOutStays DEF EpochLive, Live, Tickets
      <2>2. Cardinality(EpochLive') <= Cardinality(EpochLive)
            BY <1>1, <2>1, FS_Subset
      <2>3. Cardinality(EpochLive) <= depthMax /\ Cardinality(EpochLive) \in Nat
            BY <1>1, FS_CardinalityType DEF DepthCovers, EpochLive
      <2> QED BY <1>0, <1>1, <1>2, <2>2, <2>3 DEF DepthCovers, EpochLive
<1>3. ASSUME NEW p \in Producers, Produce(p) PROVE DepthCovers'
      <2>1. CASE Number(p)
            <3>1. depthMax' >= inFlight' /\ inFlight' = Cardinality(Live') /\ inFlight' \in Nat
                  BY <1>0, <2>1 DEF Number, Later, Inv, CounterOK, InFlightExact
            <3>2. depthMax' \in Nat
                  BY DEF Inv, TypeOK, QueueTypes
            <3> QED BY <1>1, <3>1, <3>2 DEF DepthCovers, EpochLive
      <2>2. CASE ~Number(p)
            BY <1>2, <1>3, <2>2 DEF Produce, Enter, HandToPool, PoolRefuses, Register, AddHook, Claim,
                                    queueVars
      <2> QED BY <2>1, <2>2
<1>4. ASSUME NEW c \in Consumers, Consume(c) PROVE DepthCovers'
      BY <1>2, <1>4 DEF Consume, PickOldest, PickTicket, Pick, Wake, TimeOut, CheckFailed, Collect,
                        queueVars
<1>5. ASSUME NEW o \in Owners, Own(o) PROVE DepthCovers'
      <2>1. CASE Reset(o)
            <3>1. epoch' = epoch + 1 /\ depthMax' = 0 /\ UNCHANGED born
                  BY <2>1 DEF Reset
            <3>2. \A t \in Tickets : born[t] # epoch'
                  BY <1>0, <3>1 DEF StatsOK
            <3>3. EpochLive' = {}
                  BY <1>0, <2>1, <3>1, <3>2 DEF Reset, EpochLive, Live, Tickets
            <3> QED BY <3>1, <3>3, FS_EmptySet DEF DepthCovers, EpochLive
      <2>2. CASE ~Reset(o)
            BY <1>2, <1>5, <2>2 DEF Own, Cancel, Drop, EndReset, queueVars
      <2> QED BY <2>1, <2>2
<1>6. ASSUME NEW k \in Closers, Finalise(k) PROVE DepthCovers'
      BY <1>2, <1>6 DEF Finalise, Close, ShutDown, Join, queueVars
<1>7. ASSUME NEW w \in Workers, Work(w) PROVE DepthCovers'
      BY <1>2, <1>7 DEF Work, Start, Skip, DecodeReturns, DecodeRaises, Count, Settle, CallBack,
                        queueVars
<1>8. CASE Quiet \/ UNCHANGED vars
      BY <1>2, <1>8 DEF Quiet, vars, queueVars
<1> QED BY <1>3, <1>4, <1>5, <1>6, <1>7, <1>8 DEF Next

LEMMA DepthInit == Init => DepthCovers
<1> SUFFICES ASSUME Init PROVE DepthCovers
    OBVIOUS
<1>1. {t \in Live : born[t] = epoch} = {} /\ depthMax = 0
      BY DEF Init, Live
<1> QED BY <1>1, FS_EmptySet DEF DepthCovers

(* queue_depth_max covers every batch of the present epoch in flight,      *)
(* though a reset zeroes it under batches that run on.                     *)
THEOREM DepthIsCovered == Spec => []DepthCovers
<1>1. Inv /\ StatsOK /\ DepthCovers /\ [Next]_vars /\ Inv' => DepthCovers'
      BY DepthStep
<1>2. Inv /\ StatsOK /\ [Next]_vars => StatsOK'
      BY StatsStep
<1> QED BY <1>1, <1>2, InvAlways, StatsInit, DepthInit, PTL DEF Spec

-----------------------------------------------------------------------------
(***************************************************************************)
(* The queue keeps the ledger, for any number of producers, workers,       *)
(* resets and batches and one collecting thread; and what leaves the       *)
(* results, with any number of them.                                       *)
(***************************************************************************)

-----------------------------------------------------------------------------
(***************************************************************************)
(* A batch is out when its producer has let go of it: it was registered,   *)
(* or the pool refused it.  Only what is out is collected or reset.        *)
(***************************************************************************)
Out(t) == t < nextTicket /\ ~BeingEnqueued(t)

LEMMA ResultsAreOut ==
    ASSUME Inv, NEW t \in results
    PROVE  t \in Tickets /\ Out(t)
<1>1. t \in Tickets /\ t < nextTicket
      BY DEF Inv, TypeOK, QueueTypes, ListOK
<1>2. ~BeingEnqueued(t)
      BY DEF BeingEnqueued, Inv, ListOK, Handing, Registering
<1> QED BY <1>1, <1>2 DEF Out

LetsGo(t) == \E p \in Producers : mine[p] = t /\ (PoolRefuses(p) \/ Register(p))

LEMMA Typed ==
    ASSUME Inv
    PROVE  /\ Shapes /\ nextTicket \in Nat /\ Tickets \subseteq Nat /\ results \subseteq Tickets
           /\ mine \in [Clients -> Tickets \cup {NoTicket}] /\ pc \in [Clients -> ClientPC]
           /\ future \in [Tickets -> FutureState] /\ returned \in [Tickets -> Nat]
           /\ doomed \in [Owners -> SUBSET Tickets]
<1>1. Shapes
      BY TypesShape DEF Inv
<1>2. nextTicket \in Nat /\ Tickets \subseteq Nat
      BY TicketFacts, BoundAssumption DEF Inv, TypeOK, QueueTypes
<1>3. results \subseteq Tickets /\ returned \in [Tickets -> Nat]
      BY DEF Inv, TypeOK, QueueTypes
<1>4. /\ mine \in [Clients -> Tickets \cup {NoTicket}] /\ pc \in [Clients -> ClientPC]
      /\ doomed \in [Owners -> SUBSET Tickets]
      BY DEF Inv, TypeOK, CallTypes
<1>5. future \in [Tickets -> FutureState]
      BY DEF Inv, TypeOK, PoolTypes
<1> QED BY <1>1, <1>2, <1>3, <1>4, <1>5

LEMMA ProducersApart ==
    \A p \in Producers : p \in Clients /\ p \notin Consumers \cup Owners \cup Closers
BY CastAssumption DEF Clients

(* A batch gets out by one of two steps of its producer, and stays out.    *)
LEMMA OutStep ==
    ASSUME Inv, [Next]_vars, NEW t \in Tickets
    PROVE  Out(t)' <=> Out(t) \/ LetsGo(t)
<1> DEFINE with(p) == pc[p] \in Handing \cup Registering
           alike == \A p \in Producers : with(p)' = with(p) /\ (with(p) => mine'[p] = mine[p])
<1>0. /\ mine \in [Clients -> Tickets \cup {NoTicket}] /\ pc \in [Clients -> ClientPC]
      /\ nextTicket \in Nat /\ t \in Nat
      /\ \A p \in Producers : p \in Clients /\ p \notin Consumers \cup Owners \cup Closers
      BY Typed, ProducersApart
<1>a. BeingEnqueued(t) <=> \E p \in Producers : mine[p] = t /\ with(p)
      BY DEF BeingEnqueued, Handing, Registering
<1>b. BeingEnqueued(t)' <=> \E p \in Producers : mine'[p] = t /\ with(p)'
      BY DEF BeingEnqueued, Handing, Registering
<1>1. ASSUME alike, nextTicket' = nextTicket, ~LetsGo(t) PROVE Out(t)' <=> Out(t) \/ LetsGo(t)
      BY <1>1, <1>a, <1>b DEF Out
<1>2. ASSUME NEW p \in Producers, Number(p) PROVE Out(t)' <=> Out(t) \/ LetsGo(t)
      <2>1. /\ nextTicket' = nextTicket + 1 /\ mine'[p] = nextTicket /\ with(p)' /\ ~with(p)
            /\ \A q \in Producers : q # p => mine'[q] = mine[q] /\ pc'[q] = pc[q]
            BY <1>0, <1>2 DEF Number, Goto, Handing, Registering
      <2>2. ~LetsGo(t)
            <3>1. ASSUME NEW q \in Producers, PoolRefuses(q) \/ Register(q) PROVE FALSE
                  BY <1>0, <1>2, <2>1, <3>1 DEF Number, PoolRefuses, Register, queueVars
            <3> QED BY <3>1 DEF LetsGo
      <2>3. CASE t = nextTicket
            BY <1>0, <1>b, <2>1, <2>2, <2>3 DEF Out
      <2>4. CASE t # nextTicket
            <3>1. BeingEnqueued(t)' <=> BeingEnqueued(t)
                  BY <1>a, <1>b, <2>1, <2>4
            <3>2. t < nextTicket' <=> t < nextTicket
                  BY <1>0, <2>1, <2>4
            <3> QED BY <2>2, <3>1, <3>2 DEF Out
      <2> QED BY <2>3, <2>4
<1>3. ASSUME NEW p \in Producers, PoolRefuses(p) \/ Register(p) PROVE Out(t)' <=> Out(t) \/ LetsGo(t)
      <2>1. /\ with(p) /\ ~with(p)' /\ nextTicket' = nextTicket
            /\ \A q \in Producers : q # p => mine'[q] = mine[q] /\ pc'[q] = pc[q]
            BY <1>0, <1>3 DEF PoolRefuses, Register, Goto, Leave, Handing, Registering, queueVars
      <2>2. /\ mine[p] < nextTicket
            /\ \A q \in Producers : with(q) /\ mine[q] = mine[p] => q = p
            BY <1>0, <2>1 DEF Inv, Ownership, ProducersOK, Enqueuing
      <2>3. CASE t = mine[p]
            <3>1. LetsGo(t) /\ ~BeingEnqueued(t)'
                  BY <1>3, <1>b, <2>1, <2>2, <2>3 DEF LetsGo
            <3> QED BY <2>1, <2>2, <2>3, <3>1 DEF Out
      <2>4. CASE t # mine[p]
            <3>1. BeingEnqueued(t)' <=> BeingEnqueued(t)
                  BY <1>a, <1>b, <2>1, <2>4
            <3>2. ~LetsGo(t)
                  <4>1. ASSUME NEW q \in Producers, PoolRefuses(q) \/ Register(q) PROVE q = p
                        BY <1>0, <2>1, <4>1 DEF PoolRefuses, Register, Goto, Leave
                  <4> QED BY <2>4, <4>1 DEF LetsGo
            <3> QED BY <2>1, <3>1, <3>2 DEF Out
      <2> QED BY <2>3, <2>4
<1>4. CASE ~LetsGo(t) /\ \E p \in Producers : HandToPool(p)
      <2>1. PICK p \in Producers : HandToPool(p)
            BY <1>4
      <2>2. alike /\ nextTicket' = nextTicket
            BY <1>0, <2>1 DEF HandToPool, Goto, Handing, Registering, queueVars
      <2> QED BY <1>1, <1>4, <2>2
<1>5. ASSUME NEW p \in Producers, ~LetsGo(t),
             Enter(p, "numbering") \/ Enter(p, "s_numbering") \/ AddHook(p) \/ Claim(p)
      PROVE  Out(t)' <=> Out(t) \/ LetsGo(t)
      <2>1. alike /\ nextTicket' = nextTicket
            BY <1>0, <1>5 DEF Enter, AddHook, Claim, Goto, Leave, Handing, Registering, queueVars
      <2> QED BY <1>1, <1>5, <2>1
<1>6. CASE \E p \in Producers : Produce(p)
      <2>1. PICK p \in Producers : Produce(p)
            BY <1>6
      <2>2. CASE LetsGo(t)
            BY <1>3, <2>2 DEF LetsGo
      <2> QED BY <1>2, <1>3, <1>4, <1>5, <2>1, <2>2 DEF Produce
<1>7. CASE LetsGo(t)
      BY <1>3, <1>7 DEF LetsGo
<1>8. ASSUME ~LetsGo(t), NEW c \in Consumers, Consume(c) PROVE Out(t)' <=> Out(t) \/ LetsGo(t)
      <2>1. alike /\ nextTicket' = nextTicket
            BY <1>0, <1>8 DEF Consume, PickOldest, PickTicket, Pick, Wake, TimeOut, CheckFailed, Collect, Goto, Leave,
                              queueVars
      <2> QED BY <1>1, <1>8, <2>1
<1>9. ASSUME ~LetsGo(t), NEW o \in Owners, Own(o) PROVE Out(t)' <=> Out(t) \/ LetsGo(t)
      <2>1. alike /\ nextTicket' = nextTicket
            BY <1>0, <1>9 DEF Own, Reset, Cancel, Drop, EndReset, Goto, Leave, queueVars
      <2> QED BY <1>1, <1>9, <2>1
<1>10. ASSUME ~LetsGo(t), NEW k \in Closers, Finalise(k) PROVE Out(t)' <=> Out(t) \/ LetsGo(t)
      <2>1. alike /\ nextTicket' = nextTicket
            BY <1>0, <1>10 DEF Finalise, Close, ShutDown, Join, Goto, Leave, queueVars
      <2> QED BY <1>1, <1>10, <2>1
<1>11. ASSUME ~LetsGo(t), (\E w \in Workers : Work(w)) \/ Quiet \/ UNCHANGED vars
       PROVE  Out(t)' <=> Out(t) \/ LetsGo(t)
      <2>1. UNCHANGED <<pc, mine, nextTicket>>
            BY <1>11 DEF Work, Start, Skip, DecodeReturns, DecodeRaises, Count, Settle, CallBack, Quiet, vars,
                         queueVars
      <2>2. alike
            BY <2>1
      <2> QED BY <1>1, <1>11, <2>1, <2>2
<1> QED BY <1>6, <1>7, <1>8, <1>9, <1>10, <1>11 DEF Next
(***************************************************************************)
(* What one step does to the parts of the state the ledger sees.           *)
(***************************************************************************)
(* The life of a future.  A step moves one of them, and then touches       *)
(* nothing else the ledger sees; only what a reset has in its snapshot is  *)
(* cancelled.                                                              *)
FutureMove(t) ==
    \/ future[t] = "none" /\ future'[t] = "pending"
    \/ future[t] = "pending" /\ future'[t] = "running"
    \/ future[t] = "running" /\ future'[t] \in {"finished", "failed"}
    \/ future[t] = "pending" /\ future'[t] = "cancelled" /\ \E o \in Owners : t \in doomed[o]

LEMMA FutureMoves ==
    ASSUME Inv, [Next]_vars, future' # future
    PROVE  /\ UNCHANGED <<results, returned>>
           /\ \E t \in Tickets :
                 FutureMove(t) /\ \A u \in Tickets : u # t => future'[u] = future[u]
<1>0. /\ Shapes /\ Ownership /\ future \in [Tickets -> FutureState]
      BY Typed DEF Inv
<1> DEFINE Goal == /\ UNCHANGED <<results, returned>>
                   /\ \E t \in Tickets :
                         FutureMove(t) /\ \A u \in Tickets : u # t => future'[u] = future[u]
<1>2. ASSUME NEW p \in Producers, Produce(p) PROVE Goal
      <2>1. HandToPool(p)
            BY <1>2 DEF Produce, Enter, Number, PoolRefuses, Register, AddHook, Claim, poolVars
      <2>2. mine[p] \in Tickets /\ future[mine[p]] = "none"
            BY <1>0, <2>1 DEF HandToPool, Ownership, ProducersOK, Enqueuing, Handing
      <2> QED BY <1>0, <2>1, <2>2 DEF HandToPool, FutureMove, queueVars, givenVars
<1>3. ASSUME NEW c \in Consumers, Consume(c) PROVE FALSE
      BY <1>3 DEF Consume, PickOldest, PickTicket, Pick, Wake, TimeOut, CheckFailed, Collect, poolVars
<1>4. ASSUME NEW o \in Owners, Own(o) PROVE Goal
      <2>1. PICK t \in Tickets : Cancel(o, t)
            BY <1>4 DEF Own, Reset, Drop, EndReset, poolVars
      <2>2. future[t] = "pending" /\ t \in doomed[o] /\ future' = [future EXCEPT ![t] = "cancelled"]
            BY <2>1 DEF Cancel
      <2> QED BY <1>0, <2>1, <2>2 DEF Cancel, FutureMove, queueVars, givenVars
<1>5. ASSUME NEW k \in Closers, Finalise(k) PROVE FALSE
      BY <1>5 DEF Finalise, Close, ShutDown, Join, poolVars
<1>6. ASSUME NEW w \in Workers, Work(w) PROVE Goal
      <2>1. CASE Start(w)
            <3>1. Head(workQueue) \in Tickets
                  BY <1>0, <2>1 DEF Start, Shapes
            <3> QED BY <1>0, <2>1, <3>1 DEF Start, FutureMove, queueVars, givenVars
      <2>2. CASE Settle(w)
            <3>1. job[w] \in Tickets /\ future[job[w]] = "running"
                  BY <1>0, <2>2, TicketFacts DEF Settle, Ownership, WorkersOK, Shapes
            <3> QED BY <1>0, <2>2, <3>1 DEF Settle, FutureMove, queueVars, givenVars
      <2> QED BY <1>6, <2>1, <2>2 DEF Work, Skip, DecodeReturns, DecodeRaises, Count, CallBack, poolVars
<1>7. CASE Quiet \/ UNCHANGED vars
      BY <1>7 DEF Quiet, vars, poolVars
<1> QED BY <1>2, <1>3, <1>4, <1>5, <1>6, <1>7 DEF Next

LEMMA SettledStays ==
    ASSUME Inv, [Next]_vars, NEW t \in Tickets, Settled(t)
    PROVE  future'[t] = future[t]
<1>1. CASE future' = future
      BY <1>1
<1>2. CASE future' # future
      BY <1>2, FutureMoves DEF FutureMove, Settled
<1> QED BY <1>1, <1>2

(* Only Register lists a batch.                                            *)
LEMMA NewlyListed ==
    ASSUME Inv, [Next]_vars, NEW t \in results', t \notin results
    PROVE  \E p \in Producers : mine[p] = t /\ Register(p)
<1>1. ASSUME NEW p \in Producers, Produce(p) PROVE mine[p] = t /\ Register(p)
      BY <1>1 DEF Produce, Enter, Number, HandToPool, PoolRefuses, Register, AddHook, Claim, queueVars
<1>2. ASSUME NEW c \in Consumers, Consume(c) PROVE FALSE
      BY <1>2 DEF Consume, PickOldest, PickTicket, Pick, Wake, TimeOut, CheckFailed, Collect, queueVars
<1>3. ASSUME NEW o \in Owners, Own(o) PROVE FALSE
      BY <1>3 DEF Own, Reset, Cancel, Drop, EndReset, queueVars
<1>4. ASSUME NEW k \in Closers, Finalise(k) PROVE FALSE
      BY <1>4 DEF Finalise, Close, ShutDown, Join, queueVars
<1>5. ASSUME (\E w \in Workers : Work(w)) \/ Quiet \/ UNCHANGED vars PROVE FALSE
      BY <1>5 DEF Work, Start, Skip, DecodeReturns, DecodeRaises, Count, Settle, CallBack, Quiet, vars,
                  queueVars
<1> QED BY <1>1, <1>2, <1>3, <1>4, <1>5 DEF Next

(* A batch leaves the results by the step of its submit, of a collector    *)
(* that works on it, or of a reset.                                        *)
LEMMA Unlisted ==
    ASSUME Inv, [Next]_vars, NEW t \in results, t \notin results'
    PROVE  \/ \E p \in Producers : Claim(p) /\ mine[p] = t
           \/ \E c \in Consumers : Collect(c) /\ mine[c] = t
           \/ \E o \in Owners : Reset(o)
<1>1. ASSUME NEW p \in Producers, Produce(p) PROVE Claim(p) /\ mine[p] = t
      BY <1>1 DEF Produce, Enter, Number, HandToPool, PoolRefuses, Register, AddHook, Claim, queueVars
<1>2. ASSUME NEW c \in Consumers, Consume(c) PROVE Collect(c) /\ mine[c] = t
      BY <1>2 DEF Consume, PickOldest, PickTicket, Pick, Wake, TimeOut, CheckFailed, Collect, queueVars
<1>3. ASSUME NEW o \in Owners, Own(o) PROVE Reset(o)
      BY <1>3 DEF Own, Reset, Cancel, Drop, EndReset, queueVars
<1>4. ASSUME NEW k \in Closers, Finalise(k) PROVE FALSE
      BY <1>4 DEF Finalise, Close, ShutDown, Join, queueVars
<1>5. ASSUME (\E w \in Workers : Work(w)) \/ Quiet \/ UNCHANGED vars PROVE FALSE
      BY <1>5 DEF Work, Start, Skip, DecodeReturns, DecodeRaises, Count, Settle, CallBack, Quiet, vars,
                  queueVars
<1> QED BY <1>1, <1>2, <1>3, <1>4, <1>5 DEF Next

(* What is out and not listed is never listed again.                       *)
LEMMA StaysGone ==
    ASSUME Inv, [Next]_vars, NEW t \in Tickets, Out(t), t \notin results
    PROVE  Out(t)' /\ t \notin results'
<1>1. Out(t)'
      BY OutStep
<1>2. ASSUME NEW p \in Producers, mine[p] = t, Register(p) PROVE FALSE
      BY <1>2 DEF Out, BeingEnqueued, Register
<1> QED BY <1>1, <1>2, NewlyListed

(* A collector moves by its own steps only.                                *)
LEMMA CollectorStep ==
    ASSUME Inv, [Next]_vars, NEW c \in Consumers
    PROVE  (pc'[c] = pc[c] /\ mine'[c] = mine[c]) \/ Consume(c)
<1>0. /\ mine \in [Clients -> Tickets \cup {NoTicket}] /\ pc \in [Clients -> ClientPC]
      /\ c \in Clients /\ c \notin Producers \cup Owners \cup Closers
      BY Typed, CastAssumption DEF Clients
<1>1. ASSUME NEW p \in Producers, Produce(p) PROVE pc'[c] = pc[c] /\ mine'[c] = mine[c]
      BY <1>0, <1>1 DEF Produce, Enter, Number, HandToPool, PoolRefuses, Register, AddHook, Claim, Goto, Leave
<1>2. ASSUME NEW d \in Consumers, Consume(d), d # c PROVE pc'[c] = pc[c] /\ mine'[c] = mine[c]
      BY <1>0, <1>2 DEF Consume, PickOldest, PickTicket, Pick, Wake, TimeOut, CheckFailed, Collect, Goto, Leave
<1>3. ASSUME NEW o \in Owners, Own(o) PROVE pc'[c] = pc[c] /\ mine'[c] = mine[c]
      BY <1>0, <1>3 DEF Own, Reset, Cancel, Drop, EndReset, Goto, Leave
<1>4. ASSUME NEW k \in Closers, Finalise(k) PROVE pc'[c] = pc[c] /\ mine'[c] = mine[c]
      BY <1>0, <1>4 DEF Finalise, Close, ShutDown, Join, Goto, Leave
<1>5. ASSUME (\E w \in Workers : Work(w)) \/ Quiet \/ UNCHANGED vars
      PROVE  pc'[c] = pc[c] /\ mine'[c] = mine[c]
      BY <1>5 DEF Work, Start, Skip, DecodeReturns, DecodeRaises, Count, Settle, CallBack, Quiet, vars
<1> QED BY <1>1, <1>2, <1>3, <1>4, <1>5 DEF Next

(* The snapshot a reset cancels only shrinks until its next call.          *)
LEMMA SnapshotStep ==
    ASSUME Inv, [Next]_vars, NEW o \in Owners
    PROVE  doomed'[o] \subseteq doomed[o] \/ Reset(o)
<1>0. doomed \in [Owners -> SUBSET Tickets]
      BY Typed
<1>1. ASSUME \E p \in Producers : Produce(p) PROVE UNCHANGED doomed
      BY <1>1 DEF Produce, Enter, Number, HandToPool, PoolRefuses, Register, AddHook, Claim
<1>2. ASSUME \E c \in Consumers : Consume(c) PROVE UNCHANGED doomed
      BY <1>2 DEF Consume, PickOldest, PickTicket, Pick, Wake, TimeOut, CheckFailed, Collect
<1>3. ASSUME NEW q \in Owners, Own(q), ~Reset(o) PROVE doomed'[o] \subseteq doomed[o]
      <2>1. CASE Reset(q)
            BY <1>0, <1>3, <2>1 DEF Reset
      <2>2. ASSUME NEW t \in Tickets, Cancel(q, t) PROVE doomed'[o] \subseteq doomed[o]
            BY <1>0, <2>2 DEF Cancel
      <2> QED BY <1>3, <2>1, <2>2 DEF Own, Drop, EndReset
<1>4. ASSUME (\E k \in Closers : Finalise(k)) \/ (\E w \in Workers : Work(w)) \/ Quiet \/ UNCHANGED vars
      PROVE  UNCHANGED doomed
      BY <1>4 DEF Finalise, Close, ShutDown, Join, Work, Start, Skip, DecodeReturns, DecodeRaises, Count,
                  Settle, CallBack, Quiet, vars
<1> QED BY <1>1, <1>2, <1>3, <1>4 DEF Next

(* Predictions are returned by a collector that was to return them.        *)
LEMMA ReturnedStep ==
    ASSUME Inv, [Next]_vars, returned' # returned
    PROVE  \E c \in Consumers : Collect(c) /\ pc[c] = "returning"
<1>1. ASSUME \E p \in Producers : Produce(p) PROVE FALSE
      BY <1>1 DEF Produce, Enter, Number, HandToPool, PoolRefuses, Register, AddHook, Claim, givenVars
<1>2. ASSUME NEW c \in Consumers, Consume(c) PROVE Collect(c) /\ pc[c] = "returning"
      BY <1>2 DEF Consume, PickOldest, PickTicket, Pick, Wake, TimeOut, CheckFailed, Collect, givenVars
<1>3. ASSUME \E o \in Owners : Own(o) PROVE FALSE
      BY <1>3 DEF Own, Reset, Cancel, Drop, EndReset, givenVars
<1>4. ASSUME (\E k \in Closers : Finalise(k)) \/ (\E w \in Workers : Work(w)) \/ Quiet \/ UNCHANGED vars
      PROVE  FALSE
      BY <1>4 DEF Finalise, Close, ShutDown, Join, Work, Start, Skip, DecodeReturns, DecodeRaises, Count,
                  Settle, CallBack, Quiet, vars, givenVars
<1> QED BY <1>1, <1>2, <1>3, <1>4 DEF Next

-----------------------------------------------------------------------------
(***************************************************************************)
(* What the collectors and the resets hold.                                *)
(***************************************************************************)
(* A collector works on a batch that is out, and knows how it ended.       *)
CollectorsOK ==
    \A c \in Consumers :
        pc[c] \in GetPC =>
            \E t \in Tickets :
                /\ mine[c] = t /\ Out(t)
                /\ pc[c] = "returning" => future[t] = "finished"
                /\ pc[c] \in {"raising", "timingOut"} => future[t] = "failed"

(* A reset cancels batches that left the results and do not come back.     *)
ResetsOK == \A o \in Owners : \A t \in doomed[o] : Out(t) /\ t \notin results

Held == CollectorsOK /\ ResetsOK

LEMMA CollectorsStep == Inv /\ CollectorsOK /\ [Next]_vars => CollectorsOK'
<1> SUFFICES ASSUME Inv, CollectorsOK, [Next]_vars, NEW c \in Consumers, pc'[c] \in GetPC
             PROVE  \E t \in Tickets :
                        /\ mine'[c] = t /\ Out(t)'
                        /\ pc'[c] = "returning" => future'[t] = "finished"
                        /\ pc'[c] \in {"raising", "timingOut"} => future'[t] = "failed"
    BY DEF CollectorsOK
<1>0. /\ mine \in [Clients -> Tickets \cup {NoTicket}] /\ pc \in [Clients -> ClientPC] /\ c \in Clients
      /\ results \subseteq Tickets
      BY Typed DEF Clients
<1>1. CASE pc'[c] = pc[c] /\ mine'[c] = mine[c]
      <2>1. PICK t \in Tickets :
                /\ mine[c] = t /\ Out(t)
                /\ pc[c] = "returning" => future[t] = "finished"
                /\ pc[c] \in {"raising", "timingOut"} => future[t] = "failed"
            BY <1>1 DEF CollectorsOK
      <2>2. Out(t)'
            BY <2>1, OutStep
      <2>3. future[t] \in {"finished", "failed"} => future'[t] = future[t]
            BY SettledStays DEF Settled
      <2> QED BY <1>1, <2>1, <2>2, <2>3
<1>2. CASE Consume(c)
      <2>1. ASSUME NEW t \in Tickets, Pick(c, t)
            PROVE  pc'[c] = "waiting" /\ mine'[c] = t /\ Out(t)'
            <3>1. pc'[c] = "waiting" /\ mine'[c] = t /\ t \in results
                  BY <1>0, <2>1 DEF Pick, Goto
            <3>2. Out(t)'
                  BY <3>1, ResultsAreOut, OutStep
            <3> QED BY <3>1, <3>2
      <2>2. CASE PickOldest(c)
            <3>1. Head(uncollected) \in Tickets
                  BY <2>2, <1>0 DEF PickOldest, Pick
            <3> QED BY <2>1, <2>2, <3>1 DEF PickOldest
      <2>3. CASE PickTicket(c)
            BY <2>1, <2>3 DEF PickTicket
      <2>4. CASE Wake(c) \/ TimeOut(c) \/ CheckFailed(c)
            <3>1. /\ pc[c] \in GetPC /\ mine'[c] = mine[c] /\ UNCHANGED future
                  /\ pc'[c] = "returning" => future[mine[c]] = "finished"
                  /\ pc'[c] \in {"raising", "timingOut"} => future[mine[c]] = "failed"
                  BY <1>0, <2>4 DEF Wake, TimeOut, CheckFailed, Goto, Leave, GetPC, poolVars
            <3>2. PICK t \in Tickets : mine[c] = t /\ Out(t)
                  BY <3>1 DEF CollectorsOK
            <3>3. Out(t)'
                  BY <3>2, OutStep
            <3> QED BY <3>1, <3>2, <3>3
      <2>5. CASE Collect(c)
            BY <1>0, <2>5 DEF Collect, Goto, Leave, GetPC
      <2> QED BY <1>2, <2>1, <2>2, <2>3, <2>4, <2>5 DEF Consume
<1> QED BY <1>1, <1>2, CollectorStep

LEMMA ResetsStep == Inv /\ ResetsOK /\ [Next]_vars => ResetsOK'
<1> SUFFICES ASSUME Inv, ResetsOK, [Next]_vars, NEW o \in Owners, NEW t \in doomed'[o]
             PROVE  Out(t)' /\ t \notin results'
    BY DEF ResetsOK
<1>0. doomed \in [Owners -> SUBSET Tickets]
      BY Typed
<1>1. CASE t \in doomed[o]
      BY <1>0, <1>1, StaysGone DEF ResetsOK
<1>2. CASE Reset(o)
      <2>1. t \in results /\ results' = {}
            BY <1>0, <1>2 DEF Reset
      <2> QED BY <2>1, ResultsAreOut, OutStep
<1> QED BY <1>1, <1>2, SnapshotStep

LEMMA HeldInit == Init => Held
BY DEF Init, Held, CollectorsOK, ResetsOK, GetPC, Clients

LEMMA HeldAlways == Spec => []Held
<1>1. Inv /\ Held /\ [Next]_vars => Held'
      BY CollectorsStep, ResetsStep DEF Held
<1> QED BY <1>1, InvAlways, HeldInit, PTL DEF Spec

(* A batch leaves _results only by a reset, by its own submit, or once its *)
(* decode has settled, however many threads collect it, time out on it or  *)
(* are interrupted.                                                        *)
THEOREM SettledWhenCollected == Spec => LeavesSettled
<1>1. ASSUME Inv, Held, [Next]_vars, NEW t \in results \ results'
      PROVE  \/ epoch' # epoch
             \/ Settled(t)
             \/ \E p \in Producers : pc[p] = "claiming" /\ mine[p] = t
      <2>0. epoch \in Nat
            BY <1>1, BoundAssumption DEF Inv, TypeOK, QueueTypes
      <2>1. ASSUME NEW p \in Producers, Claim(p), mine[p] = t PROVE pc[p] = "claiming"
            BY <2>1 DEF Claim
      <2>2. ASSUME NEW c \in Consumers, Collect(c), mine[c] = t PROVE Settled(t)
            BY <1>1, <2>2 DEF Collect, Held, CollectorsOK, GetPC, Settled
      <2>3. ASSUME NEW o \in Owners, Reset(o) PROVE epoch' # epoch
            BY <2>0, <2>3 DEF Reset
      <2> QED BY <1>1, <2>1, <2>2, <2>3, Unlisted
<1> DEFINE Leaves == \A t \in results \ results' :
                        \/ epoch' # epoch
                        \/ Settled(t)
                        \/ \E p \in Producers : pc[p] = "claiming" /\ mine[p] = t
<1>2. Inv /\ Held /\ [Next]_vars => [Leaves]_vars
      BY <1>1
<1>3. Spec => [][Leaves]_vars
      BY <1>2, InvAlways, HeldAlways, PTL DEF Spec
<1> QED BY <1>3 DEF LeavesSettled

-----------------------------------------------------------------------------
(***************************************************************************)
(* One collecting thread.  What it returned it never has again: the batch  *)
(* left the results with it, and nobody else had picked it.                *)
(***************************************************************************)
GivenOK ==
    \A t \in Tickets :
        returned[t] > 0 =>
            /\ Out(t) /\ t \notin results
            /\ \A c \in Consumers : pc[c] \in GetPC => mine[c] # t

LEMMA GivenStep ==
    ASSUME \A c, d \in Consumers : c = d, Inv, Held, GivenOK, [Next]_vars
    PROVE  GivenOK'
<1> SUFFICES ASSUME NEW t \in Tickets, returned'[t] > 0
             PROVE  /\ Out(t)' /\ t \notin results'
                    /\ \A c \in Consumers : pc'[c] \in GetPC => mine'[c] # t
    BY DEF GivenOK
<1>0. /\ mine \in [Clients -> Tickets \cup {NoTicket}] /\ pc \in [Clients -> ClientPC]
      /\ returned \in [Tickets -> Nat] /\ Consumers \subseteq Clients
      BY Typed DEF Clients
<1>1. CASE returned[t] > 0
      <2>1. Out(t)' /\ t \notin results'
            BY <1>1, StaysGone DEF GivenOK
      <2>2. ASSUME NEW c \in Consumers, Consume(c), pc'[c] \in GetPC
            PROVE  (pc[c] \in GetPC /\ mine'[c] = mine[c]) \/ mine'[c] \in results
            BY <1>0, <2>2 DEF Consume, PickOldest, PickTicket, Pick, Wake, TimeOut, CheckFailed, Collect,
                              Goto, Leave, GetPC
      <2> QED BY <1>1, <2>1, <2>2, CollectorStep DEF GivenOK
<1>2. CASE ~(returned[t] > 0)
      <2>1. PICK c \in Consumers : Collect(c) /\ pc[c] = "returning"
            BY <1>2, ReturnedStep
      <2>2. mine[c] = t /\ pc'[c] = "idle" /\ t \notin results'
            BY <1>0, <1>2, <2>1 DEF Collect, Leave, Goto
      <2>3. Out(t)'
            BY <2>1, <2>2, OutStep DEF Held, CollectorsOK, GetPC
      <2> QED BY <2>2, <2>3 DEF GetPC
<1> QED BY <1>1, <1>2

-----------------------------------------------------------------------------
(***************************************************************************)
(* The ledger's variables, batch by batch.                                 *)
(***************************************************************************)
LEMMA ListingIs ==
    ASSUME Inv, Inv', NEW t \in Tickets
    PROVE  /\ ListingOf(t) = IF Out(t) THEN IF t \in results THEN "listed" ELSE "gone" ELSE "new"
           /\ ListingOf(t)' = IF Out(t)' THEN IF t \in results' THEN "listed" ELSE "gone" ELSE "new"
<1>1. t \in Nat
      BY TicketFacts
<1>2. nextTicket \in Nat /\ nextTicket' \in Nat
      BY BoundAssumption DEF Inv, TypeOK, QueueTypes
<1> QED BY <1>1, <1>2 DEF ListingOf, Out

(* One batch's fate, or its listing, moves and the others' do not.         *)
LEMMA FateMoves ==
    ASSUME NEW t \in Tickets, \A u \in Tickets : u # t => future'[u] = future[u],
           NEW from, NEW to, FateOf(t) = from, FateOf(t)' = to
    PROVE  Ledger!Become(t, from, to)
<1>1. \A u \in Tickets : u # t => FateOf(u)' = FateOf(u)
      BY DEF FateOf
<1> QED BY <1>1 DEF Ledger!Become

LEMMA ListingMoves ==
    ASSUME NEW t \in Tickets, \A u \in Tickets : u # t => ListingOf(u)' = ListingOf(u),
           NEW from, NEW to, ListingOf(t) = from, ListingOf(t)' = to
    PROVE  Ledger!Relist(t, from, to)
BY DEF Ledger!Relist

LEMMA FateStill ==
    ASSUME UNCHANGED future
    PROVE  [t \in Tickets |-> FateOf(t)]' = [t \in Tickets |-> FateOf(t)]
BY DEF FateOf

LEMMA AnsweredStill ==
    ASSUME UNCHANGED returned
    PROVE  {t \in Tickets : returned[t] > 0}' = {t \in Tickets : returned[t] > 0}
OBVIOUS

(* The producer that lets go of a batch does only that.                    *)
LEMMA LettingGo ==
    ASSUME Inv, NEW t \in Tickets, LetsGo(t)
    PROVE  /\ UNCHANGED <<future, epoch, returned>>
           /\ \E p \in Producers : /\ mine[p] = t /\ pc[p] \in Handing \cup Registering
                                   /\ pc'[p] # pc[p]
                                   /\ \A q \in Clients : q # p => pc'[q] = pc[q]
BY Typed, ProducersApart
   DEF LetsGo, PoolRefuses, Register, Goto, Leave, Handing, Registering, queueVars, poolVars, givenVars

-----------------------------------------------------------------------------
(***************************************************************************)
(* Every step is a step of the ledger, or none of its concern.             *)
(***************************************************************************)
(* No batch gets out in a step that moves a future, an epoch, a count of   *)
(* what was returned, or a thread other than its producer.                 *)
LEMMA NobodyLetsGo ==
    ASSUME Inv, [Next]_vars, Inv', \A t \in Tickets : ~LetsGo(t)
    PROVE  /\ results' \subseteq results
           /\ \A t \in Tickets : Out(t)' <=> Out(t)
           /\ \A t \in Tickets : (t \in results' <=> t \in results) => ListingOf(t)' = ListingOf(t)
           /\ \A t \in Tickets : t \in results /\ t \notin results'
                 => ListingOf(t) = "listed" /\ ListingOf(t)' = "gone"
<1>1. results' \subseteq results
      BY NewlyListed, Typed DEF LetsGo, Inv, TypeOK, QueueTypes
<1>2. \A t \in Tickets : Out(t)' <=> Out(t)
      BY OutStep
<1> QED BY <1>1, <1>2, ListingIs, ResultsAreOut

LEMMA FutureMaps ==
    ASSUME Inv, Held, [Next]_vars, Inv', future' # future
    PROVE  Ledger!Next
<1>1. PICK t \in Tickets : FutureMove(t) /\ \A u \in Tickets : u # t => future'[u] = future[u]
      BY FutureMoves
<1>2. UNCHANGED <<results, returned>>
      BY FutureMoves
<1>3. \A u \in Tickets : ~LetsGo(u)
      BY LettingGo
<1>4. \A u \in Tickets : ListingOf(u)' = ListingOf(u)
      BY <1>2, <1>3, NobodyLetsGo
<1>5. /\ [u \in Tickets |-> ListingOf(u)]' = [u \in Tickets |-> ListingOf(u)]
      /\ {u \in Tickets : returned[u] > 0}' = {u \in Tickets : returned[u] > 0}
      BY <1>2, <1>4, AnsweredStill
<1>6. CASE future[t] = "none" /\ future'[t] = "pending"
      <2>1. FateOf(t) = "absent" /\ FateOf(t)' = "waiting"
            BY <1>6 DEF FateOf
      <2> QED BY <1>1, <1>5, <2>1, FateMoves DEF Ledger!Next, Ledger!Accept
<1>7. CASE future[t] = "pending" /\ future'[t] = "running"
      <2>1. FateOf(t) = "waiting" /\ FateOf(t)' = "started"
            BY <1>7 DEF FateOf
      <2> QED BY <1>1, <1>5, <2>1, FateMoves DEF Ledger!Next, Ledger!Begin
<1>8. CASE future[t] = "running" /\ future'[t] \in {"finished", "failed"}
      <2>1. FateOf(t) = "started" /\ FateOf(t)' \in {"decoded", "failed"}
            BY <1>8 DEF FateOf
      <2> QED BY <1>1, <1>5, <2>1, FateMoves DEF Ledger!Next, Ledger!Finish
<1>9. CASE future[t] = "pending" /\ future'[t] = "cancelled" /\ \E o \in Owners : t \in doomed[o]
      <2>1. FateOf(t) = "waiting" /\ FateOf(t)' = "dropped"
            BY <1>9 DEF FateOf
      <2>2. ListingOf(t) = "gone"
            BY <1>9, ListingIs DEF Held, ResetsOK
      <2> QED BY <1>1, <1>5, <2>1, <2>2, FateMoves DEF Ledger!Next, Ledger!Drop
<1> QED BY <1>1, <1>6, <1>7, <1>8, <1>9 DEF FutureMove

(* The producer registers its batch, or the pool refused it.               *)
LEMMA OutMaps ==
    ASSUME Inv, Inv', [Next]_vars, NEW t \in Tickets, LetsGo(t)
    PROVE  Ledger!Next
<1>1. PICK p \in Producers : /\ mine[p] = t /\ pc[p] \in Handing \cup Registering /\ pc'[p] # pc[p]
                             /\ \A q \in Clients : q # p => pc'[q] = pc[q]
      BY LettingGo
<1>2. UNCHANGED <<future, epoch, returned>>
      BY LettingGo
<1>3. PoolRefuses(p) \/ Register(p)
      <2>1. PICK q \in Producers : mine[q] = t /\ (PoolRefuses(q) \/ Register(q))
            BY DEF LetsGo
      <2>2. q = p
            BY <1>1, <2>1 DEF PoolRefuses, Register, Handing, Registering, Inv, Ownership, ProducersOK,
                              Enqueuing
      <2> QED BY <2>1, <2>2
<1>4. \A u \in Tickets : u # t => ~LetsGo(u)
      BY <1>1, LettingGo, ProducersApart
<1>5. ~Out(t) /\ Out(t)' /\ \A u \in Tickets : u # t => (Out(u)' <=> Out(u))
      <2>1. BeingEnqueued(t)
            BY <1>1 DEF BeingEnqueued, Handing, Registering
      <2> QED BY <1>4, <2>1, OutStep DEF Out
<1>6. \A u \in Tickets : u # t => (u \in results' <=> u \in results)
      BY <1>1, <1>3 DEF PoolRefuses, Register, queueVars
<1>7. \A u \in Tickets : u # t => ListingOf(u)' = ListingOf(u)
      BY <1>5, <1>6, ListingIs
<1>8. ListingOf(t) = "new" /\ ListingOf(t)' = IF t \in results' THEN "listed" ELSE "gone"
      BY <1>5, ListingIs
<1>9. /\ [u \in Tickets |-> FateOf(u)]' = [u \in Tickets |-> FateOf(u)]
      /\ {u \in Tickets : returned[u] > 0}' = {u \in Tickets : returned[u] > 0}
      BY <1>2, FateStill, AnsweredStill
<1>10. CASE PoolRefuses(p)
      <2>1. t \notin results' /\ FateOf(t) = "absent"
            BY <1>1, <1>10 DEF PoolRefuses, Inv, Ownership, ProducersOK, ListOK, Handing, Registering, FateOf,
                               queueVars
      <2>2. Ledger!Relist(t, "new", "gone")
            BY <1>7, <1>8, <2>1, ListingMoves
      <2>3. Ledger!Refuse(t)
            BY <1>9, <2>1, <2>2 DEF Ledger!Refuse
      <2> QED BY <2>3 DEF Ledger!Next
<1>11. CASE Register(p)
      <2>1. t \in results' /\ future[t] # "none" /\ future[t] \in FutureState
            BY <1>1, <1>11, Typed DEF Register, Inv, Ownership, ProducersOK, Registering
      <2>2. FateOf(t) # "absent"
            BY <2>1 DEF FateOf, FutureState
      <2>3. Ledger!Relist(t, "new", "listed")
            BY <1>7, <1>8, <2>1, ListingMoves
      <2>4. Ledger!List(t)
            BY <1>9, <2>2, <2>3 DEF Ledger!List
      <2> QED BY <2>4 DEF Ledger!Next
<1> QED BY <1>3, <1>10, <1>11

(* The predictions of a batch are handed out.                              *)
LEMMA AnswerMaps ==
    ASSUME Inv, Held, GivenOK, Inv', [Next]_vars, \A t \in Tickets : ~LetsGo(t), UNCHANGED future,
           NEW c \in Consumers, Collect(c), pc[c] = "returning"
    PROVE  Ledger!Next
<1>1. PICK t \in Tickets : mine[c] = t /\ Out(t) /\ future[t] = "finished"
      BY DEF Held, CollectorsOK, GetPC
<1>2. /\ returned' = [returned EXCEPT ![t] = @ + 1]
      /\ results' = results \ {t}
      BY <1>1 DEF Collect
<1>3. ~(returned[t] > 0) /\ returned \in [Tickets -> Nat]
      BY <1>1, Typed DEF GivenOK, GetPC
<1>4. \A u \in Tickets : u # t => ListingOf(u)' = ListingOf(u)
      BY <1>2, NobodyLetsGo
<1>5. ListingOf(t) \in {"listed", "gone"} /\ ListingOf(t)' = "gone"
      BY <1>1, <1>2, ListingIs, OutStep
<1>6. {u \in Tickets : returned[u] > 0}' = {u \in Tickets : returned[u] > 0} \cup {t}
      BY <1>2, <1>3
<1>7. /\ FateOf(t) = "decoded" /\ t \notin {u \in Tickets : returned[u] > 0}
      /\ [u \in Tickets |-> FateOf(u)]' = [u \in Tickets |-> FateOf(u)]
      BY <1>1, <1>3, FateStill DEF FateOf
<1>8. [u \in Tickets |-> ListingOf(u)]' = [[u \in Tickets |-> ListingOf(u)] EXCEPT ![t] = "gone"]
      BY <1>4, <1>5
<1>9. Ledger!Answer(t)
      BY <1>5, <1>6, <1>7, <1>8 DEF Ledger!Answer
<1> QED BY <1>9 DEF Ledger!Next

(* A batch leaves the list, and nothing is handed out.                     *)
LEMMA UnlistedMaps ==
    ASSUME Inv, Held, Inv', [Next]_vars, \A t \in Tickets : ~LetsGo(t),
           UNCHANGED <<future, returned>>, NEW t \in results, t \notin results'
    PROVE  Ledger!Next
<1>0. t \in Tickets /\ results \subseteq Tickets
      BY Typed
<1>1. /\ [u \in Tickets |-> FateOf(u)]' = [u \in Tickets |-> FateOf(u)]
      /\ {u \in Tickets : returned[u] > 0}' = {u \in Tickets : returned[u] > 0}
      BY FateStill, AnsweredStill
<1>2. ListingOf(t) = "listed" /\ ListingOf(t)' = "gone"
      BY <1>0, NobodyLetsGo
<1>3. ASSUME results' = results \ {t} PROVE Ledger!Relist(t, "listed", "gone")
      <2>1. \A u \in Tickets : u # t => ListingOf(u)' = ListingOf(u)
            BY <1>3, NobodyLetsGo
      <2> QED BY <1>0, <1>2, <2>1, ListingMoves
<1>4. ASSUME NEW p \in Producers, Claim(p), mine[p] = t PROVE Ledger!Next
      <2>1. results' = results \ {t}
            BY <1>4 DEF Claim
      <2>2. Ledger!Withdraw(t)
            BY <1>1, <1>3, <2>1 DEF Ledger!Withdraw
      <2> QED BY <1>0, <2>2 DEF Ledger!Next
<1>5. ASSUME NEW c \in Consumers, Collect(c), mine[c] = t PROVE Ledger!Next
      <2>1. results' = results \ {t}
            BY <1>5 DEF Collect
      <2>2. pc[c] \in {"raising", "timingOut"}
            <3>1. returned[t] \in Nat
                  BY <1>0, Typed
            <3>2. CASE pc[c] = "returning"
                  <4>1. returned'[t] = returned[t] + 1
                        BY <1>0, <1>5, <3>2, Typed DEF Collect
                  <4> QED BY <3>1, <4>1
            <3> QED BY <1>5, <3>2 DEF Collect
      <2>3. FateOf(t) = "failed"
            BY <1>5, <2>2 DEF Held, CollectorsOK, GetPC, FateOf
      <2>4. Ledger!Fail(t)
            BY <1>0, <1>1, <1>3, <2>1, <2>3 DEF Ledger!Fail
      <2> QED BY <1>0, <2>4 DEF Ledger!Next
<1>6. ASSUME NEW o \in Owners, Reset(o) PROVE Ledger!Next
      <2>1. results' = {}
            BY <1>6 DEF Reset
      <2>2. \A u \in Tickets : ListingOf(u)' = IF ListingOf(u) = "listed" THEN "gone" ELSE ListingOf(u)
            BY <2>1, NobodyLetsGo, ListingIs
      <2>3. Ledger!Forget
            BY <1>1, <2>2 DEF Ledger!Forget
      <2> QED BY <2>3 DEF Ledger!Next
<1> QED BY <1>4, <1>5, <1>6, Unlisted

LEMMA StepMaps ==
    ASSUME Inv, Held, GivenOK, [Next]_vars, Inv'
    PROVE  [Ledger!Next]_(Ledger!vars)
<1>1. CASE future' # future
      BY <1>1, FutureMaps
<1>2. CASE \E t \in Tickets : LetsGo(t)
      BY <1>2, OutMaps
<1>3. CASE UNCHANGED future /\ ~ \E t \in Tickets : LetsGo(t)
      <2>1. CASE returned' # returned
            BY <1>3, <2>1, ReturnedStep, AnswerMaps
      <2>2. CASE UNCHANGED returned /\ \E t \in results : t \notin results'
            BY <1>3, <2>2, UnlistedMaps
      <2>3. CASE UNCHANGED returned /\ ~ \E t \in results : t \notin results'
            <3>1. \A t \in Tickets : ListingOf(t)' = ListingOf(t)
                  BY <1>3, <2>3, NobodyLetsGo
            <3>2. /\ [t \in Tickets |-> FateOf(t)]' = [t \in Tickets |-> FateOf(t)]
                  /\ [t \in Tickets |-> ListingOf(t)]' = [t \in Tickets |-> ListingOf(t)]
                  /\ {t \in Tickets : returned[t] > 0}' = {t \in Tickets : returned[t] > 0}
                  BY <1>3, <2>3, <3>1, FateStill, AnsweredStill
            <3> QED BY <3>2 DEF Ledger!vars
      <2> QED BY <2>1, <2>2, <2>3
<1> QED BY <1>1, <1>2, <1>3

LEMMA LedgerBegins == Init => Ledger!Init
BY DEF Init, Ledger!Init, FateOf, ListingOf, Tickets

(* The queue keeps the ledger while one thread collects, whoever enqueues, *)
(* submits, resets and closes: no batch is decoded twice or after it was   *)
(* dropped, only forgotten batches are dropped, and the predictions of a   *)
(* batch are handed out once.                                              *)
THEOREM LedgerKept ==
    ASSUME \A c, d \in Consumers : c = d
    PROVE  Spec => Ledger!Spec
<1>1. Init => GivenOK
      BY DEF Init, GivenOK
<1>2. Inv /\ Held /\ GivenOK /\ [Next]_vars => GivenOK'
      BY GivenStep
<1>3. Inv /\ Held /\ GivenOK /\ Inv' /\ [Next]_vars => [Ledger!Next]_(Ledger!vars)
      BY StepMaps
<1> QED BY <1>1, <1>2, <1>3, InvAlways, HeldAlways, LedgerBegins, PTL DEF Spec, Ledger!Spec

(* With one collecting thread a batch is handed back once, as              *)
(* get_corrections says; with two it may not be.                           *)
THEOREM OnceForOneCollector ==
    ASSUME \A c, d \in Consumers : c = d
    PROVE  Spec => []HandedBackOnce
<1>1. Init => GivenOK /\ HandedBackOnce
      BY DEF Init, GivenOK, HandedBackOnce
<1>2. Inv /\ Held /\ GivenOK /\ [Next]_vars => GivenOK'
      BY GivenStep
<1>3. ASSUME Inv, Held, GivenOK, HandedBackOnce, [Next]_vars PROVE HandedBackOnce'
      <2>1. CASE returned' = returned
            BY <1>3, <2>1 DEF HandedBackOnce
      <2>2. ASSUME NEW c \in Consumers, Collect(c), pc[c] = "returning" PROVE HandedBackOnce'
            <3>1. PICK t \in Tickets : mine[c] = t /\ pc[c] \in GetPC
                  BY <1>3, <2>2 DEF Held, CollectorsOK, GetPC
            <3>2. returned[t] = 0 /\ returned \in [Tickets -> Nat]
                  BY <1>3, <3>1, Typed DEF GivenOK
            <3>3. returned' = [returned EXCEPT ![t] = @ + 1]
                  BY <2>2, <3>1 DEF Collect
            <3> QED BY <1>3, <3>2, <3>3 DEF HandedBackOnce
      <2> QED BY <1>3, <2>1, <2>2, ReturnedStep
<1> QED BY <1>1, <1>2, <1>3, InvAlways, HeldAlways, PTL DEF Spec
=============================================================================

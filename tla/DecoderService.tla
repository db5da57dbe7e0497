--------------------------- MODULE DecoderService ---------------------------
(***************************************************************************)
(* The decoding service of python/stabilizer_qec/realtime.py: DecoderClient *)
(* objects, each shared by some threads, connected to the sessions of one  *)
(* server, which all put their batches into one DecoderQueue.              *)
(*                                                                         *)
(* The queue is the one of DecoderLedger, which DecoderQueue implements.   *)
(* A frame is its kind and the request it is or answers; a request is a    *)
(* thread, the number of its call and the piece of the batch.  The bodies  *)
(* of replies to DECODE are the predictions of the batch they name; all    *)
(* batches have the same number of shots, so the client's check of the     *)
(* shot count never tells two of them apart.                               *)
(***************************************************************************)
EXTENDS Integers, Sequences, FiniteSets

CONSTANTS
    Clients,      \* DecoderClient objects, one connection each
    Threads,      \* threads that use them
    ClientOf,     \* the client each thread uses
    NoThread,     \* nobody holds a lock
    MaxCalls,     \* bound: calls of each thread
    Pieces        \* the pieces decode_batch splits a batch into

ASSUME UseAssumption == ClientOf \in [Threads -> Clients] /\ NoThread \notin Threads
ASSUME SizeAssumption == MaxCalls \in Nat /\ Pieces \in Nat \ {0}

NoRequest == <<>>
Requests == Threads \X (1 .. MaxCalls) \X (1 .. Pieces)

Asks    == {"DECODE", "RESET", "STATS"}
Answers == {"CORRECTIONS", "OK", "STATS_REPLY", "ERROR"}
AnswerTo == [DECODE |-> "CORRECTIONS", RESET |-> "OK", STATS |-> "STATS_REPLY"]

Frame(kind, of) == [kind |-> kind, of |-> of]
HELLO == Frame("HELLO", NoRequest)
BYE   == Frame("BYE", NoRequest)

VARIABLES
    \* each client
    client,     \* "new", "greeting", "open", "broken" (_broken is set), or "closed"
    holder,     \* the thread in _lock
    \* each thread
    at,         \* where it is in its call
    ask,        \* the kind it asks
    calls,      \* the calls it has begun
    got,        \* the requests whose predictions its decode_batch has so far
    \* each connection
    requests,   \* frames on their way to the session
    replies,    \* frames on their way to the client
    \* each session
    session,    \* where it is, or "none" or "ended"
    frame,      \* the frame it handles
    reply,      \* the frame it is about to write
    \* the queue: the ledger's variables
    fate, listing, answered,
    server      \* "up", "shut" (its queue is closed), or "dead"

clientVars  == <<client, holder>>
threadVars  == <<at, ask, calls, got>>
wireVars    == <<requests, replies>>
sessionVars == <<session, frame, reply>>
queueVars   == <<fate, listing, answered>>
vars == <<clientVars, threadVars, wireVars, sessionVars, queueVars, server>>

Queue == INSTANCE DecoderLedger WITH Batches <- Requests

Init ==
    /\ client = [c \in Clients |-> "new"]
    /\ holder = [c \in Clients |-> NoThread]
    /\ at = [t \in Threads |-> "idle"]
    /\ ask = [t \in Threads |-> "STATS"]
    /\ calls = [t \in Threads |-> 0]
    /\ got = [t \in Threads |-> <<>>]
    /\ requests = [c \in Clients |-> <<>>]
    /\ replies = [c \in Clients |-> <<>>]
    /\ session = [c \in Clients |-> "none"]
    /\ frame = [c \in Clients |-> BYE]
    /\ reply = [c \in Clients |-> HELLO]
    /\ Queue!Init
    /\ server = "up"

-----------------------------------------------------------------------------
(***************************************************************************)
(* Connecting: the server accepts, its session says HELLO, and the client  *)
(* reads it or gives up.                                                   *)
(***************************************************************************)
Connect(c) ==
    /\ client[c] = "new"
    /\ server = "up"
    /\ client' = [client EXCEPT ![c] = "greeting"]
    /\ session' = [session EXCEPT ![c] = "writing"]
    /\ reply' = [reply EXCEPT ![c] = HELLO]
    /\ UNCHANGED <<holder, threadVars, wireVars, frame, queueVars, server>>

Greeted(c) ==
    /\ client[c] = "greeting"
    /\ replies[c] # <<>>
    /\ Head(replies[c]).kind = "HELLO"
    /\ replies' = [replies EXCEPT ![c] = Tail(@)]
    /\ client' = [client EXCEPT ![c] = "open"]
    /\ UNCHANGED <<holder, threadVars, requests, sessionVars, queueVars, server>>

(* The constructor's timeout, an interrupt, or a connection lost in HELLO: *)
(* _abandon, and no client.                                                *)
NotGreeted(c) ==
    /\ client[c] = "greeting"
    /\ client' = [client EXCEPT ![c] = "broken"]
    /\ UNCHANGED <<holder, threadVars, wireVars, sessionVars, queueVars, server>>

-----------------------------------------------------------------------------
(***************************************************************************)
(* A thread of the client: _ask, the calls built on it, and close.         *)
(***************************************************************************)
Mine(t) == ClientOf[t]
Request(t) == <<t, calls[t], Len(got[t]) + 1>>

Call(t, kind) ==
    /\ at[t] = "idle"
    /\ client[Mine(t)] \in {"open", "broken", "closed"}
    /\ calls[t] < MaxCalls
    /\ calls' = [calls EXCEPT ![t] = @ + 1]
    /\ ask' = [ask EXCEPT ![t] = kind]
    /\ got' = [got EXCEPT ![t] = <<>>]
    /\ at' = [at EXCEPT ![t] = "asking"]
    /\ UNCHANGED <<clientVars, wireVars, sessionVars, queueVars, server>>

(* Mutant of Enter: requests are not kept apart by the lock.               *)
EnterUnlocked(t) ==
    /\ at[t] = "asking"
    /\ at' = [at EXCEPT ![t] = IF client[Mine(t)] = "broken" THEN "idle" ELSE "writing"]
    /\ UNCHANGED <<clientVars, ask, calls, got, wireVars, sessionVars, queueVars, server>>

(* The lock is taken, and a broken client raises ConnectionError.          *)
Enter(t) ==
    /\ at[t] = "asking"
    /\ holder[Mine(t)] = NoThread
    /\ IF client[Mine(t)] = "broken"
         THEN /\ at' = [at EXCEPT ![t] = "idle"]
              /\ UNCHANGED holder
         ELSE /\ at' = [at EXCEPT ![t] = "writing"]
              /\ holder' = [holder EXCEPT ![Mine(t)] = t]
    /\ UNCHANGED <<client, ask, calls, got, wireVars, sessionVars, queueVars, server>>

Write(t) ==
    /\ at[t] = "writing"
    /\ client[Mine(t)] = "open"
    /\ requests' = [requests EXCEPT ![Mine(t)] = Append(@, Frame(ask[t], Request(t)))]
    /\ at' = [at EXCEPT ![t] = "reading"]
    /\ UNCHANGED <<clientVars, ask, calls, got, replies, sessionVars, queueVars, server>>

(* What each call takes for an answer.  reset does not look at the kind.   *)
Accepted(t, answer) ==
    /\ answer.kind # "ERROR"
    /\ ask[t] # "RESET" => answer.kind = AnswerTo[ask[t]]

Take(t) ==
    LET c == Mine(t)
    IN  /\ at[t] = "reading"
        /\ replies[c] # <<>>
        /\ replies' = [replies EXCEPT ![c] = Tail(@)]
        /\ holder' = [holder EXCEPT ![c] = NoThread]
        /\ got' = IF Accepted(t, Head(replies[c]))
                    THEN [got EXCEPT ![t] = Append(@, Head(replies[c]).of)]
                    ELSE got
        /\ UNCHANGED <<client, ask, calls, requests, sessionVars, queueVars, server>>

(* Mutant of Read: one piece too many is asked for.                        *)
ReadPastEnd(t) ==
    /\ Take(t)
    /\ at' = [at EXCEPT ![t] =
                IF got' # got /\ ask[t] = "DECODE" /\ Len(got[t]) < Pieces
                  THEN "asking" ELSE "idle"]

(* The reply is read and the lock left.  An ERROR or an answer of another  *)
(* kind is raised, and the connection goes on; a batch that the server     *)
(* takes only in pieces is asked for piece by piece, the lock left between *)
(* them.                                                                   *)
Read(t) ==
    /\ Take(t)
    /\ at' = [at EXCEPT ![t] =
                IF got' # got /\ ask[t] = "DECODE" /\ Len(got[t]) + 1 < Pieces
                  THEN "asking" ELSE "idle"]

(* Mutant of Break: the connection is kept after an interrupted request.   *)
BreakKeepsConnection(t) ==
    /\ holder' = [holder EXCEPT ![Mine(t)] = NoThread]
    /\ at' = [at EXCEPT ![t] = "idle"]
    /\ UNCHANGED client

(* The handler of any exception between write and read: _broken is set and *)
(* the connection dropped.                                                 *)
Break(t) ==
    /\ client' = [client EXCEPT ![Mine(t)] = "broken"]
    /\ holder' = [holder EXCEPT ![Mine(t)] = NoThread]
    /\ at' = [at EXCEPT ![t] = "idle"]

(* Ctrl-C, or any other exception, in a request under way.                 *)
Interrupt(t) ==
    /\ at[t] \in {"writing", "reading"}
    /\ Break(t)
    /\ UNCHANGED <<ask, calls, got, wireVars, sessionVars, queueVars, server>>

(* The client was closed by another thread, or the server has hung up.     *)
Lost(t) ==
    /\ \/ /\ at[t] = "writing"
          /\ client[Mine(t)] = "closed" \/ session[Mine(t)] = "ended"
       \/ /\ at[t] = "reading"
          /\ replies[Mine(t)] = <<>>
          /\ session[Mine(t)] = "ended"
    /\ Break(t)
    /\ UNCHANGED <<ask, calls, got, wireVars, sessionVars, queueVars, server>>

(* close: BYE under the lock, if the client is not broken; the files are   *)
(* closed outside it, once no thread reads from them.                      *)
SayBye(t) ==
    /\ at[t] = "idle"
    /\ calls[t] < MaxCalls
    /\ calls' = [calls EXCEPT ![t] = @ + 1]
    /\ client[Mine(t)] \in {"open", "broken", "closed"}
    /\ holder[Mine(t)] = NoThread
    /\ requests' = IF client[Mine(t)] = "open"
                     THEN [requests EXCEPT ![Mine(t)] = Append(@, BYE)]
                     ELSE requests
    /\ got' = [got EXCEPT ![t] = <<>>]
    /\ at' = [at EXCEPT ![t] = "closing"]
    /\ UNCHANGED <<clientVars, ask, replies, sessionVars, queueVars, server>>

HangUp(t) ==
    /\ at[t] = "closing"
    /\ \A u \in Threads : Mine(u) = Mine(t) => at[u] # "reading"
    /\ client' = IF client[Mine(t)] = "open" THEN [client EXCEPT ![Mine(t)] = "closed"]
                                             ELSE client
    /\ at' = [at EXCEPT ![t] = "idle"]
    /\ UNCHANGED <<holder, ask, calls, got, wireVars, sessionVars, queueVars, server>>

-----------------------------------------------------------------------------
(***************************************************************************)
(* A session: run's loop and handle.                                       *)
(***************************************************************************)
ClientGone(c) == client[c] \in {"broken", "closed"}

Move(c, where) == session' = [session EXCEPT ![c] = where]

Answer(c, kind) ==
    /\ reply' = [reply EXCEPT ![c] = Frame(kind, frame[c].of)]
    /\ Move(c, "writing")

ReadFrame(c) ==
    /\ session[c] = "reading"
    /\ requests[c] # <<>>
    /\ requests' = [requests EXCEPT ![c] = Tail(@)]
    /\ frame' = [frame EXCEPT ![c] = Head(requests[c])]
    /\ Move(c, IF Head(requests[c]).kind = "BYE" THEN "ended" ELSE "handling")
    /\ UNCHANGED <<clientVars, threadVars, replies, reply, queueVars, server>>

(* The end of the stream, or the idle connection's timeout.                *)
EndOfStream(c) ==
    /\ session[c] = "reading"
    /\ requests[c] = <<>>
    /\ ClientGone(c)
    /\ Move(c, "ended")
    /\ UNCHANGED <<clientVars, threadVars, wireVars, frame, reply, queueVars, server>>

IdleOut(c) ==
    /\ session[c] = "reading"
    /\ requests[c] = <<>>
    /\ Move(c, "ended")
    /\ UNCHANGED <<clientVars, threadVars, wireVars, frame, reply, queueVars, server>>

Stats(c) ==
    /\ session[c] = "handling"
    /\ frame[c].kind = "STATS"
    /\ Answer(c, "STATS_REPLY")
    /\ UNCHANGED <<clientVars, threadVars, wireVars, frame, queueVars, server>>

Reset(c) ==
    /\ session[c] = "handling"
    /\ frame[c].kind = "RESET"
    /\ Queue!Forget
    /\ Answer(c, "OK")
    /\ UNCHANGED <<clientVars, threadVars, wireVars, frame, server>>

(* DECODE: enqueue_syndromes, in the two steps the ledger sees, and        *)
(* get_corrections of that ticket.  Whatever raises is answered by ERROR.  *)
Enqueue(c) ==
    /\ session[c] = "handling"
    /\ frame[c].kind = "DECODE"
    /\ \/ /\ server = "up"
          /\ Queue!Accept(frame[c].of)
          /\ Move(c, "listing")
          /\ UNCHANGED reply
       \/ /\ server = "shut"
          /\ Queue!Refuse(frame[c].of)
          /\ Answer(c, "ERROR")
    /\ UNCHANGED <<clientVars, threadVars, wireVars, frame, server>>

List(c) ==
    /\ session[c] = "listing"
    /\ Queue!List(frame[c].of)
    /\ Move(c, "looking")
    /\ UNCHANGED <<clientVars, threadVars, wireVars, frame, reply, server>>

LookUp(c) ==
    /\ session[c] = "looking"
    /\ IF listing[frame[c].of] = "listed"
         THEN Move(c, "waiting") /\ UNCHANGED reply
         ELSE Answer(c, "ERROR")
    /\ UNCHANGED <<clientVars, threadVars, wireVars, frame, queueVars, server>>

(* Mutant of Collect: a batch whose decode raised is not collected.        *)
CollectKeepsFailed(c) ==
    /\ session[c] = "waiting"
    /\ \/ /\ Queue!Answer(frame[c].of)
          /\ Answer(c, "CORRECTIONS")
       \/ /\ fate[frame[c].of] \in {"failed", "dropped"}
          /\ Answer(c, "ERROR")
          /\ UNCHANGED queueVars
    /\ UNCHANGED <<clientVars, threadVars, wireVars, frame, server>>

(* Mutant of Collect: an error of the decode is not answered.              *)
CollectSilently(c) ==
    /\ session[c] = "waiting"
    /\ \/ /\ Queue!Answer(frame[c].of)
          /\ Answer(c, "CORRECTIONS")
       \/ /\ fate[frame[c].of] \in {"failed", "dropped"}
          /\ Move(c, "reading")
          /\ UNCHANGED <<reply, queueVars>>
    /\ UNCHANGED <<clientVars, threadVars, wireVars, frame, server>>

(* The wait ends.  A batch that was forgotten meanwhile is still answered  *)
(* if it was decoded, and is not on the list if it failed.                 *)
Collect(c) ==
    LET b == frame[c].of
    IN  /\ session[c] = "waiting"
        /\ \/ /\ Queue!Answer(b)
              /\ Answer(c, "CORRECTIONS") \/ Answer(c, "ERROR")
           \/ /\ Queue!Fail(b)
              /\ Answer(c, "ERROR")
           \/ /\ fate[b] = "dropped" \/ (fate[b] = "failed" /\ listing[b] = "gone")
              /\ Answer(c, "ERROR")
              /\ UNCHANGED queueVars
        /\ UNCHANGED <<clientVars, threadVars, wireVars, frame, server>>

(* The reply is written; the write to a connection that the client has     *)
(* dropped may fail, which ends the session.                               *)
WriteReply(c) ==
    /\ session[c] = "writing"
    /\ \/ /\ replies' = [replies EXCEPT ![c] = Append(@, reply[c])]
          /\ Move(c, "reading")
       \/ /\ ClientGone(c)
          /\ Move(c, "ended")
          /\ UNCHANGED replies
    /\ UNCHANGED <<clientVars, threadVars, requests, frame, reply, queueVars, server>>

-----------------------------------------------------------------------------
(* The pool's work on the batches, as the ledger has it.                   *)
Begin(b)  == server # "dead" /\ Queue!Begin(b)
Finish(b) == server # "dead" /\ Queue!Finish(b)
Drop(b)   == server # "dead" /\ Queue!Drop(b)

Pool ==
    /\ \E b \in Requests : Begin(b) \/ Finish(b) \/ Drop(b)
    /\ UNCHANGED <<clientVars, threadVars, wireVars, sessionVars, server>>

(* serve leaves its loop and closes the queue without waiting; sessions    *)
(* are daemon threads and go on.                                           *)
Shut ==
    /\ server = "up"
    /\ server' = "shut"
    /\ UNCHANGED <<clientVars, threadVars, wireVars, sessionVars, queueVars>>

(* The server's process ends, at any time.                                 *)
Die ==
    /\ server # "dead"
    /\ server' = "dead"
    /\ session' = [c \in Clients |-> "ended"]
    /\ UNCHANGED <<clientVars, threadVars, wireVars, frame, reply, queueVars>>

Quiet ==
    /\ \A t \in Threads : at[t] = "idle"
    /\ UNCHANGED vars

Handshake(c) == Connect(c) \/ Greeted(c) \/ NotGreeted(c)

Use(t) ==
    \/ \E kind \in Asks : Call(t, kind)
    \/ Enter(t) \/ Write(t) \/ Read(t) \/ Interrupt(t) \/ Lost(t)
    \/ SayBye(t) \/ HangUp(t)

Handle(c) ==
    \/ Stats(c) \/ Reset(c) \/ Enqueue(c) \/ List(c) \/ LookUp(c) \/ Collect(c)

Serve(c) ==
    \/ ReadFrame(c) \/ EndOfStream(c) \/ IdleOut(c) \/ Handle(c) \/ WriteReply(c)

Next ==
    \/ \E c \in Clients : Handshake(c) \/ Serve(c)
    \/ \E t \in Threads : Use(t)
    \/ Pool \/ Shut \/ Die
    \/ Quiet

Spec == Init /\ [][Next]_vars

(***************************************************************************)
(* Fairness: calls that were begun go on, sessions do not stop by          *)
(* themselves, and the queue makes the ledger's progress.  Nothing makes a *)
(* caller call, an interrupt strike, or a connection time out.             *)
(***************************************************************************)
Fairness ==
    /\ \A t \in Threads : WF_vars(Enter(t) \/ Write(t) \/ Read(t) \/ Lost(t) \/ HangUp(t))
    /\ \A c \in Clients : WF_vars(ReadFrame(c) \/ EndOfStream(c) \/ Handle(c) \/ WriteReply(c))
    /\ \A b \in Requests : WF_vars(Pool /\ (Begin(b) \/ Drop(b))) /\ WF_vars(Pool /\ Finish(b))

FairSpec == Spec /\ Fairness

-----------------------------------------------------------------------------
RequestFrames == {Frame(kind, r) : kind \in Asks, r \in Requests} \cup {BYE}
ReplyFrames == {Frame(kind, r) : kind \in Answers, r \in Requests} \cup {HELLO}

(* Type correctness.                                                       *)
TypeOK ==
    /\ client \in [Clients -> {"new", "greeting", "open", "broken", "closed"}]
    /\ holder \in [Clients -> Threads \cup {NoThread}]
    /\ at \in [Threads -> {"idle", "asking", "writing", "reading", "closing"}]
    /\ ask \in [Threads -> Asks] /\ calls \in [Threads -> 0 .. MaxCalls]
    /\ got \in [Threads -> Seq(Requests)]
    /\ \A t \in Threads : Len(got[t]) <= Pieces
    /\ requests \in [Clients -> Seq(RequestFrames)]
    /\ replies \in [Clients -> Seq(ReplyFrames)]
    /\ session \in [Clients -> {"none", "reading", "handling", "listing", "looking",
                                "waiting", "writing", "ended"}]
    /\ frame \in [Clients -> RequestFrames] /\ reply \in [Clients -> ReplyFrames]
    /\ fate \in [Requests -> Queue!Fates]
    /\ listing \in [Requests -> {"new", "listed", "gone"}]
    /\ answered \subseteq Requests
    /\ server \in {"up", "shut", "dead"}

Handling(c) == session[c] \in {"handling", "listing", "looking", "waiting"}

(* r is the request whose reply the thread in the lock of c is reading.    *)
Owed(c, r) ==
    \E t \in Threads :
        Mine(t) = c /\ holder[c] = t /\ at[t] = "reading" /\ Request(t) = r

Answering(c) == session[c] = "writing" /\ reply[c] # HELLO

(* Requests and replies stay in step: unless the client is broken, there   *)
(* is at most one request under way on its connection, in one place only,  *)
(* on its way, handled, answered or on its way back; and it is the one     *)
(* that the thread holding the lock waits for.                             *)
InStep ==
    \A c \in Clients : client[c] # "broken" =>
        /\ \A i \in DOMAIN requests[c] : requests[c][i] # BYE =>
              /\ i = Len(requests[c]) /\ Owed(c, requests[c][i].of)
              /\ ~Handling(c) /\ ~Answering(c) /\ replies[c] = <<>>
        /\ Handling(c) => Owed(c, frame[c].of) /\ replies[c] = <<>>
        /\ Answering(c) => Owed(c, reply[c].of) /\ replies[c] = <<>>
        /\ \A i \in DOMAIN replies[c] : replies[c][i] # HELLO =>
              Len(replies[c]) = 1 /\ Owed(c, replies[c][i].of)

(* DecoderClient: "It never hands one batch another's predictions": what a *)
(* call has got are the answers to its own requests, piece by piece.       *)
OwnPredictions ==
    \A t \in Threads : \A i \in DOMAIN got[t] : got[t][i] = <<t, calls[t], i>>

(* The server's queue keeps a batch only while the session that enqueued   *)
(* it is still handling it: no error, reset or lost client leaves one.     *)
NothingLeftBehind ==
    server # "dead" =>
        \A b \in Requests : listing[b] = "listed" =>
            \E c \in Clients : session[c] \in {"looking", "waiting"} /\ frame[c].of = b

(* Every call ends, whatever becomes of the server, the connection and the   *)
(* other threads of the client, and the session of a client that is gone      *)
(* ends: its thread is not leaked.                                          *)
CallsAndSessionsEnd ==
    /\ \A t \in Threads : at[t] # "idle" ~> at[t] = "idle"
    /\ \A c \in Clients : ClientGone(c) ~> session[c] \in {"none", "ended"}
=============================================================================

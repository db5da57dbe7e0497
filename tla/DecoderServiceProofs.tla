------------------------ MODULE DecoderServiceProofs ------------------------
(***************************************************************************)
(* Theorems about DecoderService, for any clients, threads, calls and      *)
(* pieces: no thread is ever handed another request's reply, and the queue *)
(* keeps no batch that no session is handling.                             *)
(*                                                                         *)
(* Frames carry no identifiers, so that a reply is the right one rests on  *)
(* counting alone: Turns and Greeting are the strengthening, which say who *)
(* may have a request under way, and when the greeting is still about.     *)
(***************************************************************************)
EXTENDS DecoderService, SequenceTheorems, TLAPS

(* What the positions of threads and sessions say of the data.             *)
ThreadsAt ==
    \A t \in Threads :
        /\ at[t] # "idle" => calls[t] \in 1 .. MaxCalls
        /\ at[t] \in {"asking", "writing", "reading"} => Len(got[t]) < Pieces

SessionsAt == \A c \in Clients : Handling(c) => frame[c] # BYE

Positions == ThreadsAt /\ SessionsAt

(* A thread is in the lock exactly while it writes or reads, which no      *)
(* thread does before the greeting, after a break or, reading, after a     *)
(* close.                                                                  *)
Turns ==
    \A t \in Threads :
        /\ at[t] \in {"writing", "reading"} <=> holder[Mine(t)] = t
        /\ client[Mine(t)] \in {"new", "greeting"} => at[t] = "idle"
        /\ client[Mine(t)] = "broken" => at[t] \notin {"writing", "reading"}
        /\ client[Mine(t)] = "closed" => at[t] # "reading"

(* HELLO is the first frame of a connection, read before any request is    *)
(* written, and is never on its way again.                                 *)
Greeting ==
    \A c \in Clients :
        /\ client[c] \in {"new", "greeting"} => requests[c] = <<>> /\ ~Handling(c)
        /\ client[c] = "new" => session[c] \in {"none", "ended"} /\ replies[c] = <<>>
        /\ client[c] = "greeting" =>
              /\ session[c] = "writing" => reply[c] = HELLO /\ replies[c] = <<>>
              /\ replies[c] = <<>> \/ replies[c] = <<HELLO>>
        /\ client[c] \in {"open", "closed"} =>
              /\ session[c] = "writing" => reply[c] # HELLO
              /\ \A i \in DOMAIN replies[c] : replies[c][i] # HELLO

-----------------------------------------------------------------------------
LEMMA EmptyFacts ==
    ASSUME NEW S, NEW s \in Seq(S)
    PROVE  /\ Len(s) = 1 => Tail(s) = <<>>
           /\ (\A i \in DOMAIN s : FALSE) => s = <<>>
<1>1. Len(s) = 0 => s = <<>>
      BY EmptySeq
<1>2. ASSUME Len(s) = 1 PROVE Tail(s) = <<>>
      <2>1. s # <<>> /\ Tail(s) \in Seq(S) /\ Len(Tail(s)) = 0
            BY <1>2
      <2> QED BY <2>1, EmptySeq
<1>3. ASSUME \A i \in DOMAIN s : FALSE PROVE s = <<>>
      <2>1. Len(s) \in Nat /\ DOMAIN s = 1 .. Len(s)
            OBVIOUS
      <2>2. 1 \notin 1 .. Len(s)
            BY <1>3, <2>1
      <2>3. Len(s) = 0
            BY <2>1, <2>2
      <2> QED BY <1>1, <2>3
<1> QED BY <1>2, <1>3

LEMMA RequestTypes ==
    ASSUME TypeOK, Positions, NEW t \in Threads, at[t] \in {"asking", "writing", "reading"}
    PROVE  Request(t) \in Requests
<1>1. calls[t] \in 1 .. MaxCalls /\ got[t] \in Seq(Requests) /\ Len(got[t]) < Pieces
      BY DEF TypeOK, Positions, ThreadsAt
<1>2. Len(got[t]) + 1 \in 1 .. Pieces
      BY <1>1, SizeAssumption
<1> QED BY <1>1, <1>2 DEF Request, Requests

LEMMA FrameFacts ==
    /\ BYE \in RequestFrames /\ HELLO \in ReplyFrames
    /\ \A kind \in Asks, r \in Requests : Frame(kind, r) \in RequestFrames /\ Frame(kind, r) # BYE
    /\ \A kind \in Answers, r \in Requests : Frame(kind, r) \in ReplyFrames /\ Frame(kind, r) # HELLO
    /\ \A f \in RequestFrames : f # BYE => f.kind \in Asks /\ f.of \in Requests
    /\ \A f \in RequestFrames : f.kind = "BYE" <=> f = BYE
    /\ \A f \in ReplyFrames : f # HELLO => f.kind \in Answers /\ f.of \in Requests
    /\ \A f \in ReplyFrames : f.kind = "HELLO" <=> f = HELLO
<1> USE DEF Frame, BYE, HELLO
<1>1. BYE \in RequestFrames /\ HELLO \in ReplyFrames
      BY DEF RequestFrames, ReplyFrames
<1>2. ASSUME NEW kind \in Asks, NEW r \in Requests
      PROVE  Frame(kind, r) \in RequestFrames /\ Frame(kind, r) # BYE
      <2>1. kind # "BYE"
            BY DEF Asks
      <2> QED BY <2>1 DEF RequestFrames
<1>3. ASSUME NEW kind \in Answers, NEW r \in Requests
      PROVE  Frame(kind, r) \in ReplyFrames /\ Frame(kind, r) # HELLO
      <2>1. kind # "HELLO"
            BY DEF Answers
      <2> QED BY <2>1 DEF ReplyFrames
<1>4. ASSUME NEW f \in RequestFrames
      PROVE  /\ f # BYE => f.kind \in Asks /\ f.of \in Requests
             /\ f.kind = "BYE" <=> f = BYE
      <2>1. CASE f = BYE
            BY <2>1
      <2>2. CASE \E kind \in Asks, r \in Requests : f = [kind |-> kind, of |-> r]
            BY <2>2 DEF Asks
      <2> QED BY <2>1, <2>2 DEF RequestFrames
<1>5. ASSUME NEW f \in ReplyFrames
      PROVE  /\ f # HELLO => f.kind \in Answers /\ f.of \in Requests
             /\ f.kind = "HELLO" <=> f = HELLO
      <2>1. CASE f = HELLO
            BY <2>1
      <2>2. CASE \E kind \in Answers, r \in Requests : f = [kind |-> kind, of |-> r]
            BY <2>2 DEF Answers
      <2> QED BY <2>1, <2>2 DEF ReplyFrames
<1> QED BY ONLY <1>1, <1>2, <1>3, <1>4, <1>5

(* The queue's steps keep its variables typed.                             *)
QueueTypes ==
    /\ fate \in [Requests -> Queue!Fates]
    /\ listing \in [Requests -> {"new", "listed", "gone"}]
    /\ answered \subseteq Requests

LEMMA QueueStep ==
    ASSUME QueueTypes, NEW b \in Requests,
           \/ Queue!Accept(b) \/ Queue!Refuse(b) \/ Queue!List(b)
           \/ Queue!Begin(b) \/ Queue!Finish(b) \/ Queue!Drop(b)
           \/ Queue!Answer(b) \/ Queue!Fail(b) \/ Queue!Forget
    PROVE  QueueTypes'
<1> USE DEF QueueTypes, Queue!Fates
<1>1. CASE Queue!Accept(b) \/ Queue!Begin(b) \/ Queue!Finish(b) \/ Queue!Drop(b)
      BY <1>1 DEF Queue!Accept, Queue!Begin, Queue!Finish, Queue!Drop, Queue!Become
<1>2. CASE Queue!Refuse(b) \/ Queue!List(b) \/ Queue!Fail(b)
      BY <1>2 DEF Queue!Refuse, Queue!List, Queue!Fail, Queue!Relist
<1>3. CASE Queue!Answer(b) \/ Queue!Forget
      BY <1>3 DEF Queue!Answer, Queue!Forget
<1> QED BY <1>1, <1>2, <1>3

(* The parts of the type invariant, by who writes them.                    *)
ThreadTypes ==
    /\ client \in [Clients -> {"new", "greeting", "open", "broken", "closed"}]
    /\ holder \in [Clients -> Threads \cup {NoThread}]
    /\ at \in [Threads -> {"idle", "asking", "writing", "reading", "closing"}]
    /\ ask \in [Threads -> Asks] /\ calls \in [Threads -> 0 .. MaxCalls]
    /\ got \in [Threads -> Seq(Requests)]
    /\ \A t \in Threads : Len(got[t]) <= Pieces

SessionTypes ==
    /\ requests \in [Clients -> Seq(RequestFrames)]
    /\ replies \in [Clients -> Seq(ReplyFrames)]
    /\ session \in [Clients -> {"none", "reading", "handling", "listing", "looking",
                                "waiting", "writing", "ended"}]
    /\ frame \in [Clients -> RequestFrames] /\ reply \in [Clients -> ReplyFrames]
    /\ server \in {"up", "shut", "dead"}

LEMMA TypeParts == TypeOK <=> ThreadTypes /\ SessionTypes /\ QueueTypes
BY DEF TypeOK, ThreadTypes, SessionTypes, QueueTypes

LEMMA TypePartsNext == TypeOK' <=> ThreadTypes' /\ SessionTypes' /\ QueueTypes'
BY DEF TypeOK, ThreadTypes, SessionTypes, QueueTypes

(* The answer to the frame that a session handles is a frame of its kind.  *)
LEMMA AnswerTypes ==
    ASSUME SessionTypes, Positions, NEW c \in Clients, Handling(c),
           NEW kind \in Answers, Answer(c, kind)
    PROVE  /\ session' = [session EXCEPT ![c] = "writing"]
           /\ reply' = [reply EXCEPT ![c] = Frame(kind, frame[c].of)]
           /\ reply' \in [Clients -> ReplyFrames]
           /\ reply'[c] # HELLO /\ reply'[c].of = frame[c].of
<1>1. frame[c].of \in Requests
      BY FrameFacts DEF SessionTypes, Positions, SessionsAt
<1>2. Frame(kind, frame[c].of) \in ReplyFrames /\ Frame(kind, frame[c].of) # HELLO
      BY <1>1, FrameFacts
<1>3. Frame(kind, frame[c].of).of = frame[c].of
      BY DEF Frame
<1> QED BY <1>2, <1>3 DEF Answer, Move, SessionTypes

(* The reply that a thread reads is not the greeting.                      *)
LEMMA ReplyRead ==
    ASSUME TypeOK, Turns, Greeting, NEW t \in Threads, Take(t)
    PROVE  /\ client[Mine(t)] = "open" /\ Mine(t) \in Clients
           /\ replies[Mine(t)] \in Seq(ReplyFrames) /\ replies[Mine(t)] # <<>>
           /\ Head(replies[Mine(t)]) \in ReplyFrames /\ Head(replies[Mine(t)]) # HELLO
           /\ Head(replies[Mine(t)]).of \in Requests
<1>1. Mine(t) \in Clients
      BY UseAssumption DEF Mine
<1>2. at[t] = "reading" /\ replies[Mine(t)] # <<>>
      BY DEF Take
<1>3. client[Mine(t)] = "open"
      <2>1. client[Mine(t)] \notin {"new", "greeting", "broken", "closed"}
            BY <1>2 DEF Turns
      <2>2. client[Mine(t)] \in {"new", "greeting", "open", "broken", "closed"}
            BY <1>1 DEF TypeOK
      <2> QED BY <2>1, <2>2
<1>4. replies[Mine(t)] \in Seq(ReplyFrames)
      BY <1>1 DEF TypeOK
<1>5. Head(replies[Mine(t)]) = replies[Mine(t)][1] /\ 1 \in DOMAIN replies[Mine(t)]
      BY <1>2, <1>4
<1>6. Head(replies[Mine(t)]) # HELLO
      BY <1>1, <1>3, <1>5 DEF Greeting
<1>7. Head(replies[Mine(t)]) \in ReplyFrames
      BY <1>4, <1>5
<1> QED BY <1>1, <1>2, <1>3, <1>4, <1>6, <1>7, FrameFacts

LEMMA ThreadStep ==
    TypeOK /\ Positions /\ Turns /\ Greeting /\ [Next]_vars => ThreadTypes' /\ ThreadsAt'
<1> SUFFICES ASSUME TypeOK, Positions, Turns, Greeting, [Next]_vars PROVE ThreadTypes' /\ ThreadsAt'
    OBVIOUS
<1> USE DEF ThreadTypes
<1>0. ThreadTypes /\ SessionTypes /\ ThreadsAt
      BY TypeParts DEF Positions
<1>1. ASSUME UNCHANGED threadVars, UNCHANGED holder,
             client' \in [Clients -> {"new", "greeting", "open", "broken", "closed"}]
      PROVE  ThreadTypes' /\ ThreadsAt'
      BY <1>0, <1>1 DEF threadVars, ThreadsAt
<1>2. ASSUME NEW c \in Clients, Handshake(c) PROVE ThreadTypes' /\ ThreadsAt'
      BY <1>0, <1>1, <1>2 DEF Handshake, Connect, Greeted, NotGreeted
<1>3. ASSUME NEW c \in Clients, Serve(c) PROVE ThreadTypes' /\ ThreadsAt'
      BY <1>0, <1>1, <1>3 DEF Serve, Handle, ReadFrame, EndOfStream, IdleOut, Stats, Reset, Enqueue, List,
                              LookUp, Collect, WriteReply, clientVars
<1>4. ASSUME NEW t \in Threads, Use(t) PROVE ThreadTypes' /\ ThreadsAt'
      <2> USE UseAssumption, SizeAssumption DEF Mine
      <2>0. Mine(t) \in Clients
            OBVIOUS
      <2>1. ASSUME NEW kind \in Asks, Call(t, kind) PROVE ThreadTypes' /\ ThreadsAt'
            <3>1. <<>> \in Seq(Requests) /\ Len(<<>>) = 0
                  OBVIOUS
            <3>2. got' \in [Threads -> Seq(Requests)] /\ \A u \in Threads : Len(got'[u]) <= Pieces
                  BY <1>0, <2>1, <3>1 DEF Call
            <3>3. calls' \in [Threads -> 0 .. MaxCalls] /\ calls'[t] \in 1 .. MaxCalls
                  BY <1>0, <2>1 DEF Call
            <3> QED BY <1>0, <2>1, <3>1, <3>2, <3>3 DEF Call, clientVars, ThreadsAt
      <2>2. CASE Enter(t)
            <3>1. /\ at[t] = "asking" /\ UNCHANGED <<client, ask, calls, got>>
                  /\ \/ at' = [at EXCEPT ![t] = "idle"] /\ holder' = holder
                     \/ at' = [at EXCEPT ![t] = "writing"] /\ holder' = [holder EXCEPT ![Mine(t)] = t]
                  BY <2>2 DEF Enter
            <3>2. holder' \in [Clients -> Threads \cup {NoThread}]
                  BY <1>0, <2>0, <3>1
            <3>3. at' \in [Threads -> {"idle", "asking", "writing", "reading", "closing"}]
                  BY <1>0, <3>1
            <3> QED BY <1>0, <3>1, <3>2, <3>3 DEF ThreadsAt
      <2>3. CASE Write(t)
            BY <1>0, <2>3 DEF Write, clientVars, ThreadsAt
      <2>4. CASE Read(t)
            <3> DEFINE f == Head(replies[Mine(t)])
            <3>2. f.of \in Requests
                  BY <2>4, ReplyRead DEF Read
            <3>3. Len(got[t]) < Pieces /\ got[t] \in Seq(Requests) /\ calls[t] \in 1 .. MaxCalls
                  BY <1>0, <2>4 DEF Read, Take, ThreadsAt
            <3>4. \/ got' = got
                  \/ got' = [got EXCEPT ![t] = Append(got[t], f.of)]
                  BY <2>4 DEF Read, Take
            <3>5. /\ got' \in [Threads -> Seq(Requests)] /\ \A u \in Threads : Len(got'[u]) <= Pieces
                  /\ got' # got => Len(got'[t]) = Len(got[t]) + 1
                  /\ \A u \in Threads : u # t => got'[u] = got[u]
                  <4> HIDE DEF f
                  <4>1. CASE got' = got
                        BY <1>0, <4>1
                  <4>2. CASE got' = [got EXCEPT ![t] = Append(got[t], f.of)]
                        <5>1. Append(got[t], f.of) \in Seq(Requests) /\ Len(Append(got[t], f.of)) = Len(got[t]) + 1
                              BY <3>2, <3>3
                        <5> QED BY <1>0, <3>3, <4>2, <5>1
                  <4> QED BY <3>4, <4>1, <4>2
            <3>6. \/ at' = [at EXCEPT ![t] = "idle"]
                  \/ at' = [at EXCEPT ![t] = "asking"] /\ got' # got /\ Len(got[t]) + 1 < Pieces
                  BY <2>4 DEF Read
            <3>7. /\ UNCHANGED <<client, ask, calls>>
                  /\ holder' = [holder EXCEPT ![Mine(t)] = NoThread]
                  BY <2>4 DEF Read, Take
            <3>8. ThreadTypes'
                  BY <1>0, <3>5, <3>6, <3>7
            <3>9. ThreadsAt'
                  BY <1>0, <3>3, <3>5, <3>6, <3>7 DEF ThreadsAt
            <3> QED BY <3>8, <3>9
      <2>5. CASE Interrupt(t) \/ Lost(t)
            <3>1. /\ client' = [client EXCEPT ![Mine(t)] = "broken"]
                  /\ holder' = [holder EXCEPT ![Mine(t)] = NoThread]
                  /\ at' = [at EXCEPT ![t] = "idle"]
                  /\ UNCHANGED <<ask, calls, got>>
                  BY <2>5 DEF Interrupt, Lost, Break
            <3>2. /\ client' \in [Clients -> {"new", "greeting", "open", "broken", "closed"}]
                  /\ holder' \in [Clients -> Threads \cup {NoThread}]
                  BY <1>0, <3>1
            <3> QED BY <1>0, <3>1, <3>2 DEF ThreadsAt
      <2>6. CASE SayBye(t)
            <3>1. <<>> \in Seq(Requests) /\ Len(<<>>) = 0
                  OBVIOUS
            <3>2. got' \in [Threads -> Seq(Requests)] /\ \A u \in Threads : Len(got'[u]) <= Pieces
                  BY <1>0, <2>6, <3>1 DEF SayBye
            <3>3. calls' \in [Threads -> 0 .. MaxCalls] /\ calls'[t] \in 1 .. MaxCalls
                  BY <1>0, <2>6 DEF SayBye
            <3> QED BY <1>0, <2>6, <3>1, <3>2, <3>3 DEF SayBye, clientVars, ThreadsAt
      <2>7. CASE HangUp(t)
            BY <1>0, <2>7 DEF HangUp, ThreadsAt
      <2> QED BY <1>4, <2>1, <2>2, <2>3, <2>4, <2>5, <2>6, <2>7 DEF Use
<1>5. CASE Pool \/ Shut \/ Die \/ Quiet \/ UNCHANGED vars
      BY <1>0, <1>1, <1>5 DEF Pool, Shut, Die, Quiet, vars, clientVars
<1> QED BY <1>2, <1>3, <1>4, <1>5 DEF Next

LEMMA SessionStep == TypeOK /\ Positions /\ [Next]_vars => SessionTypes' /\ SessionsAt' /\ QueueTypes'
<1> SUFFICES ASSUME TypeOK, Positions, [Next]_vars PROVE SessionTypes' /\ SessionsAt' /\ QueueTypes'
    OBVIOUS
<1>0. ThreadTypes /\ SessionTypes /\ QueueTypes /\ SessionsAt
      BY TypeParts DEF Positions
<1>1. ASSUME UNCHANGED queueVars PROVE QueueTypes'
      BY <1>0, <1>1 DEF queueVars, QueueTypes
<1>2. ASSUME UNCHANGED <<sessionVars, server>>,
             requests' \in [Clients -> Seq(RequestFrames)], replies' \in [Clients -> Seq(ReplyFrames)]
      PROVE  SessionTypes' /\ SessionsAt'
      BY <1>0, <1>2 DEF SessionTypes, SessionsAt, sessionVars, Handling
<1>3. ASSUME NEW c \in Clients, Handshake(c) PROVE SessionTypes' /\ SessionsAt' /\ QueueTypes'
      <2>1. CASE Connect(c)
            BY <1>0, <1>1, <2>1, FrameFacts DEF Connect, wireVars, SessionTypes, SessionsAt, Handling
      <2>2. CASE Greeted(c)
            <3>1. replies' \in [Clients -> Seq(ReplyFrames)]
                  BY <1>0, <2>2 DEF Greeted, SessionTypes
            <3> QED BY <1>0, <1>1, <1>2, <2>2, <3>1 DEF Greeted, SessionTypes
      <2>3. CASE NotGreeted(c)
            BY <1>0, <1>1, <1>2, <2>3 DEF NotGreeted, wireVars, SessionTypes
      <2> QED BY <1>3, <2>1, <2>2, <2>3 DEF Handshake
<1>4. ASSUME NEW t \in Threads, Use(t) PROVE SessionTypes' /\ SessionsAt' /\ QueueTypes'
      <2>0. Mine(t) \in Clients
            BY UseAssumption DEF Mine
      <2>1. CASE Write(t)
            <3>1. Frame(ask[t], Request(t)) \in RequestFrames
                  BY <1>0, <2>1, RequestTypes, FrameFacts DEF Write, ThreadTypes
            <3>2. requests' \in [Clients -> Seq(RequestFrames)]
                  BY <1>0, <2>0, <2>1, <3>1 DEF Write, SessionTypes
            <3> QED BY <1>0, <1>1, <1>2, <2>1, <3>2 DEF Write, SessionTypes
      <2>2. CASE Read(t)
            <3>1. replies' \in [Clients -> Seq(ReplyFrames)]
                  BY <1>0, <2>0, <2>2 DEF Read, Take, SessionTypes
            <3> QED BY <1>0, <1>1, <1>2, <2>2, <3>1 DEF Read, Take, SessionTypes
      <2>3. CASE SayBye(t)
            <3>1. requests' \in [Clients -> Seq(RequestFrames)]
                  BY <1>0, <2>0, <2>3, FrameFacts DEF SayBye, SessionTypes
            <3> QED BY <1>0, <1>1, <1>2, <2>3, <3>1 DEF SayBye, SessionTypes
      <2>4. CASE ~Write(t) /\ ~Read(t) /\ ~SayBye(t)
            <3>1. UNCHANGED <<wireVars, sessionVars, queueVars, server>>
                  BY <1>4, <2>4 DEF Use, Call, Enter, Interrupt, Lost, HangUp
            <3> QED BY <1>0, <1>1, <1>2, <3>1 DEF wireVars, SessionTypes
      <2> QED BY <2>1, <2>2, <2>3, <2>4
<1>5. ASSUME NEW c \in Clients, Serve(c) PROVE SessionTypes' /\ SessionsAt' /\ QueueTypes'
      <2>1. CASE ReadFrame(c)
            <3>1. Head(requests[c]) \in RequestFrames /\ requests' \in [Clients -> Seq(RequestFrames)]
                  BY <1>0, <2>1 DEF ReadFrame, SessionTypes
            <3>2. /\ frame' = [frame EXCEPT ![c] = Head(requests[c])]
                  /\ \/ session' = [session EXCEPT ![c] = "ended"]
                     \/ session' = [session EXCEPT ![c] = "handling"] /\ Head(requests[c]) # BYE
                  /\ UNCHANGED <<replies, reply, queueVars, server>>
                  BY <2>1, <3>1, FrameFacts DEF ReadFrame, Move
            <3> QED BY <1>0, <1>1, <3>1, <3>2 DEF SessionTypes, SessionsAt, Handling
      <2>2. CASE EndOfStream(c) \/ IdleOut(c)
            BY <1>0, <1>1, <2>2 DEF EndOfStream, IdleOut, Move, wireVars, SessionTypes, SessionsAt, Handling
      <2>3. CASE WriteReply(c)
            <3>1. replies' \in [Clients -> Seq(ReplyFrames)]
                  <4>1. \/ replies' = replies
                        \/ replies' = [replies EXCEPT ![c] = Append(replies[c], reply[c])]
                        BY <2>3 DEF WriteReply
                  <4>2. Append(replies[c], reply[c]) \in Seq(ReplyFrames)
                        BY <1>0 DEF SessionTypes
                  <4> QED BY <1>0, <4>1, <4>2 DEF SessionTypes
            <3>2. /\ \E where \in {"reading", "ended"} : session' = [session EXCEPT ![c] = where]
                  /\ UNCHANGED <<requests, frame, reply, queueVars, server>>
                  BY <2>3 DEF WriteReply, Move
            <3>3. SessionTypes'
                  BY <1>0, <3>1, <3>2 DEF SessionTypes
            <3>4. SessionsAt'
                  BY <1>0, <3>2 DEF SessionTypes, SessionsAt, Handling
            <3> QED BY <1>1, <3>2, <3>3, <3>4
      <2>4. CASE Handle(c)
            <3>1. Handling(c) /\ frame[c].of \in Requests
                  <4>1. Handling(c)
                        BY <2>4 DEF Handle, Stats, Reset, Enqueue, List, LookUp, Collect, Handling
                  <4> QED BY <1>0, <4>1, FrameFacts DEF SessionTypes, SessionsAt
            <3>2. UNCHANGED <<wireVars, frame, server>>
                  BY <2>4 DEF Handle, Stats, Reset, Enqueue, List, LookUp, Collect
            <3>3. \/ \E kind \in Answers : Answer(c, kind)
                  \/ UNCHANGED reply /\ \E where \in {"listing", "looking", "waiting"} : Move(c, where)
                  BY <2>4 DEF Handle, Stats, Reset, Enqueue, List, LookUp, Collect, Answers
            <3>4. /\ reply' \in [Clients -> ReplyFrames]
                  /\ \E where \in {"listing", "looking", "waiting", "writing"} :
                        session' = [session EXCEPT ![c] = where]
                  BY <1>0, <3>1, <3>3, AnswerTypes DEF Positions, Move, SessionTypes
            <3>5. QueueTypes'
                  BY <1>0, <1>1, <2>4, <3>1, QueueStep
                     DEF Handle, Stats, Reset, Enqueue, List, LookUp, Collect
            <3>6. SessionTypes'
                  BY <1>0, <3>2, <3>4 DEF wireVars, SessionTypes
            <3>7. SessionsAt'
                  BY <1>0, <3>1, <3>2, <3>4 DEF SessionTypes, SessionsAt, Handling
            <3> QED BY <3>5, <3>6, <3>7
      <2> QED BY <1>5, <2>1, <2>2, <2>3, <2>4 DEF Serve
<1>6. CASE Pool
      <2>1. QueueTypes'
            BY <1>0, <1>6, QueueStep DEF Pool, Begin, Finish, Drop
      <2> QED BY <1>0, <1>2, <1>6, <2>1 DEF Pool, wireVars, SessionTypes
<1>7. CASE Shut \/ Die
      BY <1>0, <1>1, <1>7 DEF Shut, Die, wireVars, sessionVars, SessionTypes, SessionsAt, Handling
<1>8. CASE Quiet \/ UNCHANGED vars
      BY <1>0, <1>1, <1>2, <1>8 DEF Quiet, vars, wireVars, SessionTypes
<1> QED BY <1>3, <1>4, <1>5, <1>6, <1>7, <1>8 DEF Next

-----------------------------------------------------------------------------
(* Who may have a request under way.                                       *)
LEMMA TurnsStep == TypeOK /\ Turns /\ [Next]_vars => Turns'
<1> SUFFICES ASSUME TypeOK, Turns, [Next]_vars PROVE Turns'
    OBVIOUS
<1> USE UseAssumption
<1>0. /\ \A t \in Threads : Mine(t) \in Clients
      /\ client \in [Clients -> {"new", "greeting", "open", "broken", "closed"}]
      /\ holder \in [Clients -> Threads \cup {NoThread}]
      /\ at \in [Threads -> {"idle", "asking", "writing", "reading", "closing"}]
      BY DEF TypeOK, Mine
<1>1. ASSUME UNCHANGED <<clientVars, at>> PROVE Turns'
      BY <1>1 DEF clientVars, Turns, Mine
<1>2. ASSUME NEW c \in Clients, Handshake(c) PROVE Turns'
      <2>1. /\ \/ client[c] = "new" /\ client' = [client EXCEPT ![c] = "greeting"]
               \/ client[c] = "greeting" /\ client' = [client EXCEPT ![c] = "open"]
               \/ client[c] = "greeting" /\ client' = [client EXCEPT ![c] = "broken"]
            /\ UNCHANGED <<holder, at>>
            BY <1>2 DEF Handshake, Connect, Greeted, NotGreeted, threadVars
      <2> QED BY <1>0, <2>1 DEF Turns, Mine
<1>3. ASSUME NEW c \in Clients, Serve(c) PROVE Turns'
      BY <1>1, <1>3 DEF Serve, Handle, ReadFrame, EndOfStream, IdleOut, Stats, Reset, Enqueue, List,
                        LookUp, Collect, WriteReply, threadVars
<1>4. ASSUME NEW t \in Threads, Use(t) PROVE Turns'
      <2>1. ASSUME NEW kind \in Asks, Call(t, kind) PROVE Turns'
            BY <1>0, <2>1 DEF Call, clientVars, Turns, Mine
      <2>2. CASE Enter(t)
            <3>1. /\ at[t] = "asking" /\ holder[Mine(t)] = NoThread /\ UNCHANGED client
                  /\ \/ at' = [at EXCEPT ![t] = "idle"] /\ holder' = holder
                     \/ /\ client[Mine(t)] # "broken"
                        /\ at' = [at EXCEPT ![t] = "writing"]
                        /\ holder' = [holder EXCEPT ![Mine(t)] = t]
                  BY <2>2 DEF Enter
            <3> QED BY <1>0, <3>1 DEF Turns, Mine
      <2>3. CASE Write(t)
            BY <1>0, <2>3 DEF Write, clientVars, Turns, Mine
      <2>4. CASE Read(t)
            <3>1. /\ at[t] = "reading" /\ UNCHANGED client
                  /\ holder' = [holder EXCEPT ![Mine(t)] = NoThread]
                  /\ \E where \in {"asking", "idle"} : at' = [at EXCEPT ![t] = where]
                  BY <2>4 DEF Read, Take
            <3> QED BY <1>0, <3>1 DEF Turns, Mine
      <2>5. CASE Interrupt(t) \/ Lost(t)
            <3>1. /\ at[t] \in {"writing", "reading"}
                  /\ client' = [client EXCEPT ![Mine(t)] = "broken"]
                  /\ holder' = [holder EXCEPT ![Mine(t)] = NoThread]
                  /\ at' = [at EXCEPT ![t] = "idle"]
                  BY <2>5 DEF Interrupt, Lost, Break
            <3> QED BY <1>0, <3>1 DEF Turns, Mine
      <2>6. CASE SayBye(t)
            BY <1>0, <2>6 DEF SayBye, clientVars, Turns, Mine
      <2>7. CASE HangUp(t)
            <3>1. /\ at[t] = "closing" /\ at' = [at EXCEPT ![t] = "idle"] /\ UNCHANGED holder
                  /\ \A u \in Threads : Mine(u) = Mine(t) => at[u] # "reading"
                  /\ \/ client' = client
                     \/ client' = [client EXCEPT ![Mine(t)] = "closed"]
                  BY <2>7 DEF HangUp
            <3>2. client[Mine(t)] \notin {"new", "greeting"}
                  BY <3>1 DEF Turns
            <3> QED BY <1>0, <3>1, <3>2 DEF Turns, Mine
      <2> QED BY <1>4, <2>1, <2>2, <2>3, <2>4, <2>5, <2>6, <2>7 DEF Use
<1>5. CASE Pool \/ Shut \/ Die \/ Quiet \/ UNCHANGED vars
      BY <1>1, <1>5 DEF Pool, Shut, Die, Quiet, vars, threadVars
<1> QED BY <1>2, <1>3, <1>4, <1>5 DEF Next

(* The greeting comes first, and once.                                     *)
GreetingAt(c) ==
    /\ client[c] \in {"new", "greeting"} => requests[c] = <<>> /\ ~Handling(c)
    /\ client[c] = "new" => session[c] \in {"none", "ended"} /\ replies[c] = <<>>
    /\ client[c] = "greeting" =>
          /\ session[c] = "writing" => reply[c] = HELLO /\ replies[c] = <<>>
          /\ replies[c] = <<>> \/ replies[c] = <<HELLO>>
    /\ client[c] \in {"open", "closed"} =>
          /\ session[c] = "writing" => reply[c] # HELLO
          /\ \A i \in DOMAIN replies[c] : replies[c][i] # HELLO

LEMMA GreetingParts == Greeting <=> \A c \in Clients : GreetingAt(c)
BY DEF Greeting, GreetingAt

LEMMA GreetingPartsNext == Greeting' <=> \A c \in Clients : GreetingAt(c)'
BY DEF Greeting, GreetingAt

(* Steps that are not about the greeting.                                  *)
LEMMA GreetingFrame ==
    ASSUME NEW c \in Clients, GreetingAt(c),
           client'[c] = client[c] \/ client'[c] = "broken" \/ (client[c] = "open" /\ client'[c] = "closed"),
           client[c] \in {"new", "greeting"} => requests'[c] = requests[c],
           replies'[c] = replies[c],
           session'[c] = session[c] \/ session'[c] = "ended",
           reply'[c] = reply[c]
    PROVE  GreetingAt(c)'
BY DEF GreetingAt, Handling

LEMMA GreetingStep == TypeOK /\ Positions /\ Turns /\ Greeting /\ [Next]_vars => Greeting'
<1> SUFFICES ASSUME TypeOK, Positions, Turns, Greeting, [Next]_vars, NEW d \in Clients
             PROVE  GreetingAt(d)'
    BY GreetingPartsNext
<1>0. /\ GreetingAt(d) /\ ThreadTypes /\ SessionTypes
      /\ \A t \in Threads : Mine(t) \in Clients
      BY GreetingParts, TypeParts, UseAssumption DEF Mine
<1>1. ASSUME UNCHANGED <<client, requests, replies, session, reply>> PROVE GreetingAt(d)'
      BY <1>0, <1>1, GreetingFrame
<1>2. ASSUME NEW c \in Clients, Handshake(c) PROVE GreetingAt(d)'
      <2>1. CASE Connect(c)
            <3>1. CASE d # c
                  BY <1>0, <2>1, <3>1, GreetingFrame DEF Connect, wireVars, ThreadTypes, SessionTypes
            <3>2. CASE d = c
                  BY <1>0, <2>1, <3>2 DEF Connect, wireVars, ThreadTypes, SessionTypes, GreetingAt, Handling
            <3> QED BY <3>1, <3>2
      <2>2. CASE Greeted(c)
            <3>1. CASE d # c
                  BY <1>0, <2>2, <3>1, GreetingFrame DEF Greeted, sessionVars, ThreadTypes, SessionTypes
            <3>2. CASE d = c
                  <4>1. client[c] = "greeting" /\ replies[c] # <<>> /\ replies'[c] = Tail(replies[c])
                        /\ client'[c] = "open" /\ UNCHANGED <<session, reply>>
                        BY <1>0, <2>2 DEF Greeted, sessionVars, ThreadTypes, SessionTypes
                  <4>2. replies[c] = <<HELLO>> /\ session[c] # "writing"
                        BY <1>0, <3>2, <4>1 DEF GreetingAt
                  <4>3. replies'[c] = <<>>
                        BY <4>1, <4>2
                  <4> QED BY <3>2, <4>1, <4>2, <4>3 DEF GreetingAt
            <3> QED BY <3>1, <3>2
      <2>3. CASE NotGreeted(c)
            BY <1>0, <2>3, GreetingFrame DEF NotGreeted, wireVars, sessionVars, ThreadTypes
      <2> QED BY <1>2, <2>1, <2>2, <2>3 DEF Handshake
<1>3. ASSUME NEW c \in Clients, Serve(c) PROVE GreetingAt(d)'
      <2>1. CASE d # c
            <3>1. /\ UNCHANGED client /\ requests'[d] = requests[d] /\ replies'[d] = replies[d]
                  /\ session'[d] = session[d] /\ reply'[d] = reply[d]
                  BY <1>0, <1>3, <2>1
                     DEF Serve, Handle, ReadFrame, EndOfStream, IdleOut, Stats, Reset, Enqueue, List, LookUp,
                         Collect, WriteReply, Answer, Move, clientVars, wireVars, SessionTypes
            <3> QED BY <1>0, <3>1, GreetingFrame
      <2>2. CASE d = c /\ ReadFrame(c)
            <3>1. /\ UNCHANGED <<client, replies, reply>> /\ requests[d] # <<>>
                  /\ session'[d] \in {"ended", "handling"}
                  BY <1>0, <2>2 DEF ReadFrame, Move, clientVars, SessionTypes
            <3>2. client[d] \notin {"new", "greeting"}
                  BY <1>0, <3>1 DEF GreetingAt
            <3> QED BY <1>0, <3>1, <3>2 DEF GreetingAt, Handling
      <2>3. CASE d = c /\ (EndOfStream(c) \/ IdleOut(c))
            BY <1>0, <2>3, GreetingFrame DEF EndOfStream, IdleOut, Move, clientVars, wireVars, SessionTypes
      <2>4. CASE d = c /\ WriteReply(c)
            <3>1. /\ session[d] = "writing" /\ session'[d] \in {"reading", "ended"}
                  /\ UNCHANGED <<client, requests, reply>>
                  /\ \/ replies'[d] = replies[d]
                     \/ replies'[d] = Append(replies[d], reply[d])
                  BY <1>0, <2>4 DEF WriteReply, Move, clientVars, SessionTypes
            <3>2. CASE client[d] \in {"new", "greeting"}
                  <4>1. client[d] = "greeting" /\ reply[d] = HELLO /\ replies[d] = <<>>
                        BY <1>0, <3>1, <3>2 DEF GreetingAt
                  <4>2. replies'[d] = <<>> \/ replies'[d] = <<HELLO>>
                        BY <3>1, <4>1
                  <4> QED BY <1>0, <3>1, <4>1, <4>2 DEF GreetingAt, Handling
            <3>3. CASE client[d] \in {"open", "closed"}
                  <4>1. reply[d] # HELLO /\ replies[d] \in Seq(ReplyFrames)
                        BY <1>0, <3>1, <3>3 DEF GreetingAt, SessionTypes
                  <4>2. \A i \in DOMAIN replies'[d] : replies'[d][i] # HELLO
                        BY <1>0, <3>1, <3>3, <4>1 DEF GreetingAt
                  <4> QED BY <3>1, <3>3, <4>2 DEF GreetingAt
            <3>4. CASE client[d] = "broken"
                  BY <3>1, <3>4 DEF GreetingAt
            <3> QED BY <1>0, <3>2, <3>3, <3>4 DEF ThreadTypes
      <2>5. CASE d = c /\ Handle(c)
            <3>1. Handling(d) /\ UNCHANGED <<client, wireVars>>
                  BY <2>5 DEF Handle, Stats, Reset, Enqueue, List, LookUp, Collect, Handling, clientVars
            <3>2. client[d] \notin {"new", "greeting"}
                  BY <1>0, <3>1 DEF GreetingAt
            <3>3. \/ \E kind \in Answers : Answer(d, kind)
                  \/ UNCHANGED reply /\ \E where \in {"listing", "looking", "waiting"} : Move(d, where)
                  BY <2>5 DEF Handle, Stats, Reset, Enqueue, List, LookUp, Collect, Answers
            <3>4. session'[d] = "writing" => reply'[d] # HELLO
                  BY <1>0, <3>1, <3>3, AnswerTypes DEF Move, SessionTypes
            <3> QED BY <1>0, <3>1, <3>2, <3>4 DEF wireVars, GreetingAt
      <2> QED BY <1>3, <2>1, <2>2, <2>3, <2>4, <2>5 DEF Serve
<1>4. ASSUME NEW t \in Threads, Use(t) PROVE GreetingAt(d)'
      <2>0. at[t] # "idle" => client[Mine(t)] \notin {"new", "greeting"}
            BY DEF Turns
      <2>1. CASE Write(t) \/ SayBye(t)
            <3>1. client[Mine(t)] \notin {"new", "greeting"} /\ UNCHANGED <<client, replies, sessionVars>>
                  BY <2>1 DEF Write, SayBye, clientVars
            <3>2. d # Mine(t) => requests'[d] = requests[d]
                  BY <1>0, <2>1 DEF Write, SayBye, SessionTypes
            <3> QED BY <1>0, <3>1, <3>2, GreetingFrame DEF sessionVars
      <2>2. CASE Read(t)
            <3>1. /\ client[Mine(t)] = "open" /\ replies[Mine(t)] \in Seq(ReplyFrames)
                  /\ replies[Mine(t)] # <<>>
                  BY <2>2, ReplyRead DEF Read
            <3>2. /\ replies' = [replies EXCEPT ![Mine(t)] = Tail(replies[Mine(t)])]
                  /\ UNCHANGED <<client, requests, session, reply>>
                  BY <2>2 DEF Read, Take, sessionVars
            <3>3. CASE d # Mine(t)
                  BY <1>0, <3>2, <3>3, GreetingFrame DEF SessionTypes
            <3>4. CASE d = Mine(t)
                  <4>1. replies'[d] = Tail(replies[d])
                        BY <1>0, <3>2, <3>4 DEF SessionTypes
                  <4>2. \A i \in DOMAIN Tail(replies[d]) :
                           i + 1 \in DOMAIN replies[d] /\ Tail(replies[d])[i] = replies[d][i + 1]
                        BY <3>1, <3>4
                  <4>3. \A i \in DOMAIN replies[d] : replies[d][i] # HELLO
                        BY <1>0, <3>1, <3>4 DEF GreetingAt
                  <4>4. \A i \in DOMAIN replies'[d] : replies'[d][i] # HELLO
                        BY <4>1, <4>2, <4>3
                  <4> QED BY <1>0, <3>1, <3>2, <3>4, <4>4 DEF GreetingAt
            <3> QED BY <3>3, <3>4
      <2>3. CASE Interrupt(t) \/ Lost(t)
            <3>1. /\ client' = [client EXCEPT ![Mine(t)] = "broken"]
                  /\ UNCHANGED <<wireVars, sessionVars>>
                  BY <2>3 DEF Interrupt, Lost, Break
            <3> QED BY <1>0, <3>1, GreetingFrame DEF wireVars, sessionVars, ThreadTypes
      <2>4. CASE HangUp(t)
            <3>1. /\ \/ client' = client
                     \/ client[Mine(t)] = "open" /\ client' = [client EXCEPT ![Mine(t)] = "closed"]
                  /\ UNCHANGED <<wireVars, sessionVars>>
                  BY <2>4 DEF HangUp
            <3>2. client'[d] = client[d] \/ (client[d] = "open" /\ client'[d] = "closed")
                  BY <1>0, <3>1 DEF ThreadTypes
            <3> QED BY <1>0, <3>1, <3>2, GreetingFrame DEF wireVars, sessionVars
      <2>5. CASE Enter(t) \/ \E kind \in Asks : Call(t, kind)
            BY <1>1, <2>5 DEF Enter, Call, clientVars, wireVars, sessionVars
      <2> QED BY <1>4, <2>1, <2>2, <2>3, <2>4, <2>5 DEF Use
<1>5. CASE Die
      BY <1>0, <1>5, GreetingFrame DEF Die, clientVars, wireVars
<1>6. CASE Pool \/ Shut \/ Quiet \/ UNCHANGED vars
      BY <1>1, <1>6 DEF Pool, Shut, Quiet, vars, clientVars, wireVars, sessionVars
<1> QED BY <1>2, <1>3, <1>4, <1>5, <1>6 DEF Next

-----------------------------------------------------------------------------
(* At most one request is under way on a connection.                       *)
InStepAt(c) ==
    client[c] # "broken" =>
        /\ \A i \in DOMAIN requests[c] : requests[c][i] # BYE =>
              /\ i = Len(requests[c]) /\ Owed(c, requests[c][i].of)
              /\ ~Handling(c) /\ ~Answering(c) /\ replies[c] = <<>>
        /\ Handling(c) => Owed(c, frame[c].of) /\ replies[c] = <<>>
        /\ Answering(c) => Owed(c, reply[c].of) /\ replies[c] = <<>>
        /\ \A i \in DOMAIN replies[c] : replies[c][i] # HELLO =>
              Len(replies[c]) = 1 /\ Owed(c, replies[c][i].of)

LEMMA InStepParts == InStep <=> \A c \in Clients : InStepAt(c)
BY DEF InStep, InStepAt

LEMMA InStepPartsNext == InStep' <=> \A c \in Clients : InStepAt(c)'
BY DEF InStep, InStepAt

(* Nobody reads, so nothing is under way but a greeting and BYEs.          *)
Silent(c) ==
    /\ \A i \in DOMAIN requests[c] : requests[c][i] = BYE
    /\ ~Handling(c) /\ ~Answering(c)
    /\ \A i \in DOMAIN replies[c] : replies[c][i] = HELLO

LEMMA SilentUnlessRead ==
    ASSUME NEW c \in Clients, InStepAt(c), client[c] # "broken",
           \A t \in Threads : Mine(t) = c => holder[c] # t \/ at[t] # "reading"
    PROVE  Silent(c)
<1>1. \A r : ~Owed(c, r)
      BY DEF Owed
<1> QED BY <1>1 DEF InStepAt, Silent

LEMMA SilentInStep == ASSUME NEW c \in Clients, Silent(c)' PROVE InStepAt(c)'
BY DEF Silent, InStepAt

(* Steps elsewhere, and steps that only end something.                     *)
LEMMA InStepFrame ==
    ASSUME NEW c \in Clients, InStepAt(c),
           client'[c] # "broken" => client[c] # "broken",
           requests'[c] = requests[c], replies'[c] = replies[c],
           \/ session'[c] = session[c] /\ frame'[c] = frame[c] /\ reply'[c] = reply[c]
           \/ session'[c] \in {"reading", "ended"},
           \A r : Owed(c, r) => Owed(c, r)'
    PROVE  InStepAt(c)'
<1>1. /\ Handling(c)' => Handling(c) /\ frame'[c] = frame[c]
      /\ Answering(c)' => Answering(c) /\ reply'[c] = reply[c]
      BY DEF Handling, Answering
<1> QED BY <1>1 DEF InStepAt

(* A thread's step leaves what others are owed.                            *)
LEMMA OwedElsewhere ==
    ASSUME NEW c \in Clients, NEW t \in Threads, TypeOK,
           Mine(t) # c \/ holder[c] # t \/ at[t] # "reading",
           holder'[c] = holder[c] \/ holder[c] = NoThread,
           \A u \in Threads : u # t => at'[u] = at[u] /\ calls'[u] = calls[u] /\ got'[u] = got[u]
    PROVE  \A r : Owed(c, r) => Owed(c, r)'
<1> SUFFICES ASSUME NEW r, Owed(c, r) PROVE Owed(c, r)'
    OBVIOUS
<1>1. PICK u \in Threads : Mine(u) = c /\ holder[c] = u /\ at[u] = "reading" /\ Request(u) = r
      BY DEF Owed
<1>2. u # t /\ holder'[c] = u
      BY <1>1, UseAssumption
<1>3. at'[u] = "reading" /\ Request(u)' = r /\ Mine(u)' = c
      BY <1>1, <1>2 DEF Request, Mine
<1> QED BY <1>2, <1>3 DEF Owed

(* What is owed while threads and locks stay as they are.                  *)
LEMMA OwedStays ==
    ASSUME UNCHANGED <<holder, threadVars>> PROVE \A c, r : Owed(c, r) = Owed(c, r)'
BY DEF Owed, Request, Mine, threadVars

LEMMA UseInStep ==
    ASSUME TypeOK, Positions, Turns, Greeting, InStep, NEW t \in Threads, Use(t), NEW c \in Clients
    PROVE  InStepAt(c)'
<1>0. /\ InStepAt(c) /\ GreetingAt(c) /\ ThreadTypes /\ SessionTypes
      /\ Mine(t) \in Clients
      BY InStepParts, GreetingParts, TypeParts, UseAssumption DEF Mine
<1>1. CASE \/ Enter(t) \/ \E kind \in Asks : Call(t, kind)
           \/ HangUp(t)
      <2>1. /\ at[t] \in {"asking", "idle", "closing"} /\ UNCHANGED <<wireVars, sessionVars>>
            /\ at'  = [at  EXCEPT ![t] = at'[t]]
            /\ \A u \in Threads : u # t => calls'[u] = calls[u] /\ got'[u] = got[u]
            BY <1>0, <1>1 DEF Enter, Call, HangUp, clientVars, ThreadTypes
      <2>2. /\ holder'[c] = holder[c] \/ holder[c] = NoThread
            /\ client'[c] # "broken" => client[c] # "broken"
            BY <1>0, <1>1 DEF Enter, Call, HangUp, clientVars, ThreadTypes
      <2>3. \A u \in Threads : u # t => at'[u] = at[u]
            BY <1>0, <2>1 DEF ThreadTypes
      <2>4. \A r : Owed(c, r) => Owed(c, r)'
            BY <2>1, <2>2, <2>3, OwedElsewhere
      <2> QED BY <1>0, <2>1, <2>2, <2>4, InStepFrame DEF wireVars, sessionVars
<1>2. CASE c # Mine(t) /\ (Write(t) \/ Read(t) \/ Interrupt(t) \/ Lost(t) \/ SayBye(t))
      <2>1. /\ holder'[c] = holder[c] /\ client'[c] = client[c] /\ UNCHANGED sessionVars
            /\ requests'[c] = requests[c] /\ replies'[c] = replies[c]
            BY <1>0, <1>2 DEF Write, Read, Take, Interrupt, Lost, Break, SayBye, clientVars, wireVars,
                              ThreadTypes, SessionTypes
      <2>2. /\ \A u \in Threads : u # t => calls'[u] = calls[u] /\ got'[u] = got[u]
            /\ \A u \in Threads : u # t => at'[u] = at[u]
            BY <1>0, <1>2 DEF Write, Read, Take, Interrupt, Lost, Break, SayBye, ThreadTypes
      <2>3. \A r : Owed(c, r) => Owed(c, r)'
            BY <1>2, <2>1, <2>2, OwedElsewhere
      <2> QED BY <1>0, <2>1, <2>3, InStepFrame DEF sessionVars
<1>3. CASE c = Mine(t) /\ Write(t)
      <2>0. PICK r, f : r = Request(t) /\ f = Frame(ask[t], r)
            OBVIOUS
      <2>1. /\ at[t] = "writing" /\ client[c] = "open" /\ UNCHANGED <<clientVars, replies, sessionVars>>
            /\ requests'[c] = Append(requests[c], f) /\ requests[c] \in Seq(RequestFrames)
            /\ at'[t] = "reading" /\ UNCHANGED <<calls, got>>
            BY <1>0, <1>3, <2>0 DEF Write, ThreadTypes, SessionTypes
      <2>2. holder[c] = t
            BY <1>3, <2>1 DEF Turns
      <2>3. Silent(c)
            BY <1>0, <2>1, <2>2, SilentUnlessRead
      <2>4. replies[c] = <<>>
            <3>1. replies[c] \in Seq(ReplyFrames)
                  BY <1>0 DEF SessionTypes
            <3>2. \A i \in DOMAIN replies[c] : FALSE
                  BY <1>0, <2>1, <2>3 DEF Silent, GreetingAt
            <3> QED BY <3>1, <3>2, EmptyFacts
      <2>5. f.of = r
            BY <2>0 DEF Frame
      <2>6. Owed(c, r)'
            <3>1. Request(t)' = r /\ Mine(t)' = c /\ holder'[c] = t
                  BY <1>3, <2>0, <2>1, <2>2 DEF Request, Mine, clientVars
            <3> QED BY <2>1, <3>1 DEF Owed
      <2>7. ~Handling(c)' /\ ~Answering(c)' /\ replies'[c] = <<>>
            BY <2>1, <2>3, <2>4 DEF Silent, Handling, Answering, sessionVars
      <2>8. \A i \in DOMAIN requests'[c] :
               requests'[c][i] = BYE \/ (i = Len(requests'[c]) /\ requests'[c][i] = f)
            BY <2>1, <2>3 DEF Silent
      <2> QED BY <2>5, <2>6, <2>7, <2>8 DEF InStepAt
<1>4. CASE c = Mine(t) /\ Read(t)
      <2>1. /\ client[c] = "open" /\ replies[c] \in Seq(ReplyFrames) /\ replies[c] # <<>>
            /\ Head(replies[c]) # HELLO
            BY <1>4, ReplyRead DEF Read
      <2>2. 1 \in DOMAIN replies[c] /\ replies[c][1] # HELLO
            BY <2>1
      <2>3. Len(replies[c]) = 1
            BY <1>0, <2>1, <2>2 DEF InStepAt
      <2>4. replies'[c] = Tail(replies[c]) /\ UNCHANGED <<requests, sessionVars>>
            BY <1>0, <1>4 DEF Read, Take, SessionTypes
      <2>5. replies'[c] = <<>>
            BY <2>1, <2>3, <2>4, EmptyFacts
      <2>6. /\ \A i \in DOMAIN requests[c] : requests[c][i] = BYE
            /\ ~Handling(c) /\ ~Answering(c)
            BY <1>0, <2>1 DEF InStepAt
      <2>7. Silent(c)'
            <3>1. \A i \in DOMAIN replies'[c] : replies'[c][i] = HELLO
                  BY <2>5
            <3>2. ~Handling(c)' /\ ~Answering(c)'
                  BY <2>4, <2>6 DEF Handling, Answering, sessionVars
            <3> QED BY <2>4, <2>6, <3>1, <3>2 DEF Silent
      <2> QED BY <2>7, SilentInStep
<1>5. CASE c = Mine(t) /\ (Interrupt(t) \/ Lost(t))
      BY <1>0, <1>5 DEF Interrupt, Lost, Break, ThreadTypes, InStepAt
<1>6. CASE c = Mine(t) /\ SayBye(t)
      <2>1. /\ holder[c] = NoThread /\ UNCHANGED <<clientVars, replies, sessionVars>>
            /\ requests[c] \in Seq(RequestFrames)
            /\ requests'[c] = requests[c] \/ requests'[c] = Append(requests[c], BYE)
            BY <1>0, <1>6 DEF SayBye, SessionTypes
      <2>2. CASE client[c] = "broken"
            BY <2>1, <2>2 DEF InStepAt, clientVars
      <2>3. CASE client[c] # "broken"
            <3>1. Silent(c)
                  BY <1>0, <2>1, <2>3, SilentUnlessRead, UseAssumption
            <3>2. \A i \in DOMAIN requests'[c] : requests'[c][i] = BYE
                  BY <2>1, <3>1 DEF Silent
            <3>3. Silent(c)'
                  BY <2>1, <3>1, <3>2 DEF Silent, Handling, Answering, sessionVars
            <3> QED BY <3>3, SilentInStep
      <2> QED BY <2>2, <2>3
<1> QED BY <1>1, <1>2, <1>3, <1>4, <1>5, <1>6 DEF Use

LEMMA ServeInStep ==
    ASSUME TypeOK, Positions, Turns, Greeting, InStep, NEW d \in Clients, Serve(d), NEW c \in Clients
    PROVE  InStepAt(c)'
<1>0. /\ InStepAt(c) /\ GreetingAt(c) /\ ThreadTypes /\ SessionTypes
      BY InStepParts, GreetingParts, TypeParts
<1>1. UNCHANGED <<clientVars, threadVars>>
      BY DEF Serve, Handle, ReadFrame, EndOfStream, IdleOut, Stats, Reset, Enqueue, List, LookUp, Collect,
             WriteReply
<1>2. \A r : Owed(c, r) = Owed(c, r)'
      BY <1>1, OwedStays DEF clientVars
<1>3. CASE d # c
      <2>1. /\ requests'[c] = requests[c] /\ replies'[c] = replies[c]
            /\ session'[c] = session[c] /\ frame'[c] = frame[c] /\ reply'[c] = reply[c]
            BY <1>0, <1>3
               DEF Serve, Handle, ReadFrame, EndOfStream, IdleOut, Stats, Reset, Enqueue, List, LookUp,
                   Collect, WriteReply, Answer, Move, wireVars, SessionTypes
      <2> QED BY <1>0, <1>1, <1>2, <2>1, InStepFrame DEF clientVars
<1>4. CASE d = c /\ ReadFrame(c)
      <2>1. /\ session[c] = "reading" /\ requests[c] \in Seq(RequestFrames) /\ requests[c] # <<>>
            /\ requests'[c] = Tail(requests[c]) /\ frame'[c] = Head(requests[c])
            /\ UNCHANGED <<replies, reply>>
            /\ session'[c] = IF Head(requests[c]).kind = "BYE" THEN "ended" ELSE "handling"
            BY <1>0, <1>4 DEF ReadFrame, Move, SessionTypes
      <2>2. /\ 1 \in DOMAIN requests[c] /\ Head(requests[c]) = requests[c][1]
            /\ Head(requests[c]) \in RequestFrames
            BY <2>1
      <2>3. ~Handling(c) /\ ~Answering(c) /\ ~Answering(c)'
            BY <2>1 DEF Handling, Answering
      <2>4. CASE Head(requests[c]) = BYE
            <3>1. session'[c] = "ended"
                  BY <2>1, <2>2, <2>4, FrameFacts
            <3>2. /\ Len(requests'[c]) = Len(requests[c]) - 1
                  /\ \A i \in DOMAIN requests'[c] :
                        i + 1 \in DOMAIN requests[c] /\ requests'[c][i] = requests[c][i + 1]
                  BY <2>1
            <3>3. ~Handling(c)'
                  BY <3>1 DEF Handling
            <3> QED BY <1>0, <1>1, <1>2, <2>1, <2>3, <3>2, <3>3 DEF InStepAt, clientVars
      <2>5. CASE Head(requests[c]) # BYE /\ client[c] # "broken"
            <3>1. Len(requests[c]) = 1 /\ Owed(c, requests[c][1].of) /\ replies[c] = <<>>
                  BY <1>0, <2>2, <2>5 DEF InStepAt
            <3>2. requests'[c] = <<>>
                  BY <2>1, <3>1, EmptyFacts
            <3>3. Owed(c, frame[c].of)'
                  BY <1>2, <2>1, <2>2, <3>1
            <3> QED BY <2>1, <2>3, <3>1, <3>2, <3>3 DEF InStepAt
      <2>6. CASE client[c] = "broken"
            BY <1>1, <2>6 DEF InStepAt, clientVars
      <2> QED BY <2>4, <2>5, <2>6
<1>5. CASE d = c /\ (EndOfStream(c) \/ IdleOut(c))
      <2>1. session'[c] = "ended" /\ UNCHANGED wireVars
            BY <1>0, <1>5 DEF EndOfStream, IdleOut, Move, SessionTypes
      <2> QED BY <1>0, <1>1, <1>2, <2>1, InStepFrame DEF clientVars, wireVars
<1>6. CASE d = c /\ WriteReply(c)
      <2>1. /\ session[c] = "writing" /\ session'[c] \in {"reading", "ended"}
            /\ UNCHANGED <<requests, frame, reply>>
            /\ replies[c] \in Seq(ReplyFrames)
            /\ replies'[c] = replies[c] \/ replies'[c] = Append(replies[c], reply[c])
            BY <1>0, <1>6 DEF WriteReply, Move, SessionTypes
      <2>2. CASE replies'[c] = replies[c]
            BY <1>0, <1>1, <1>2, <2>1, <2>2, InStepFrame DEF clientVars
      <2>3. CASE replies'[c] = Append(replies[c], reply[c]) /\ client[c] # "broken"
            <3>1. ~Handling(c)' /\ ~Answering(c)' /\ ~Handling(c)
                  BY <2>1 DEF Handling, Answering
            <3>2. CASE reply[c] = HELLO
                  <4>1. client[c] = "greeting" /\ replies[c] = <<>> /\ requests[c] = <<>>
                        BY <1>0, <2>1, <2>3, <3>2 DEF GreetingAt, ThreadTypes
                  <4>2. \A i \in DOMAIN replies'[c] : replies'[c][i] = HELLO
                        BY <2>3, <3>2, <4>1
                  <4>3. Silent(c)'
                        BY <2>1, <3>1, <4>1, <4>2 DEF Silent
                  <4> QED BY <4>3, SilentInStep
            <3>3. CASE reply[c] # HELLO
                  <4>1. Answering(c)
                        BY <2>1, <3>3 DEF Answering
                  <4>2. Owed(c, reply[c].of) /\ replies[c] = <<>>
                        BY <1>0, <2>3, <4>1 DEF InStepAt
                  <4>3. \A i \in DOMAIN requests'[c] : requests'[c][i] = BYE
                        BY <1>0, <2>1, <2>3, <4>1 DEF InStepAt
                  <4>4. Len(replies'[c]) = 1 /\ replies'[c][1] = reply[c]
                        BY <2>1, <2>3, <4>2
                  <4>5. DOMAIN replies'[c] = {1}
                        BY <2>1, <2>3, <4>2
                  <4>6. Owed(c, replies[c][1].of)'
                        BY <1>2, <4>2, <4>4
                  <4> QED BY <3>1, <4>3, <4>4, <4>5, <4>6 DEF InStepAt
            <3> QED BY <3>2, <3>3
      <2>4. CASE client[c] = "broken"
            BY <1>1, <2>4 DEF InStepAt, clientVars
      <2> QED BY <2>1, <2>2, <2>3, <2>4
<1>7. CASE d = c /\ Handle(c)
      <2>1. Handling(c) /\ UNCHANGED <<frame, wireVars>>
            BY <1>7 DEF Handle, Stats, Reset, Enqueue, List, LookUp, Collect, Handling
      <2>2. CASE client[c] = "broken"
            BY <1>1, <2>2 DEF InStepAt, clientVars
      <2>3. CASE client[c] # "broken"
            <3>1. /\ Owed(c, frame[c].of) /\ replies[c] = <<>>
                  /\ \A i \in DOMAIN requests[c] : requests[c][i] = BYE
                  BY <1>0, <2>1, <2>3 DEF InStepAt
            <3>2. \/ \E kind \in Answers : Answer(c, kind)
                  \/ UNCHANGED reply /\ \E where \in {"listing", "looking", "waiting"} : Move(c, where)
                  BY <1>7 DEF Handle, Stats, Reset, Enqueue, List, LookUp, Collect, Answers
            <3>3. \/ session'[c] = "writing" /\ reply'[c].of = frame[c].of
                  \/ session'[c] \in {"listing", "looking", "waiting"}
                  BY <1>0, <2>1, <3>2, AnswerTypes DEF Move, SessionTypes
            <3>4. Owed(c, frame[c].of)'
                  BY <1>2, <2>1, <3>1
            <3>5. Answering(c)' => Owed(c, reply[c].of)'
                  BY <1>2, <3>1, <3>3 DEF Answering
            <3> QED BY <2>1, <3>1, <3>4, <3>5 DEF InStepAt, wireVars
      <2> QED BY <2>2, <2>3
<1> QED BY <1>3, <1>4, <1>5, <1>6, <1>7 DEF Serve

LEMMA InStepStep == TypeOK /\ Positions /\ Turns /\ Greeting /\ InStep /\ [Next]_vars => InStep'
<1> SUFFICES ASSUME TypeOK, Positions, Turns, Greeting, InStep, [Next]_vars, NEW c \in Clients
             PROVE  InStepAt(c)'
    BY InStepPartsNext
<1>0. InStepAt(c) /\ GreetingAt(c) /\ ThreadTypes /\ SessionTypes
      BY InStepParts, GreetingParts, TypeParts
<1>1. ASSUME UNCHANGED <<clientVars, threadVars, wireVars, sessionVars>> PROVE InStepAt(c)'
      <2>1. \A r : Owed(c, r) = Owed(c, r)'
            BY <1>1, OwedStays DEF clientVars
      <2> QED BY <1>0, <1>1, <2>1, InStepFrame DEF clientVars, wireVars, sessionVars
<1>2. ASSUME NEW d \in Clients, Handshake(d) PROVE InStepAt(c)'
      <2>1. UNCHANGED <<holder, threadVars>>
            BY <1>2 DEF Handshake, Connect, Greeted, NotGreeted
      <2>2. \A r : Owed(c, r) = Owed(c, r)'
            BY <2>1, OwedStays
      <2>3. CASE d # c
            <3>1. /\ client'[c] = client[c] /\ requests'[c] = requests[c] /\ replies'[c] = replies[c]
                  /\ session'[c] = session[c] /\ frame'[c] = frame[c] /\ reply'[c] = reply[c]
                  BY <1>0, <1>2, <2>3
                     DEF Handshake, Connect, Greeted, NotGreeted, wireVars, sessionVars,
                         ThreadTypes, SessionTypes
            <3> QED BY <1>0, <2>2, <3>1, InStepFrame
      <2>4. CASE d = c /\ Connect(c)
            <3>1. /\ client[c] = "new" /\ UNCHANGED wireVars
                  /\ session'[c] = "writing" /\ reply'[c] = HELLO
                  BY <1>0, <2>4 DEF Connect, SessionTypes
            <3>2. requests'[c] = <<>> /\ replies'[c] = <<>>
                  BY <1>0, <3>1 DEF GreetingAt, wireVars
            <3>3. Silent(c)'
                  BY <3>1, <3>2 DEF Silent, Handling, Answering
            <3> QED BY <3>3, SilentInStep
      <2>5. CASE d = c /\ Greeted(c)
            <3>1. /\ client[c] = "greeting" /\ replies[c] # <<>> /\ replies'[c] = Tail(replies[c])
                  /\ UNCHANGED <<requests, sessionVars>>
                  BY <1>0, <2>5 DEF Greeted, SessionTypes
            <3>2. replies[c] = <<HELLO>> /\ session[c] # "writing" /\ requests[c] = <<>> /\ ~Handling(c)
                  BY <1>0, <3>1 DEF GreetingAt
            <3>3. replies'[c] = <<>>
                  BY <3>1, <3>2
            <3>4. Silent(c)'
                  BY <3>1, <3>2, <3>3 DEF Silent, Handling, Answering, sessionVars
            <3> QED BY <3>4, SilentInStep
      <2>6. CASE d = c /\ NotGreeted(c)
            BY <1>0, <2>6 DEF NotGreeted, ThreadTypes, InStepAt
      <2> QED BY <1>2, <2>3, <2>4, <2>5, <2>6 DEF Handshake
<1>3. ASSUME NEW d \in Clients, Serve(d) PROVE InStepAt(c)'
      BY <1>3, ServeInStep
<1>4. ASSUME NEW t \in Threads, Use(t) PROVE InStepAt(c)'
      BY <1>4, UseInStep
<1>5. CASE Die
      <2>1. session'[c] = "ended" /\ UNCHANGED <<clientVars, threadVars, wireVars>>
            BY <1>5 DEF Die
      <2>2. \A r : Owed(c, r) = Owed(c, r)'
            BY <2>1, OwedStays DEF clientVars
      <2> QED BY <1>0, <2>1, <2>2, InStepFrame DEF clientVars, wireVars
<1>6. CASE Pool \/ Shut \/ Quiet \/ UNCHANGED vars
      BY <1>1, <1>6 DEF Pool, Shut, Quiet, vars
<1> QED BY <1>2, <1>3, <1>4, <1>5, <1>6 DEF Next

(* What a thread has read answers its own requests.                        *)
LEMMA PredictionsStep ==
    TypeOK /\ Positions /\ Turns /\ Greeting /\ InStep /\ OwnPredictions /\ [Next]_vars
        => OwnPredictions'
<1> SUFFICES ASSUME TypeOK, Positions, Turns, Greeting, InStep, OwnPredictions, [Next]_vars
             PROVE  OwnPredictions'
    OBVIOUS
<1>0. ThreadTypes
      BY TypeParts
<1>1. ASSUME UNCHANGED <<calls, got>> PROVE OwnPredictions'
      BY <1>1 DEF OwnPredictions
<1>2. ASSUME NEW c \in Clients, Handshake(c) \/ Serve(c) PROVE OwnPredictions'
      BY <1>1, <1>2 DEF Handshake, Connect, Greeted, NotGreeted, Serve, Handle, ReadFrame, EndOfStream,
                        IdleOut, Stats, Reset, Enqueue, List, LookUp, Collect, WriteReply, threadVars
<1>3. ASSUME NEW t \in Threads, Use(t) PROVE OwnPredictions'
      <2>1. CASE SayBye(t) \/ \E kind \in Asks : Call(t, kind)
            <3>1. /\ \A u \in Threads : u # t => got'[u] = got[u] /\ calls'[u] = calls[u]
                  /\ got'[t] = <<>>
                  BY <1>0, <2>1 DEF SayBye, Call, ThreadTypes
            <3> QED BY <3>1 DEF OwnPredictions
      <2>2. CASE Read(t)
            <3> DEFINE c == Mine(t)
                       f == Head(replies[c])
            <3>1. /\ client[c] = "open" /\ c \in Clients /\ replies[c] \in Seq(ReplyFrames)
                  /\ replies[c] # <<>> /\ f # HELLO
                  BY <2>2, ReplyRead DEF Read
            <3>2. 1 \in DOMAIN replies[c] /\ replies[c][1] = f
                  BY <3>1
            <3>3. Owed(c, f.of)
                  BY <3>1, <3>2, InStepParts DEF InStepAt
            <3>4. holder[c] = t
                  BY <2>2 DEF Read, Take, Turns
            <3>5. f.of = <<t, calls[t], Len(got[t]) + 1>>
                  BY <3>3, <3>4 DEF Owed, Request
            <3>6. /\ UNCHANGED calls
                  /\ \/ got' = got
                     \/ got' = [got EXCEPT ![t] = Append(got[t], f.of)]
                  BY <2>2 DEF Read, Take
            <3>7. ASSUME got' = [got EXCEPT ![t] = Append(got[t], f.of)], NEW u \in Threads,
                         NEW i \in DOMAIN got'[u]
                  PROVE  got'[u][i] = <<u, calls'[u], i>>
                  <4>1. CASE u # t
                        <5>1. got'[u] = got[u] /\ calls'[u] = calls[u]
                              BY <1>0, <3>6, <3>7, <4>1 DEF ThreadTypes
                        <5> QED BY <3>7, <5>1 DEF OwnPredictions
                  <4>2. CASE u = t
                        <5>1. got'[t] = Append(got[t], f.of) /\ got[t] \in Seq(Requests)
                              BY <1>0, <3>7 DEF ThreadTypes
                        <5>2. CASE i \in DOMAIN got[t]
                              <6>1. got'[t][i] = got[t][i]
                                    BY <5>1, <5>2
                              <6> QED BY <3>6, <4>2, <5>2, <6>1 DEF OwnPredictions
                        <5>3. CASE i = Len(got[t]) + 1
                              <6>1. got'[t][i] = f.of
                                    BY <5>1, <5>3
                              <6> QED BY <3>5, <3>6, <4>2, <5>3, <6>1
                        <5>4. i \in DOMAIN got[t] \/ i = Len(got[t]) + 1
                              BY <3>7, <4>2, <5>1
                        <5> QED BY <5>2, <5>3, <5>4
                  <4> QED BY <4>1, <4>2
            <3> QED BY <1>1, <3>6, <3>7 DEF OwnPredictions
      <2>3. CASE ~SayBye(t) /\ ~Read(t) /\ ~(\E kind \in Asks : Call(t, kind))
            BY <1>1, <1>3, <2>3 DEF Use, Enter, Write, Interrupt, Lost, HangUp
      <2> QED BY <2>1, <2>2, <2>3
<1>4. CASE Pool \/ Shut \/ Die \/ Quiet \/ UNCHANGED vars
      BY <1>1, <1>4 DEF Pool, Shut, Die, Quiet, vars, threadVars
<1> QED BY <1>2, <1>3, <1>4 DEF Next

-----------------------------------------------------------------------------
(***************************************************************************)
(* The theorems.                                                           *)
(***************************************************************************)
Inv == TypeOK /\ Positions /\ Turns /\ Greeting /\ InStep /\ OwnPredictions

LEMMA InvInit == Init => Inv
<1> SUFFICES ASSUME Init PROVE Inv
    OBVIOUS
<1> USE UseAssumption, SizeAssumption
<1>1. ThreadTypes
      <2>1. <<>> \in Seq(Requests) /\ Len(<<>>) = 0
            OBVIOUS
      <2>2. got \in [Threads -> Seq(Requests)] /\ \A t \in Threads : Len(got[t]) <= Pieces
            BY <2>1 DEF Init
      <2> QED BY <2>2 DEF Init, ThreadTypes, Asks
<1>2. SessionTypes
      <2>1. <<>> \in Seq(RequestFrames) /\ <<>> \in Seq(ReplyFrames)
            OBVIOUS
      <2> QED BY <2>1, FrameFacts DEF Init, SessionTypes
<1>3. QueueTypes
      BY DEF Init, QueueTypes, Queue!Init, Queue!Fates
<1>4. Positions
      BY DEF Init, Positions, ThreadsAt, SessionsAt, Handling
<1>5. Turns
      BY DEF Init, Turns, Mine
<1>6. Greeting
      BY DEF Init, Greeting, Handling
<1>7. InStep
      BY DEF Init, InStep, Handling, Answering
<1>8. OwnPredictions
      BY DEF Init, OwnPredictions
<1> QED BY <1>1, <1>2, <1>3, <1>4, <1>5, <1>6, <1>7, <1>8, TypeParts DEF Inv

LEMMA InvStep == Inv /\ [Next]_vars => Inv'
<1> SUFFICES ASSUME Inv, [Next]_vars PROVE Inv'
    OBVIOUS
<1>1. ThreadTypes' /\ ThreadsAt' /\ SessionTypes' /\ SessionsAt' /\ QueueTypes'
      BY ThreadStep, SessionStep DEF Inv
<1>2. TypeOK' /\ Positions'
      BY <1>1, TypePartsNext DEF Positions
<1> QED BY <1>2, TurnsStep, GreetingStep, InStepStep, PredictionsStep DEF Inv

LEMMA InvAlways == Spec => []Inv
BY InvInit, InvStep, PTL DEF Spec

(* Type correctness: what a session answers and a thread reads are frames  *)
(* of requests, never the greeting or BYE.                                 *)
THEOREM TypeCorrect == Spec => []TypeOK
<1>1. Inv => TypeOK
      BY DEF Inv
<1> QED BY <1>1, InvAlways, PTL

(* Requests and replies stay in step on every connection that is not       *)
(* broken, however threads share the client, close it or are interrupted.  *)
THEOREM ConnectionsInStep == Spec => []InStep
<1>1. Inv => InStep
      BY DEF Inv
<1> QED BY <1>1, InvAlways, PTL

(* The client never hands one batch another's predictions: each piece that *)
(* a call has got is the answer to that piece's own request.               *)
THEOREM PredictionsAreOwn == Spec => []OwnPredictions
<1>1. Inv => OwnPredictions
      BY DEF Inv
<1> QED BY <1>1, InvAlways, PTL

(* A batch is dropped only once it is off the list.                        *)
DroppedIsGone == \A b \in Requests : fate[b] = "dropped" => listing[b] = "gone"

Held(b) == \E c \in Clients : session[c] \in {"looking", "waiting"} /\ frame[c].of = b

LEMMA HeldElsewhere ==
    ASSUME NEW c \in Clients, NEW b \in Requests, Held(b),
           session[c] \notin {"looking", "waiting"} \/ frame[c].of # b,
           \A d \in Clients : d # c => session'[d] = session[d] /\ frame'[d] = frame[d]
    PROVE  Held(b)'
BY DEF Held

LEMMA DroppedStep == TypeOK /\ DroppedIsGone /\ [Next]_vars => DroppedIsGone'
<1> SUFFICES ASSUME TypeOK, DroppedIsGone, [Next]_vars PROVE DroppedIsGone'
    OBVIOUS
<1>0. fate \in [Requests -> Queue!Fates] /\ listing \in [Requests -> {"new", "listed", "gone"}]
      BY DEF TypeOK
<1>1. ASSUME UNCHANGED queueVars PROVE DroppedIsGone'
      BY <1>1 DEF queueVars, DroppedIsGone
<1>2. ASSUME Queue!Forget PROVE DroppedIsGone'
      BY <1>0, <1>2 DEF Queue!Forget, DroppedIsGone
<1>3. ASSUME NEW b, \/ Queue!Accept(b) \/ Queue!Begin(b) \/ Queue!Finish(b) \/ Queue!Drop(b)
      PROVE  DroppedIsGone'
      BY <1>0, <1>3 DEF Queue!Accept, Queue!Begin, Queue!Finish, Queue!Drop, Queue!Become, DroppedIsGone
<1>4. ASSUME NEW b, \/ Queue!Refuse(b) \/ Queue!List(b) \/ Queue!Fail(b) \/ Queue!Answer(b)
      PROVE  DroppedIsGone'
      BY <1>0, <1>4 DEF Queue!Refuse, Queue!List, Queue!Fail, Queue!Answer, Queue!Relist, DroppedIsGone
<1>5. ASSUME NEW c \in Clients, Handshake(c) \/ Serve(c) PROVE DroppedIsGone'
      BY <1>1, <1>2, <1>3, <1>4, <1>5
         DEF Handshake, Connect, Greeted, NotGreeted, Serve, Handle, ReadFrame, EndOfStream, IdleOut,
             Stats, Reset, Enqueue, List, LookUp, Collect, WriteReply
<1>6. ASSUME NEW t \in Threads, Use(t) PROVE DroppedIsGone'
      BY <1>1, <1>6 DEF Use, Call, Enter, Write, Read, Take, Interrupt, Lost, SayBye, HangUp
<1>7. CASE Pool \/ Shut \/ Die \/ Quiet \/ UNCHANGED vars
      BY <1>1, <1>3, <1>7 DEF Pool, Begin, Finish, Drop, Shut, Die, Quiet, vars
<1> QED BY <1>5, <1>6, <1>7 DEF Next

LEMMA LeftStep == Inv /\ DroppedIsGone /\ NothingLeftBehind /\ [Next]_vars => NothingLeftBehind'
<1> SUFFICES ASSUME Inv, DroppedIsGone, NothingLeftBehind, [Next]_vars,
                    server' # "dead", NEW b \in Requests, listing'[b] = "listed"
             PROVE  Held(b)'
    BY DEF NothingLeftBehind, Held
<1>0. ThreadTypes /\ SessionTypes /\ QueueTypes /\ SessionsAt /\ Greeting
      BY TypeParts DEF Inv, Positions
<1>1. server # "dead"
      BY DEF Next, Handshake, Connect, Greeted, NotGreeted, Serve, Handle, ReadFrame, EndOfStream,
             IdleOut, Stats, Reset, Enqueue, List, LookUp, Collect, WriteReply, Use, Call, Enter, Write,
             Read, Take, Interrupt, Lost, SayBye, HangUp, Pool, Shut, Die, Quiet, vars
<1>2. listing[b] = "listed" => Held(b)
      BY <1>1 DEF NothingLeftBehind, Held
<1>3. ASSUME UNCHANGED <<session, frame>>, listing'[b] = listing[b] PROVE Held(b)'
      BY <1>2, <1>3 DEF Held
<1>4. ASSUME NEW c \in Clients, Handshake(c) PROVE Held(b)'
      <2>1. CASE Connect(c)
            <3>1. session[c] \notin {"looking", "waiting"}
                  BY <1>0, <2>1 DEF Connect, Greeting
            <3>2. /\ \A d \in Clients : d # c => session'[d] = session[d] /\ frame'[d] = frame[d]
                  /\ listing'[b] = listing[b]
                  BY <1>0, <2>1 DEF Connect, queueVars, SessionTypes
            <3> QED BY <1>2, <3>1, <3>2, HeldElsewhere
      <2>2. CASE Greeted(c) \/ NotGreeted(c)
            BY <1>3, <2>2 DEF Greeted, NotGreeted, sessionVars, queueVars
      <2> QED BY <1>4, <2>1, <2>2 DEF Handshake
<1>5. ASSUME NEW c \in Clients, Serve(c) PROVE Held(b)'
      <2>0. \A d \in Clients : d # c => session'[d] = session[d] /\ frame'[d] = frame[d]
            BY <1>0, <1>5 DEF Serve, Handle, ReadFrame, EndOfStream, IdleOut, Stats, Reset, Enqueue, List,
                              LookUp, Collect, WriteReply, Answer, Move, SessionTypes
      <2>1. CASE ReadFrame(c) \/ EndOfStream(c) \/ IdleOut(c) \/ WriteReply(c) \/ Stats(c)
            <3>1. session[c] \notin {"looking", "waiting"} /\ UNCHANGED listing
                  BY <2>1 DEF ReadFrame, EndOfStream, IdleOut, WriteReply, Stats, queueVars
            <3> QED BY <1>2, <2>0, <3>1, HeldElsewhere
      <2>2. CASE Reset(c)
            BY <1>0, <2>2 DEF Reset, Queue!Forget, QueueTypes
      <2>3. CASE Enqueue(c)
            <3>1. session[c] = "handling"
                  BY <2>3 DEF Enqueue
            <3>2. listing[b] = "listed"
                  BY <1>0, <2>3 DEF Enqueue, Queue!Accept, Queue!Refuse, Queue!Relist, QueueTypes
            <3> QED BY <1>2, <2>0, <3>1, <3>2, HeldElsewhere
      <2>4. CASE List(c)
            <3>1. session[c] = "listing" /\ session'[c] = "looking" /\ frame' = frame
                  BY <1>0, <2>4 DEF List, Move, SessionTypes
            <3>2. CASE frame[c].of = b
                  BY <3>1, <3>2 DEF Held
            <3>3. CASE frame[c].of # b
                  <4>1. listing[b] = "listed"
                        BY <1>0, <2>4, <3>3 DEF List, Queue!List, Queue!Relist, QueueTypes
                  <4> QED BY <1>2, <2>0, <3>3, <4>1, HeldElsewhere
            <3> QED BY <3>2, <3>3
      <2>5. CASE LookUp(c)
            <3>1. session[c] = "looking" /\ frame' = frame /\ listing' = listing
                  BY <2>5 DEF LookUp, queueVars
            <3>2. CASE frame[c].of = b
                  <4>1. session'[c] = "waiting"
                        BY <1>0, <2>5, <3>1, <3>2 DEF LookUp, Move, SessionTypes
                  <4> QED BY <3>1, <3>2, <4>1 DEF Held
            <3>3. CASE frame[c].of # b
                  BY <1>2, <2>0, <3>1, <3>3, HeldElsewhere
            <3> QED BY <3>2, <3>3
      <2>6. CASE Collect(c)
            <3>1. frame[c].of \in Requests
                  BY <1>0, <2>6, FrameFacts DEF Collect, SessionTypes, SessionsAt, Handling
            <3>2. frame[c].of # b
                  <4>1. listing'[frame[c].of] = "gone"
                        BY <1>0, <2>6, <3>1
                           DEF Collect, Queue!Answer, Queue!Fail, Queue!Relist, QueueTypes, DroppedIsGone,
                               queueVars
                  <4> QED BY <4>1
            <3>3. listing[b] = "listed"
                  BY <1>0, <2>6, <3>2 DEF Collect, Queue!Answer, Queue!Fail, Queue!Relist, QueueTypes, queueVars
            <3> QED BY <1>2, <2>0, <3>2, <3>3, HeldElsewhere
      <2> QED BY <1>5, <2>1, <2>2, <2>3, <2>4, <2>5, <2>6 DEF Serve, Handle
<1>6. ASSUME NEW t \in Threads, Use(t) PROVE Held(b)'
      BY <1>3, <1>6 DEF Use, Call, Enter, Write, Read, Take, Interrupt, Lost, SayBye, HangUp,
                        sessionVars, queueVars
<1>7. CASE Pool
      BY <1>3, <1>7 DEF Pool, Begin, Finish, Drop, Queue!Begin, Queue!Finish, Queue!Drop, sessionVars
<1>8. CASE Shut \/ Quiet \/ UNCHANGED vars
      BY <1>3, <1>8 DEF Shut, Quiet, vars, sessionVars, queueVars
<1>9. ~Die
      BY DEF Die
<1> QED BY <1>4, <1>5, <1>6, <1>7, <1>8, <1>9 DEF Next

(* The server's queue holds a batch only while a session is handling it:   *)
(* neither errors nor resets nor lost clients leave one behind.            *)
THEOREM QueueKeepsNothing == Spec => []NothingLeftBehind
<1>1. Init => DroppedIsGone /\ NothingLeftBehind
      BY DEF Init, Queue!Init, DroppedIsGone, NothingLeftBehind
<1>2. Inv /\ DroppedIsGone /\ [Next]_vars => DroppedIsGone'
      BY DroppedStep DEF Inv
<1> QED BY <1>1, <1>2, LeftStep, InvAlways, PTL DEF Spec

=============================================================================

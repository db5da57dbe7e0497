-------------------------- MODULE WorkerPoolProofs --------------------------
(***************************************************************************)
(* For any number of workers, calls and cancels, and whichever workers     *)
(* fail: a job that asked for the machine runs while no other worker does, *)
(* no cancel is lost, no job waits without a reason, and the shots that a  *)
(* stream reports are those of its parts.                                  *)
(***************************************************************************)
EXTENDS WorkerPool, FiniteSetTheorems, SequenceTheorems, WellFoundedInduction, TLAPS

-----------------------------------------------------------------------------
Messages == [type : {"job", "module", "cancel", "done", "error", "progress", "crash"}, of : Nat, runs : Nat, stopped : BOOLEAN]
Called   == [kind : {"plain", "alone", "part", "stream"}, runs : Nat, parts : SUBSET Nat]

Shapes ==
    /\ phase \in [Workers -> Phases] /\ current \in [Workers -> Nat]
    /\ toWorker \in [Workers -> Seq(Messages)] /\ toPage \in [Workers -> Seq(Messages)]
    /\ alive \in [Workers -> BOOLEAN] /\ job \in [Workers -> Nat] /\ done \in [Workers -> Nat]
    /\ calls \in Seq(Called) /\ alone \in BOOLEAN
    /\ started \in Nat /\ size \in Int /\ limit \in Int

(* What waits and what is held was called, and workers start in order.     *)
Held == {"running", "settled", "freeing"}

Waits(q, calling) == q \in Seq(Nat) /\ \A i \in DOMAIN q : q[i] \in DOMAIN calling
Placed(ph, cur, calling) ==
    \A w \in Workers : /\ w > started => ph[w] = "off"
                       /\ ph[w] \in Held => cur[w] \in DOMAIN calling

(* The flag is up while a job that asked for the machine is held, and then *)
(* no other worker is at work or starting.                                 *)
Resting == {"off", "idle"}
Exclusive(ph, cur, calling, flag) ==
    \A w \in Workers : ph[w] \in Held /\ calling[cur[w]].kind = "alone" =>
        flag /\ \A v \in Workers \ {w} : ph[v] \in Resting

(* A worker that lives has at most one thing: a message of work on its     *)
(* way, a job, or an answer on its way; and none that no one waits for.    *)
Of(s, type) == {n \in DOMAIN s : s[n].type # type}
Work(w)     == Of(toWorker[w], "cancel")
Answers(w)  == Of(toPage[w], "progress")

OneThing(w) ==
    /\ \A m, n \in Work(w) : m = n
    /\ \A m, n \in Answers(w) : m = n
    /\ job[w] # None => Work(w) = {} /\ Answers(w) = {}
    /\ Work(w) # {} => Answers(w) = {}
Nothing(w) == Work(w) = {} /\ Answers(w) = {} /\ job[w] = None

Asking == {"handing", "running"}
Channels(ph) == \A w \in Workers : alive[w] => OneThing(w) /\ (ph[w] \notin Asking => Nothing(w))

Inv ==
    /\ Shapes
    /\ Waits(queue, calls)
    /\ Placed(phase, current, calls)
    /\ Exclusive(phase, current, calls, alone)
    /\ Channels(phase)

-----------------------------------------------------------------------------
(* The library's minimum and maximum, where they are used.                 *)
LEMMA MinOfTwo ==
    ASSUME NEW a \in Int, NEW b \in Int
    PROVE  Min({a, b}) \in {a, b} /\ Min({a, b}) <= a /\ Min({a, b}) <= b
<1>1. \E x \in {a, b} : \A y \in {a, b} : x <= y
      OBVIOUS
<1> QED BY <1>1 DEF Min

LEMMA MaxOfTwo ==
    ASSUME NEW a \in Int, NEW b \in Int
    PROVE  Max({a, b}) \in {a, b} /\ Max({a, b}) >= a /\ Max({a, b}) >= b
<1>1. \E x \in {a, b} : \A y \in {a, b} : x >= y
      OBVIOUS
<1> QED BY <1>1 DEF Max

LEMMA WillStartBounds ==
    ASSUME NEW wanted \in Int, Shapes
    PROVE  WillStart(wanted) \in Nat /\ (wanted <= 0 => WillStart(wanted) = 0)
<1> DEFINE m == Min({wanted, limit - started})
<1>1. m \in Int /\ m <= wanted
      <2>1. limit - started \in Int
            BY DEF Shapes
      <2> QED BY <2>1, MinOfTwo
<1>2. WillStart(wanted) = Max({0, m})
      BY DEF WillStart
<1> HIDE DEF m
<1>3. Max({0, m}) \in {0, m} /\ Max({0, m}) >= 0
      BY <1>1, MaxOfTwo
<1>4. wanted <= 0 => Max({0, m}) = 0
      BY <1>1, <1>3
<1> QED BY <1>1, <1>2, <1>3, <1>4

(* A set of natural numbers that is not empty has a least element.         *)
LEMMA LeastNatural ==
    ASSUME NEW S \in SUBSET Nat, S # {}
    PROVE  \E x \in S : \A y \in S : x <= y
<1> DEFINE less == {ss \in Nat \X Nat : ss[1] < ss[2]}
<1>1. IsWellFoundedOn(less, Nat)
      BY NatLessThanWellFounded DEF OpToRel
<1>2. PICK x \in S : \A y \in S : ~(<<y, x>> \in less)
      <2> HIDE DEF less
      <2> QED BY <1>1, WFMin
<1>3. ASSUME NEW y \in S PROVE x <= y
      <2>1. ~(<<y, x>> \in less) /\ y \in Nat /\ x \in Nat
            BY <1>2
      <2> QED BY <2>1
<1> QED BY <1>3

LEMMA SharingOnly ==
    ASSUME NEW q \in Seq(Nat), NEW calling
    PROVE  /\ Sharing(q, calling) \in 0..Len(q)
           /\ \A i \in 1..Sharing(q, calling) : calling[q[i]].kind # "alone"
           /\ Sharing(q, calling) < Len(q) => calling[q[Sharing(q, calling) + 1]].kind = "alone"
<1> DEFINE alones  == {i \in 1..Len(q) : calling[q[i]].kind = "alone"}
           sharing == {n \in 0..Len(q) : \A i \in 1..n : calling[q[i]].kind # "alone"}
<1>1. \E x \in sharing : \A y \in sharing : x >= y
      <2>1. CASE alones = {}
            <3>1. Len(q) \in sharing
                  BY <2>1
            <3> QED BY <3>1
      <2>2. CASE alones # {}
            <3>1. PICK i \in alones : \A j \in alones : i <= j
                  <4>1. alones \subseteq Nat
                        OBVIOUS
                  <4> HIDE DEF alones
                  <4> QED BY <2>2, <4>1, LeastNatural
            <3>2. i - 1 \in sharing
                  BY <3>1
            <3>3. ASSUME NEW y \in sharing PROVE y <= i - 1
                  OBVIOUS
            <3> QED BY <3>2, <3>3
      <2> QED BY <2>1, <2>2
<1>2. Sharing(q, calling) \in sharing /\ \A y \in sharing : Sharing(q, calling) >= y
      BY <1>1 DEF Sharing, Max
<1>3. ASSUME Sharing(q, calling) < Len(q), calling[q[Sharing(q, calling) + 1]].kind # "alone" PROVE FALSE
      <2>1. Sharing(q, calling) + 1 \in sharing
            BY <1>2, <1>3
      <2> QED BY <1>2, <2>1
<1> QED BY <1>2, <1>3

-----------------------------------------------------------------------------
(* Messages sent and taken.                                                *)
LEMMA Sent ==
    ASSUME NEW s \in Seq(Messages), NEW m \in Messages, NEW type
    PROVE  /\ Append(s, m) \in Seq(Messages)
           /\ m.type = type => Of(Append(s, m), type) = Of(s, type)
           /\ m.type # type => Of(Append(s, m), type) = Of(s, type) \cup {Len(s) + 1}
<1>1. /\ Append(s, m) \in Seq(Messages) /\ Len(Append(s, m)) = Len(s) + 1
      /\ \A i \in 1..Len(s) : Append(s, m)[i] = s[i]
      /\ Append(s, m)[Len(s) + 1] = m /\ Len(s) \in Nat
      BY AppendProperties
<1>2. DOMAIN s = 1..Len(s) /\ DOMAIN Append(s, m) = 1..(Len(s) + 1)
      BY <1>1
<1> QED BY <1>1, <1>2 DEF Of

LEMMA Taken ==
    ASSUME NEW s \in Seq(Messages), s # <<>>, NEW type
    PROVE  /\ Tail(s) \in Seq(Messages) /\ Head(s) \in Messages
           /\ Of(s, type) = {} => Of(Tail(s), type) = {}
           /\ (\A m, n \in Of(s, type) : m = n) =>
                 /\ \A m, n \in Of(Tail(s), type) : m = n
                 /\ Head(s).type # type => Of(s, type) # {} /\ Of(Tail(s), type) = {}
<1>1. /\ Tail(s) \in Seq(Messages) /\ Len(Tail(s)) = Len(s) - 1 /\ Len(s) \in Nat /\ Len(s) > 0
      /\ \A i \in 1..Len(Tail(s)) : Tail(s)[i] = s[i + 1]
      /\ Head(s) = s[1] /\ Head(s) \in Messages
      BY HeadTailProperties
<1>2. ASSUME NEW n \in Of(Tail(s), type) PROVE n + 1 \in Of(s, type) /\ n \in Nat /\ n > 0
      BY <1>1 DEF Of
<1>3. Head(s).type # type => 1 \in Of(s, type)
      BY <1>1 DEF Of
<1>4. Of(s, type) = {} => Of(Tail(s), type) = {}
      BY <1>2
<1>5. ASSUME \A m, n \in Of(s, type) : m = n, NEW m \in Of(Tail(s), type), NEW n \in Of(Tail(s), type) PROVE m = n
      <2>1. m + 1 = n + 1
            BY <1>2, <1>5
      <2> QED BY <1>2, <2>1
<1>6. ASSUME \A m, n \in Of(s, type) : m = n, Head(s).type # type, NEW n \in Of(Tail(s), type) PROVE FALSE
      <2>1. n + 1 = 1
            BY <1>2, <1>3, <1>6
      <2> QED BY <1>2, <2>1
<1> QED BY <1>1, <1>3, <1>4, <1>5, <1>6

(* A job, and a cancel behind it if it was cancelled while it waited.      *)
LEMMA Posted ==
    ASSUME Shapes, NEW w \in Workers, NEW i \in Nat
    PROVE  /\ PostJob(w, i) \in Seq(Messages)
           /\ Work(w) = {} => \A m, n \in Of(PostJob(w, i), "cancel") : m = n
<1> DEFINE s == toWorker[w]
           t == Append(s, Message("job", i, 0, FALSE))
           c == Message("cancel", i, 0, FALSE)
<1>1. s \in Seq(Messages) /\ Message("job", i, 0, FALSE) \in Messages /\ c \in Messages
      BY DEF Shapes, Messages, Message
<1>2. Message("job", i, 0, FALSE).type = "job" /\ c.type = "cancel"
      BY DEF Message
<1>3. t \in Seq(Messages) /\ Of(t, "cancel") = Of(s, "cancel") \cup {Len(s) + 1}
      BY <1>1, <1>2, Sent
<1> HIDE DEF s, t, c
<1>4. Append(t, c) \in Seq(Messages) /\ Of(Append(t, c), "cancel") = Of(t, "cancel") /\ Append(t, c) = t \o <<c>>
      BY <1>1, <1>2, <1>3, Sent, AppendIsConcat
<1>5. PostJob(w, i) \in {t, Append(t, c)}
      <2>1. t \o <<>> = t
            BY <1>3, ConcatEmptySeq
      <2> QED BY <1>4, <2>1 DEF PostJob, s, t, c
<1>6. Work(w) = {} => \A m, n \in Of(t, "cancel") : m = n
      BY <1>3 DEF Work, s
<1>7. CASE PostJob(w, i) = t
      BY <1>3, <1>6, <1>7
<1>8. CASE PostJob(w, i) = Append(t, c)
      BY <1>4, <1>6, <1>8
<1> QED BY <1>5, <1>7, <1>8

-----------------------------------------------------------------------------
(***************************************************************************)
(* #pump.                                                                  *)
(***************************************************************************)
LEMMA IdleFinite ==
    ASSUME NEW ph
    PROVE  IsFiniteSet(Idle(ph)) /\ IsFiniteSet(Starting(ph))
<1>1. IsFiniteSet(Workers)
      BY PoolAssumption, FS_Interval DEF Workers
<1> QED BY <1>1, FS_Subset DEF Idle, Starting

Rank(w, ph) == Cardinality({v \in Idle(ph) : v <= w})

(* Workers take turns: two of them are not the first.                      *)
LEMMA Ranked ==
    ASSUME NEW ph, NEW w \in Idle(ph)
    PROVE  /\ Rank(w, ph) \in Nat \ {0}
           /\ \A u \in Idle(ph) : Rank(w, ph) <= 1 /\ Rank(u, ph) <= 1 => u = w
           /\ \A u \in Idle(ph) : Rank(w, ph) = Rank(u, ph) => u = w
<1> DEFINE upTo(x) == {v \in Idle(ph) : v <= x}
<1>1. ASSUME NEW x \in Idle(ph) PROVE IsFiniteSet(upTo(x)) /\ x \in upTo(x) /\ Cardinality(upTo(x)) \in Nat \ {0} /\ x \in Int
      <2>1. x \in Int
            BY DEF Idle, Workers
      <2>2. IsFiniteSet(upTo(x)) /\ x \in upTo(x)
            BY <2>1, IdleFinite, FS_Subset
      <2>3. Cardinality(upTo(x)) # 0 /\ Cardinality(upTo(x)) \in Nat
            BY <2>2, FS_EmptySet, FS_CardinalityType
      <2> QED BY <2>1, <2>2, <2>3
<1>2. ASSUME NEW x \in Idle(ph), NEW y \in Idle(ph), x < y PROVE Cardinality(upTo(y)) > 1 /\ Cardinality(upTo(x)) < Cardinality(upTo(y))
      <2>1. upTo(x) \in SUBSET upTo(y) /\ ~(y \in upTo(x)) /\ y \in upTo(y)
            BY <1>1, <1>2 DEF Idle, Workers
      <2>2. Cardinality(upTo(x)) <= Cardinality(upTo(y)) /\ Cardinality(upTo(x)) # Cardinality(upTo(y))
            BY <1>1, <2>1, FS_Subset
      <2> HIDE DEF upTo
      <2>3. Cardinality(upTo(x)) \in Nat \ {0} /\ Cardinality(upTo(y)) \in Nat
            BY <1>1
      <2> QED BY <2>2, <2>3
<1>3. ASSUME NEW u \in Idle(ph), Rank(w, ph) <= 1, Rank(u, ph) <= 1 PROVE u = w
      <2>1. ~(u < w) /\ ~(w < u)
            <3>1. CASE u < w
                  BY <1>1, <1>2, <1>3, <3>1 DEF Rank
            <3>2. CASE w < u
                  BY <1>1, <1>2, <1>3, <3>2 DEF Rank
            <3> QED BY <3>1, <3>2
      <2>2. u \in Int /\ w \in Int
            BY <1>1
      <2> QED BY <2>1, <2>2
<1>4. ASSUME NEW u \in Idle(ph), Rank(w, ph) = Rank(u, ph) PROVE u = w
      <2>1. Cardinality(upTo(u)) = Cardinality(upTo(w)) /\ Cardinality(upTo(w)) \in Nat
            BY <1>1, <1>4 DEF Rank
      <2> HIDE DEF upTo
      <2>2. ~(u < w) /\ ~(w < u)
            <3>1. CASE u < w
                  BY <1>2, <2>1, <3>1
            <3>2. CASE w < u
                  BY <1>2, <2>1, <3>2
            <3> QED BY <3>1, <3>2
      <2>3. u \in Int /\ w \in Int
            BY <1>1
      <2> QED BY <2>2, <2>3
<1> QED BY <1>1, <1>3, <1>4 DEF Rank

(* How many jobs are given out, and which.                                 *)
LEMMA GivenBounds ==
    ASSUME NEW q, NEW calling, Waits(q, calling), NEW ph, NEW exclusive \in BOOLEAN,
           NEW n, n = Given(q, calling, ph, exclusive, Busy(ph))
    PROVE  /\ n \in 0..Len(q)
           /\ exclusive => n = 0
           /\ n > 0 /\ calling[q[1]].kind = "alone" => n = 1 /\ Busy(ph) = {}
           /\ calling[q[1]].kind # "alone" => \A i \in 1..n : calling[q[i]].kind # "alone"
<1>0. q \in Seq(Nat) /\ Len(q) \in Nat
      BY DEF Waits
<1>1. CASE exclusive \/ q = <<>>
      BY <1>0, <1>1 DEF Given
<1>2. CASE ~(exclusive \/ q = <<>>) /\ calling[q[1]].kind = "alone"
      <2>1. n = IF Busy(ph) = {} THEN 1 ELSE 0
            BY <1>2 DEF Given
      <2>2. Len(q) >= 1
            BY <1>0, <1>2
      <2> QED BY <1>0, <1>2, <2>1, <2>2
<1>3. CASE ~(exclusive \/ q = <<>>) /\ calling[q[1]].kind # "alone"
      <2>1. n = Min({Cardinality(Idle(ph)), Sharing(q, calling)})
            BY <1>3 DEF Given
      <2>2. /\ Sharing(q, calling) \in 0..Len(q) /\ Cardinality(Idle(ph)) \in Nat
            /\ \A i \in 1..Sharing(q, calling) : calling[q[i]].kind # "alone"
            BY <1>0, SharingOnly, IdleFinite, FS_CardinalityType
      <2>3. n \in Nat /\ n <= Sharing(q, calling)
            BY <1>0, <2>1, <2>2, MinOfTwo
      <2> QED BY <1>0, <1>3, <2>2, <2>3
<1> QED BY <1>1, <1>2, <1>3

(* What #pump does: the idle workers that take a job, and how many start.  *)
GivesOut(taking, got, calling, ph, cur, exclusive) ==
    /\ phase' = [w \in Workers |->
                    IF w \in taking THEN IF dead[w] THEN "settled" ELSE "running"
                    ELSE IF w > started /\ w <= started + got THEN "starting" ELSE ph[w]]
    /\ current' \in [Workers -> Nat]
    /\ \A w \in Workers : IF w \in taking THEN current'[w] \in DOMAIN calling ELSE current'[w] = cur[w]
    /\ toWorker' = [w \in Workers |-> IF w \in taking /\ ~dead[w] THEN PostJob(w, current'[w]) ELSE toWorker[w]]
    /\ started' = started + got /\ size' \in Int /\ alone' \in BOOLEAN /\ Waits(queue', calling)
    /\ exclusive => alone' /\ taking = {} /\ got = 0
    /\ \A w \in taking : calling[current'[w]].kind = "alone" =>
          alone' /\ taking = {w} /\ got = 0 /\ \A v \in Workers \ {w} : ph[v] \in Resting

(* And what becomes of the queue q.                                        *)
Distinct(q) == \A m, n \in DOMAIN q : q[m] = q[n] => m = n

FromQueue(taking, q) ==
    /\ settled' = [w \in Workers |-> IF w \in taking /\ dead[w] THEN Failure(current'[w]) ELSE settled[w]]
    /\ flagged' = flagged \ {current'[w] : w \in taking}
    /\ \E n \in 0..Len(q) : /\ queue' = SubSeq(q, n + 1, Len(q))
                            /\ \A w \in taking : \E r \in 1..n : current'[w] = q[r]
    /\ Distinct(q) => \A w, v \in taking : current'[w] = current'[v] => w = v

LEMMA PumpGivesOut ==
    ASSUME Shapes, NEW q, NEW calling, Waits(q, calling), NEW ph \in [Workers -> Phases], NEW cur \in [Workers -> Nat],
           NEW exclusive \in BOOLEAN, Pump(q, calling, ph, cur, exclusive)
    PROVE  \E taking \in SUBSET Idle(ph), got \in Nat :
              GivesOut(taking, got, calling, ph, cur, exclusive) /\ FromQueue(taking, q)
<1> DEFINE n == Given(q, calling, ph, exclusive, Busy(ph))
           taking == {w \in Idle(ph) : Rank(w, ph) <= n}
           of == [w \in taking |-> q[Rank(w, ph)]]
           rest == SubSeq(q, n + 1, Len(q))
           ended == taking = Idle(ph) /\ ~exclusive /\ (n = 1 => calling[q[1]].kind # "alone")
           wanted == IF ended THEN Min({Len(rest) - Cardinality(Starting(ph)), size - started}) ELSE 0
           got == WillStart(wanted)
<1>1. /\ queue' = rest
      /\ alone' = (exclusive \/ (n = 1 /\ calling[q[1]].kind = "alone"))
      /\ started' = started + got
      /\ size' = IF wanted > got THEN started + got ELSE size
      /\ phase' = [w \in Workers |->
                     IF w \in taking THEN IF dead[w] THEN "settled" ELSE "running"
                     ELSE IF w > started /\ w <= started + got THEN "starting" ELSE ph[w]]
      /\ current' = [w \in Workers |-> IF w \in taking THEN of[w] ELSE cur[w]]
      /\ toWorker' = [w \in Workers |-> IF w \in taking /\ ~dead[w] THEN PostJob(w, of[w]) ELSE toWorker[w]]
      /\ settled' = [w \in Workers |-> IF w \in taking /\ dead[w] THEN Failure(of[w]) ELSE settled[w]]
      /\ flagged' = flagged \ {of[w] : w \in taking}
      BY DEF Pump, PumpBy, Rank
<1>2. /\ n \in 0..Len(q)
      /\ exclusive => n = 0
      /\ n > 0 /\ calling[q[1]].kind = "alone" => n = 1 /\ Busy(ph) = {}
      /\ calling[q[1]].kind # "alone" => \A i \in 1..n : calling[q[i]].kind # "alone"
      BY GivenBounds
<1>3. q \in Seq(Nat) /\ Len(q) \in Nat /\ \A i \in 1..Len(q) : q[i] \in DOMAIN calling /\ q[i] \in Nat
      BY DEF Waits
<1> HIDE DEF n
<1>4. n \in Nat /\ n + 1 \in Int /\ n <= Len(q)
      BY <1>2, <1>3
<1>5. Waits(rest, calling)
      <2>1. \A i \in (n + 1)..Len(q) : q[i] \in Nat
            BY <1>3, <1>4
      <2>2. /\ rest \in Seq(Nat) /\ Len(rest) = IF n + 1 <= Len(q) THEN Len(q) - (n + 1) + 1 ELSE 0
            /\ \A i \in 1..(Len(q) - (n + 1) + 1) : rest[i] = q[(n + 1) + i - 1]
            BY <1>3, <1>4, <2>1, SubSeqProperties
      <2> HIDE DEF rest
      <2>3. ASSUME NEW i \in DOMAIN rest PROVE rest[i] \in DOMAIN calling
            <3>0. Len(rest) = Len(q) - n /\ DOMAIN rest = 1..Len(rest)
                  BY <1>3, <1>4, <2>2
            <3>1. i \in 1..(Len(q) - n)
                  BY <3>0
            <3>2. /\ (n + 1) + i - 1 \in 1..Len(q)
                  /\ i \in 1..(Len(q) - (n + 1) + 1)
                  BY <1>3, <1>4, <3>1
            <3>3. rest[i] = q[(n + 1) + i - 1]
                  BY <2>2, <3>2
            <3> QED BY <1>3, <3>2, <3>3
      <2> QED BY <2>2, <2>3 DEF Waits
<1>6. wanted \in Int
      <2>1. Len(rest) \in Int /\ Cardinality(Starting(ph)) \in Int
            BY <1>5, IdleFinite, FS_CardinalityType DEF Waits
      <2> HIDE DEF rest
      <2>2. Len(rest) - Cardinality(Starting(ph)) \in Int /\ size - started \in Int
            BY <2>1 DEF Shapes
      <2>3. Min({Len(rest) - Cardinality(Starting(ph)), size - started}) \in Int
            BY <2>2, MinOfTwo
      <2> QED BY <2>3
<1> HIDE DEF wanted
<1>7. got \in Nat /\ (wanted = 0 => got = 0)
      BY <1>6, WillStartBounds
<1>8. ASSUME NEW w \in taking PROVE Rank(w, ph) \in 1..n /\ of[w] = q[Rank(w, ph)]
      BY <1>4, Ranked
<1>9. n = 0 => taking = {}
      BY <1>8
<1> HIDE DEF got
<1>10. ~ended => got = 0
      BY <1>7 DEF wanted
<1>11. ASSUME NEW w \in taking PROVE of[w] \in DOMAIN calling /\ of[w] \in Nat
      <2>1. Rank(w, ph) \in 1..Len(q)
            BY <1>3, <1>4, <1>8
      <2> QED BY <1>3, <1>8, <2>1
<1>12. ASSUME NEW w \in taking, calling[of[w]].kind = "alone"
       PROVE  n = 1 /\ Busy(ph) = {} /\ calling[q[1]].kind = "alone"
      <2>1. n > 0
            BY <1>4, <1>8, <1>12
      <2>2. calling[q[1]].kind = "alone"
            BY <1>2, <1>8, <1>12
      <2> QED BY <1>2, <2>1, <2>2
<1>13. n = 1 => \A w, u \in taking : w = u
      BY Ranked
<1>14. Busy(ph) = {} => \A v \in Workers : ph[v] \in Resting
      BY DEF Busy, Resting
<1> HIDE DEF taking
<1>15. current' \in [Workers -> Nat] /\ \A w \in Workers : current'[w] = IF w \in taking THEN of[w] ELSE cur[w]
      <2>1. \A w \in Workers : (IF w \in taking THEN of[w] ELSE cur[w]) \in Nat
            BY <1>11
      <2> QED BY <1>1, <2>1
<1> HIDE DEF of
<1>16. toWorker' = [w \in Workers |-> IF w \in taking /\ ~dead[w] THEN PostJob(w, current'[w]) ELSE toWorker[w]]
      BY <1>1, <1>15
<1>17. size' \in Int /\ alone' \in BOOLEAN
      <2>1. size \in Int /\ started \in Nat
            BY DEF Shapes
      <2>2. started + got \in Int
            BY <1>7, <2>1
      <2> QED BY <1>1, <2>1, <2>2
<1>18. exclusive => alone' /\ taking = {} /\ got = 0
      <2>1. exclusive => ~ended
            OBVIOUS
      <2> QED BY <1>1, <1>2, <1>9, <1>10, <2>1
<1>19. ASSUME NEW w \in taking, calling[current'[w]].kind = "alone"
       PROVE  alone' /\ taking = {w} /\ got = 0 /\ \A v \in Workers \ {w} : ph[v] \in Resting
      <2>1. w \in Workers
            BY DEF taking, Idle
      <2>2. n = 1 /\ Busy(ph) = {} /\ calling[q[1]].kind = "alone"
            BY <1>12, <1>15, <1>19, <2>1
      <2>3. ~ended
            BY <2>2
      <2> QED BY <1>1, <1>10, <1>13, <1>14, <2>2, <2>3
<1>20. taking \in SUBSET Idle(ph)
      BY DEF taking
<1>21. \A w \in Workers : IF w \in taking THEN current'[w] \in DOMAIN calling ELSE current'[w] = cur[w]
      BY <1>11, <1>15
<1>22. GivesOut(taking, got, calling, ph, cur, exclusive)
      BY <1>1, <1>5, <1>15, <1>16, <1>17, <1>18, <1>19, <1>21 DEF GivesOut
<1>23. FromQueue(taking, q)
      <2>1. taking \subseteq Workers
            BY <1>20 DEF Idle
      <2>2. settled' = [w \in Workers |-> IF w \in taking /\ dead[w] THEN Failure(current'[w]) ELSE settled[w]]
            BY <1>1, <1>15
      <2>3. flagged' = flagged \ {current'[w] : w \in taking}
            BY <1>1, <1>15, <2>1
      <2>4. queue' = SubSeq(q, n + 1, Len(q))
            BY <1>1
      <2>5. \A w \in taking : current'[w] = q[Rank(w, ph)] /\ Rank(w, ph) \in 1..n
            BY <1>8, <1>15, <2>1
      <2>6. ASSUME Distinct(q), NEW w \in taking, NEW v \in taking, current'[w] = current'[v] PROVE w = v
            <3>1. Rank(w, ph) \in DOMAIN q /\ Rank(v, ph) \in DOMAIN q /\ q[Rank(w, ph)] = q[Rank(v, ph)]
                  BY <1>3, <1>4, <2>5, <2>6
            <3>2. Rank(w, ph) = Rank(v, ph)
                  BY <2>6, <3>1 DEF Distinct
            <3>3. w \in Idle(ph) /\ v \in Idle(ph)
                  BY <1>20
            <3> QED BY <3>2, <3>3, Ranked
      <2> QED BY <1>2, <2>2, <2>3, <2>4, <2>5, <2>6 DEF FromQueue
<1> QED BY <1>7, <1>20, <1>22, <1>23

(* A pump keeps the invariant, if it holds of where the workers stand as   *)
(* the pump begins.                                                        *)
LEMMA Pumping ==
    ASSUME Shapes, NEW q, NEW calling \in Seq(Called), Waits(q, calling),
           NEW ph \in [Workers -> Phases], NEW cur \in [Workers -> Nat],
           NEW exclusive \in BOOLEAN, Pump(q, calling, ph, cur, exclusive),
           Placed(ph, cur, calling), Exclusive(ph, cur, calling, exclusive), Channels(ph),
           calls' = calling, UNCHANGED <<dead, toPage, alive, job, done, limit>>
    PROVE  Inv'
<1>1. PICK taking \in SUBSET Idle(ph), got \in Nat : GivesOut(taking, got, calling, ph, cur, exclusive)
      BY PumpGivesOut
<1>2. phase' = [w \in Workers |->
                  IF w \in taking THEN IF dead[w] THEN "settled" ELSE "running"
                  ELSE IF w > started /\ w <= started + got THEN "starting" ELSE ph[w]]
      BY <1>1 DEF GivesOut
<1>3. /\ current' \in [Workers -> Nat] /\ size' \in Int /\ alone' \in BOOLEAN /\ Waits(queue', calling)
      /\ started' = started + got
      BY <1>1 DEF GivesOut
<1>4. toWorker' = [w \in Workers |-> IF w \in taking /\ ~dead[w] THEN PostJob(w, current'[w]) ELSE toWorker[w]]
      BY <1>1 DEF GivesOut
<1>5. \A w \in Workers : IF w \in taking THEN current'[w] \in DOMAIN calling ELSE current'[w] = cur[w]
      BY <1>1 DEF GivesOut
<1>6. exclusive => alone' /\ taking = {} /\ got = 0
      BY <1>1 DEF GivesOut
<1>7. \A w \in taking : calling[current'[w]].kind = "alone" =>
         alone' /\ taking = {w} /\ got = 0 /\ \A v \in Workers \ {w} : ph[v] \in Resting
      BY <1>1 DEF GivesOut
<1>8. \A w \in taking : w \in Workers /\ ph[w] = "idle"
      BY DEF Idle
<1>9. started \in Nat /\ \A w \in Workers : w \in Int
      BY DEF Shapes, Workers
<1>10. Shapes'
      <2>1. phase' \in [Workers -> Phases]
            BY <1>2 DEF Phases
      <2>2. \A w \in Workers : PostJob(w, current'[w]) \in Seq(Messages)
            BY <1>3, Posted
      <2>3. toWorker' \in [Workers -> Seq(Messages)]
            BY <1>4, <2>2 DEF Shapes
      <2> QED BY <1>3, <1>9, <2>1, <2>3 DEF Shapes
<1>11. Placed(phase, current, calls)'
      <2> SUFFICES ASSUME NEW w \in Workers
                   PROVE  /\ w > started' => phase'[w] = "off"
                          /\ phase'[w] \in Held => current'[w] \in DOMAIN calling
          BY DEF Placed
      <2>1. CASE w \in taking
            <3>1. ~(w > started + got)
                  BY <1>8, <1>9, <2>1 DEF Placed
            <3> QED BY <1>3, <1>5, <2>1, <3>1
      <2>2. CASE w \notin taking /\ w > started /\ w <= started + got
            <3>1. phase'[w] = "starting"
                  BY <1>2, <2>2
            <3> QED BY <1>3, <1>9, <2>2, <3>1 DEF Held
      <2>3. CASE w \notin taking /\ ~(w > started /\ w <= started + got)
            <3>1. phase'[w] = ph[w] /\ current'[w] = cur[w]
                  BY <1>2, <1>5, <2>3
            <3> QED BY <1>3, <1>9, <2>3, <3>1 DEF Placed
      <2> QED BY <2>1, <2>2, <2>3
<1>12. Exclusive(phase, current, calls, alone)'
      <2> SUFFICES ASSUME NEW w \in Workers, phase'[w] \in Held, calling[current'[w]].kind = "alone"
                   PROVE  alone' /\ \A v \in Workers \ {w} : phase'[v] \in Resting
          BY DEF Exclusive
      <2>1. CASE w \in taking
            <3>1. alone' /\ taking = {w} /\ got = 0 /\ \A v \in Workers \ {w} : ph[v] \in Resting
                  BY <1>7, <2>1
            <3>2. \A v \in Workers \ {w} : phase'[v] = ph[v]
                  BY <1>2, <1>9, <3>1
            <3> QED BY <3>1, <3>2
      <2>2. CASE w \notin taking
            <3>1. phase'[w] = ph[w] /\ current'[w] = cur[w]
                  BY <1>2, <1>5, <2>2 DEF Held
            <3>2. exclusive /\ \A v \in Workers \ {w} : ph[v] \in Resting
                  BY <3>1 DEF Exclusive
            <3>3. \A v \in Workers : phase'[v] = ph[v]
                  BY <1>2, <1>6, <1>9, <3>2
            <3> QED BY <1>6, <3>2, <3>3
      <2> QED BY <2>1, <2>2
<1>13. Channels(phase)'
      <2> SUFFICES ASSUME NEW w \in Workers, alive[w]
                   PROVE  OneThing(w)' /\ (phase'[w] \notin Asking => Nothing(w)')
          BY DEF Channels
      <2>1. OneThing(w) /\ (ph[w] \notin Asking => Nothing(w))
            BY DEF Channels
      <2>2. Answers(w)' = Answers(w) /\ job'[w] = job[w]
            BY DEF Answers
      <2>3. CASE w \in taking /\ ~dead[w]
            <3>1. Nothing(w) /\ phase'[w] = "running" /\ toWorker'[w] = PostJob(w, current'[w])
                  BY <1>2, <1>4, <1>8, <2>1, <2>3 DEF Asking
            <3>2. \A m, n \in Work(w)' : m = n
                  BY <1>3, <3>1, Posted DEF Nothing, Work
            <3> QED BY <2>2, <3>1, <3>2 DEF OneThing, Nothing, Asking
      <2>4. CASE w \notin taking \/ dead[w]
            <3>1. Work(w)' = Work(w)
                  BY <1>4, <2>4 DEF Work
            <3>2. OneThing(w)' /\ (Nothing(w) => Nothing(w)')
                  BY <2>1, <2>2, <3>1 DEF OneThing, Nothing
            <3>3. phase'[w] \notin Asking => ph[w] \notin Asking
                  BY <1>2, <1>8, <2>4 DEF Asking, Placed
            <3> QED BY <2>1, <3>2, <3>3
      <2> QED BY <2>3, <2>4
<1> QED BY <1>3, <1>10, <1>11, <1>12, <1>13 DEF Inv

-----------------------------------------------------------------------------
(* The numbers of new calls come after those there are.                    *)
LEMMA MoreCalls ==
    ASSUME Inv, NEW calling \in Seq(Called), Len(calls) <= Len(calling), \A i \in 1..Len(calls) : calling[i] = calls[i]
    PROVE  /\ Waits(queue, calling) /\ Placed(phase, current, calling)
           /\ Exclusive(phase, current, calling, alone) /\ DOMAIN calls \subseteq DOMAIN calling
<1>1. /\ DOMAIN calls = 1..Len(calls) /\ DOMAIN calling = 1..Len(calling)
      /\ Len(calls) \in Nat /\ Len(calling) \in Nat
      BY DEF Inv, Shapes
<1>2. DOMAIN calls \subseteq DOMAIN calling /\ \A i \in DOMAIN calls : calling[i] = calls[i]
      BY <1>1
<1>3. Waits(queue, calling)
      BY <1>2 DEF Inv, Waits
<1>4. Placed(phase, current, calling)
      BY <1>2 DEF Inv, Placed
<1>5. Exclusive(phase, current, calling, alone)
      BY <1>2 DEF Inv, Placed, Exclusive
<1> QED BY <1>2, <1>3, <1>4, <1>5

LEMMA JobInv ==
    ASSUME Inv, NEW kind \in {"plain", "alone"}, Job(kind)
    PROVE  Inv' /\ \E q : Waits(q, calls') /\ Pump(q, calls', phase, current, alone)
<1> DEFINE calling == Append(calls, Call(kind, 0, {}))
<1>1. /\ calls' = calling /\ Pump(Append(queue, Len(calling)), calling, phase, current, alone)
      /\ UNCHANGED <<dead, toPage, alive, job, done, limit>>
      BY DEF Job, workerVars
<1>2. Shapes /\ calls \in Seq(Called) /\ Call(kind, 0, {}) \in Called /\ Channels(phase)
      BY DEF Inv, Shapes, Call, Called
<1>3. /\ calling \in Seq(Called) /\ Len(calling) = Len(calls) + 1 /\ Len(calls) \in Nat
      /\ \A i \in 1..Len(calls) : calling[i] = calls[i]
      BY <1>2, AppendProperties
<1> HIDE DEF calling
<1>4. /\ Waits(queue, calling) /\ Placed(phase, current, calling) /\ Exclusive(phase, current, calling, alone)
      BY <1>3, MoreCalls
<1>5. Waits(Append(queue, Len(calling)), calling)
      <2>1. queue \in Seq(Nat) /\ Len(calling) \in Nat /\ Len(calling) \in DOMAIN calling
            BY <1>3, <1>4 DEF Waits
      <2> QED BY <1>4, <2>1 DEF Waits
<1>6. Inv'
      BY <1>1, <1>2, <1>3, <1>4, <1>5, Pumping DEF Shapes
<1> QED BY <1>1, <1>5, <1>6

(* splitRuns gives near-equal parts.                                       *)
LEMMA Shares ==
    ASSUME NEW total \in Nat, NEW n \in Int
    PROVE  \E parts \in Nat \ {0} :
              /\ SplitRuns(total, n) \in [1..parts -> Nat]
              /\ \A i \in 1..parts : SplitRuns(total, n)[i] = (total \div parts) + IF i <= (total % parts) THEN 1 ELSE 0
<1> DEFINE parts == Max({1, Min({n, total})})
<1> DEFINE least == Min({n, total})
<1>1. least \in Int
      <2>1. n \in Int /\ total \in Int
            OBVIOUS
      <2>2. least \in {n, total}
            BY <2>1, MinOfTwo
      <2> QED BY <2>1, <2>2
<1> HIDE DEF least
<1>2. parts \in Nat /\ parts >= 1
      <2>1. 1 \in Int /\ parts = Max({1, least})
            BY DEF least
      <2>2. Max({1, least}) \in {1, least} /\ Max({1, least}) >= 1
            BY <1>1, <2>1, MaxOfTwo
      <2> QED BY <1>1, <2>1, <2>2
<1>3. SplitRuns(total, n) = [i \in 1..parts |-> (total \div parts) + IF i <= total % parts THEN 1 ELSE 0]
      BY DEF SplitRuns, least
<1> HIDE DEF parts
<1>4. total \div parts \in Nat /\ total \div parts + 1 \in Nat /\ total \div parts + 0 \in Nat
      BY <1>2
<1>5. SplitRuns(total, n) \in [1..parts -> Nat]
      BY <1>3, <1>4
<1>6. \A i \in 1..parts : SplitRuns(total, n)[i] = (total \div parts) + IF i <= (total % parts) THEN 1 ELSE 0
      BY <1>3
<1>7. parts \in Nat \ {0}
      BY <1>2
<1> QED BY <1>5, <1>6, <1>7

(* What is called and waits after stream.                                  *)
Share(total, parts, i) == (total \div parts) + IF i <= (total % parts) THEN 1 ELSE 0

Streamed(total, calling, parts, q) ==
    /\ Len(calling) = Len(calls) + parts + 1
    /\ \A i \in 1..Len(calls) : calling[i] = calls[i]
    /\ \A i \in 1..parts :
          calling[Len(calls) + i] = Call("part", Share(total, parts, i), {})
    /\ calling[Len(calling)] = Call("stream", total, (Len(calls) + 1)..(Len(calls) + parts))
    /\ \A n \in DOMAIN q : \/ n \in DOMAIN queue /\ q[n] = queue[n]
                           \/ n - Len(queue) \in 1..parts /\ q[n] = Len(calls) + (n - Len(queue))

LEMMA StreamBegins ==
    ASSUME Inv, NEW total \in RunCounts, Stream(total)
    PROVE  \E calling \in Seq(Called), parts \in Nat \ {0}, q \in Seq(Nat) :
              /\ calls' = calling /\ Pump(q, calling, phase, current, alone)
              /\ groups' = groups \cup {Len(calling)} /\ Len(calling) <= MaxCalls
              /\ Streamed(total, calling, parts, q)
              /\ Waits(q, calling) /\ (Distinct(queue) => Distinct(q))
<1> DEFINE shares == SplitRuns(total, size)
           ids == (Len(calls) + 1)..(Len(calls) + Len(shares))
           made == [i \in DOMAIN shares |-> Call("part", shares[i], {})]
           group == <<Call("stream", total, ids)>>
           calling == calls \o made \o group
           waits == [i \in DOMAIN shares |-> Len(calls) + i]
           q == queue \o waits
<1>1. /\ calls' = calling /\ Pump(q, calling, phase, current, alone) /\ Len(calling) <= MaxCalls
      /\ groups' = groups \cup {Len(calling)}
      BY DEF Stream
<1>2. /\ Shapes /\ calls \in Seq(Called) /\ Len(calls) \in Nat /\ Channels(phase) /\ size \in Int /\ total \in Nat
      /\ queue \in Seq(Nat) /\ \A n \in DOMAIN queue : queue[n] \in DOMAIN calls
      /\ phase \in [Workers -> Phases] /\ current \in [Workers -> Nat] /\ alone \in BOOLEAN
      BY PoolAssumption DEF Inv, Shapes, Waits
<1>3. PICK parts \in Nat \ {0} :
          /\ shares \in [1..parts -> Nat]
          /\ \A i \in 1..parts : shares[i] = (total \div parts) + IF i <= (total % parts) THEN 1 ELSE 0
      BY <1>2, Shares
<1>4. shares \in Seq(Nat) /\ DOMAIN shares = 1..parts /\ Len(shares) = parts
      BY <1>3
<1> HIDE DEF shares
<1>5. made \in Seq(Called) /\ Len(made) = parts /\ \A i \in 1..parts : made[i] = Call("part", shares[i], {})
      <2>1. \A i \in 1..parts : Call("part", shares[i], {}) \in Called
            BY <1>3 DEF Call, Called
      <2> QED BY <1>4, <2>1
<1>6. /\ group \in Seq(Called) /\ Len(group) = 1
      /\ group[1] = Call("stream", total, (Len(calls) + 1)..(Len(calls) + parts))
      <2>1. Call("stream", total, ids) \in Called
            BY <1>2, <1>4 DEF Call, Called
      <2> QED BY <1>4, <2>1
<1>7. waits \in Seq(Nat) /\ Len(waits) = parts /\ \A i \in 1..parts : waits[i] = Len(calls) + i
      BY <1>2, <1>4
<1> HIDE DEF made, group, waits
<1>8. /\ calling \in Seq(Called) /\ Len(calling) = Len(calls) + parts + 1
      /\ \A i \in 1..Len(calls) : calling[i] = calls[i]
      /\ \A i \in 1..parts : calling[Len(calls) + i] = Call("part", shares[i], {})
      /\ calling[Len(calling)] = group[1]
      <2> DEFINE begun == calls \o made
      <2>1. /\ begun \in Seq(Called) /\ Len(begun) = Len(calls) + parts
            /\ \A i \in 1..(Len(calls) + parts) : begun[i] = IF i <= Len(calls) THEN calls[i] ELSE made[i - Len(calls)]
            BY <1>2, <1>5, ConcatProperties
      <2> HIDE DEF begun
      <2>2. /\ begun \o group \in Seq(Called) /\ Len(begun \o group) = Len(begun) + Len(group)
            /\ \A i \in 1..(Len(begun) + Len(group)) :
                  (begun \o group)[i] = IF i <= Len(begun) THEN begun[i] ELSE group[i - Len(begun)]
            BY <1>6, <2>1, ConcatProperties
      <2>3. ASSUME NEW i \in 1..Len(calls) PROVE (begun \o group)[i] = calls[i]
            <3>1. i \in 1..(Len(begun) + Len(group)) /\ i <= Len(begun) /\ i \in 1..(Len(calls) + parts) /\ i <= Len(calls)
                  BY <1>2, <1>3, <1>6, <2>1
            <3> QED BY <2>1, <2>2, <3>1
      <2>4. ASSUME NEW i \in 1..parts PROVE (begun \o group)[Len(calls) + i] = made[i]
            <3>1. /\ Len(calls) + i \in 1..(Len(begun) + Len(group)) /\ Len(calls) + i <= Len(begun)
                  /\ Len(calls) + i \in 1..(Len(calls) + parts) /\ ~(Len(calls) + i <= Len(calls))
                  /\ Len(calls) + i - Len(calls) = i
                  BY <1>2, <1>3, <1>6, <2>1
            <3> QED BY <2>1, <2>2, <3>1
      <2>5. (begun \o group)[Len(calls) + parts + 1] = group[1]
            <3>1. Len(calls) \in Int /\ parts \in Int /\ parts > 0 /\ Len(calls) >= 0
                  BY <1>2
            <3>2. Len(begun) + Len(group) = Len(calls) + parts + 1 /\ Len(begun) = Len(calls) + parts
                  BY <1>6, <2>1
            <3>3. /\ Len(calls) + parts + 1 \in 1..(Len(calls) + parts + 1) /\ ~(Len(calls) + parts + 1 <= Len(calls) + parts)
                  /\ Len(calls) + parts + 1 - (Len(calls) + parts) = 1
                  BY <3>1
            <3> QED BY <2>2, <3>2, <3>3
      <2>6. Len(begun \o group) = Len(calls) + parts + 1
            BY <1>6, <2>1, <2>2
      <2> QED BY <1>5, <2>2, <2>3, <2>4, <2>5, <2>6 DEF begun
<1> HIDE DEF calling
<1>9. /\ DOMAIN calls = 1..Len(calls) /\ DOMAIN calling = 1..(Len(calls) + parts + 1)
      BY <1>2, <1>8
<1>10. /\ DOMAIN calls \subseteq DOMAIN calling /\ \A i \in DOMAIN calls : calling[i] = calls[i]
       /\ \A i \in 1..parts : Len(calls) + i \in DOMAIN calling /\ Len(calls) + i \notin DOMAIN calls
       /\ Len(calling) \in DOMAIN calling
       /\ (Len(calls) + 1)..(Len(calls) + parts) \subseteq DOMAIN calling
       BY <1>2, <1>3, <1>8, <1>9
<1>11. /\ q \in Seq(Nat)
       /\ \A n \in DOMAIN q : \/ n \in DOMAIN queue /\ q[n] = queue[n]
                              \/ n - Len(queue) \in 1..parts /\ q[n] = Len(calls) + (n - Len(queue))
      <2>1. /\ q \in Seq(Nat) /\ Len(q) = Len(queue) + Len(waits) /\ Len(queue) \in Nat
            /\ \A i \in 1..(Len(queue) + Len(waits)) : q[i] = IF i <= Len(queue) THEN queue[i] ELSE waits[i - Len(queue)]
            <3>1. queue \in Seq(Nat) /\ waits \in Seq(Nat)
                  BY <1>2, <1>7
            <3> QED BY <3>1, ConcatProperties
      <2> HIDE DEF q
      <2>2. ASSUME NEW n \in DOMAIN q
            PROVE  \/ n \in DOMAIN queue /\ q[n] = queue[n]
                   \/ n - Len(queue) \in 1..parts /\ q[n] = Len(calls) + (n - Len(queue))
            <3>1. n \in 1..(Len(queue) + Len(waits)) /\ n \in Int /\ Len(queue) \in Int
                  BY <2>1
            <3>2. CASE n <= Len(queue)
                  BY <1>2, <2>1, <3>1, <3>2
            <3>3. CASE ~(n <= Len(queue))
                  <4>1. n - Len(queue) \in 1..parts
                        BY <1>3, <1>7, <3>1, <3>3
                  <4> QED BY <1>7, <2>1, <3>1, <3>3, <4>1
            <3> QED BY <3>2, <3>3
      <2> QED BY <2>1, <2>2
<1> HIDE DEF q
<1>12. Waits(q, calling)
      BY <1>2, <1>10, <1>11 DEF Waits
<1>13. ASSUME Distinct(queue) PROVE Distinct(q)
      <2> SUFFICES ASSUME NEW m \in DOMAIN q, NEW n \in DOMAIN q, q[m] = q[n] PROVE m = n
          BY DEF Distinct
      <2>0. m \in Int /\ n \in Int /\ Len(queue) \in Int
            BY <1>2, <1>11
      <2>1. CASE m \in DOMAIN queue /\ q[m] = queue[m] /\ n \in DOMAIN queue /\ q[n] = queue[n]
            BY <1>13, <2>1 DEF Distinct
      <2>2. CASE m \in DOMAIN queue /\ q[m] = queue[m] /\ n - Len(queue) \in 1..parts /\ q[n] = Len(calls) + (n - Len(queue))
            BY <1>2, <1>10, <2>2
      <2>3. CASE n \in DOMAIN queue /\ q[n] = queue[n] /\ m - Len(queue) \in 1..parts /\ q[m] = Len(calls) + (m - Len(queue))
            BY <1>2, <1>10, <2>3
      <2>4. CASE q[m] = Len(calls) + (m - Len(queue)) /\ q[n] = Len(calls) + (n - Len(queue))
            <3>1. \A a, b, c, d \in Int : d + (a - c) = d + (b - c) => a = b
                  OBVIOUS
            <3>2. Len(calls) \in Int
                  BY <1>2
            <3>3. Len(calls) + (m - Len(queue)) = Len(calls) + (n - Len(queue))
                  BY <2>4
            <3> QED BY <2>0, <3>1, <3>2, <3>3
      <2> QED BY <1>11, <2>1, <2>2, <2>3, <2>4
<1>14. Streamed(total, calling, parts, q)
      <2>1. \A i \in 1..parts : shares[i] = Share(total, parts, i)
            BY <1>3 DEF Share
      <2> QED BY <1>6, <1>8, <1>11, <2>1 DEF Streamed
<1>15. calling \in Seq(Called) /\ parts \in Nat \ {0} /\ q \in Seq(Nat)
      BY <1>8, <1>12 DEF Waits
<1>16. /\ calls' = calling /\ Pump(q, calling, phase, current, alone)
       /\ groups' = groups \cup {Len(calling)} /\ Len(calling) <= MaxCalls
      BY <1>1
<1> HIDE DEF shares
<1> QED BY <1>12, <1>13, <1>14, <1>15, <1>16

(* The calls there were are there, and those that are new are no others.   *)
LEMMA StreamedCalls ==
    ASSUME Inv, NEW total, NEW calling \in Seq(Called), NEW parts \in Nat \ {0}, NEW q \in Seq(Nat), Streamed(total, calling, parts, q)
    PROVE  /\ DOMAIN calls = 1..Len(calls) /\ DOMAIN calling = 1..(Len(calls) + parts + 1)
           /\ DOMAIN calls \subseteq DOMAIN calling /\ \A i \in DOMAIN calls : calling[i] = calls[i]
           /\ \A i \in 1..parts : Len(calls) + i \in DOMAIN calling \ DOMAIN calls
           /\ Len(calling) \in DOMAIN calling \ DOMAIN calls
           /\ (Len(calls) + 1)..(Len(calls) + parts) \subseteq DOMAIN calling
           /\ \A g \in DOMAIN calling : \/ g \in DOMAIN calls \/ g = Len(calling)
                                        \/ g - Len(calls) \in 1..parts /\ g = Len(calls) + (g - Len(calls))
<1>1. DOMAIN calls = 1..Len(calls) /\ DOMAIN calling = 1..(Len(calls) + parts + 1) /\ Len(calls) \in Nat
      BY DEF Inv, Shapes, Streamed
<1>2. Len(calling) = Len(calls) + parts + 1 /\ \A i \in 1..Len(calls) : calling[i] = calls[i]
      BY DEF Streamed
<1>3. \A g \in DOMAIN calling : g \in DOMAIN calls \/ g - Len(calls) \in 1..parts \/ g = Len(calling)
      BY <1>1, <1>2
<1>4. \A g \in DOMAIN calling : g = Len(calls) + (g - Len(calls))
      BY <1>1
<1>5. /\ DOMAIN calls \subseteq DOMAIN calling /\ \A i \in DOMAIN calls : calling[i] = calls[i]
      /\ Len(calling) \in DOMAIN calling \ DOMAIN calls
      /\ (Len(calls) + 1)..(Len(calls) + parts) \subseteq DOMAIN calling
      BY <1>1, <1>2
<1>6. \A i \in 1..parts : Len(calls) + i \in DOMAIN calling \ DOMAIN calls
      BY <1>1
<1> QED BY <1>1, <1>3, <1>4, <1>5, <1>6

LEMMA StreamInv ==
    ASSUME Inv, NEW total \in RunCounts, Stream(total)
    PROVE  Inv' /\ \E q : Waits(q, calls') /\ Pump(q, calls', phase, current, alone)
<1>1. PICK calling \in Seq(Called), parts \in Nat \ {0}, q \in Seq(Nat) :
          /\ calls' = calling /\ Pump(q, calling, phase, current, alone)
          /\ Streamed(total, calling, parts, q) /\ Waits(q, calling)
      BY StreamBegins
<1>2. UNCHANGED <<dead, toPage, alive, job, done, limit>>
      BY DEF Stream, workerVars
<1>3. Shapes /\ Channels(phase)
      BY DEF Inv
<1>4. Len(calls) <= Len(calling) /\ \A i \in 1..Len(calls) : calling[i] = calls[i]
      <2>1. Len(calls) \in Nat
            BY <1>3 DEF Shapes
      <2> QED BY <1>1, <2>1 DEF Streamed
<1>5. /\ Waits(queue, calling) /\ Placed(phase, current, calling) /\ Exclusive(phase, current, calling, alone)
      BY <1>4, MoreCalls
<1>6. Inv'
      BY <1>1, <1>2, <1>3, <1>5, Pumping DEF Shapes
<1> QED BY <1>1, <1>6

LEMMA MadeReadyInv ==
    ASSUME Inv, NEW w \in Workers, MadeReady(w)
    PROVE  Inv'
<1> DEFINE ph == [phase EXCEPT ![w] = "idle"]
<1>1. /\ phase[w] = "readying" /\ Pump(queue, calls, ph, current, alone)
      /\ UNCHANGED <<dead, toPage, alive, job, done, limit, calls>>
      BY DEF MadeReady, workerVars, callVars
<1>2. /\ Shapes /\ phase \in [Workers -> Phases] /\ current \in [Workers -> Nat] /\ calls \in Seq(Called)
      /\ alone \in BOOLEAN /\ Waits(queue, calls)
      BY DEF Inv, Shapes
<1>3. ph \in [Workers -> Phases] /\ \A v \in Workers : ph[v] = IF v = w THEN "idle" ELSE phase[v]
      BY <1>2 DEF Phases
<1>4. Placed(ph, current, calls)
      BY <1>1, <1>3 DEF Inv, Placed, Held
<1>5. Exclusive(ph, current, calls, alone)
      BY <1>1, <1>3 DEF Inv, Exclusive, Held, Resting
<1>6. Channels(ph)
      BY <1>1, <1>3 DEF Inv, Channels, Asking
<1> HIDE DEF ph
<1> QED BY <1>1, <1>2, <1>3, <1>4, <1>5, <1>6, Pumping

LEMMA FreeInv ==
    ASSUME Inv, NEW w \in Workers, Free(w)
    PROVE  Inv'
<1> DEFINE ph == [phase EXCEPT ![w] = "idle"]
           cur == [current EXCEPT ![w] = None]
           flag == alone /\ ~Alone(current[w])
<1>1. /\ phase[w] = "freeing" /\ Pump(queue, calls, ph, cur, flag)
      /\ UNCHANGED <<dead, toPage, alive, job, done, limit, calls>>
      BY DEF Free, workerVars, callVars
<1>2. /\ Shapes /\ phase \in [Workers -> Phases] /\ current \in [Workers -> Nat] /\ calls \in Seq(Called)
      /\ flag \in BOOLEAN /\ Waits(queue, calls)
      BY DEF Inv, Shapes
<1>3. /\ ph \in [Workers -> Phases] /\ \A v \in Workers : ph[v] = IF v = w THEN "idle" ELSE phase[v]
      /\ cur \in [Workers -> Nat] /\ \A v \in Workers : v # w => cur[v] = current[v]
      BY <1>2 DEF Phases, None
<1>4. Placed(ph, cur, calls)
      BY <1>1, <1>3 DEF Inv, Placed, Held
<1>5. Exclusive(ph, cur, calls, flag)
      BY <1>1, <1>3 DEF Inv, Exclusive, Held, Resting
<1>6. Channels(ph)
      BY <1>1, <1>3 DEF Inv, Channels, Asking
<1> HIDE DEF ph, cur, flag
<1> QED BY <1>1, <1>2, <1>3, <1>4, <1>5, <1>6, Pumping

-----------------------------------------------------------------------------
(* Steps that do not pump: they move a worker on, or change its messages.  *)
LEMMA Moving ==
    ASSUME Inv, NEW w \in Workers, NEW p \in Phases, phase' = [phase EXCEPT ![w] = p],
           phase[w] \notin Resting, p # "off", p \in Held => phase[w] \in Held,
           UNCHANGED <<current, calls, alone, started>>
    PROVE  Placed(phase, current, calls)' /\ Exclusive(phase, current, calls, alone)'
<1>1. phase \in [Workers -> Phases] /\ \A v \in Workers : phase'[v] = IF v = w THEN p ELSE phase[v]
      BY DEF Inv, Shapes
<1>2. Placed(phase, current, calls)'
      BY <1>1 DEF Inv, Placed, Resting
<1>3. Exclusive(phase, current, calls, alone)'
      <2> SUFFICES ASSUME NEW v \in Workers, phase'[v] \in Held, calls[current[v]].kind = "alone"
                   PROVE  alone /\ \A u \in Workers \ {v} : phase'[u] \in Resting
          BY DEF Exclusive
      <2>1. alone /\ \A u \in Workers \ {v} : phase[u] \in Resting
            BY <1>1 DEF Inv, Exclusive
      <2>2. v = w
            BY <2>1
      <2> QED BY <1>1, <2>1, <2>2
<1> QED BY <1>2, <1>3

LEMMA Still ==
    ASSUME Inv, UNCHANGED <<phase, current, calls, alone, started>>
    PROVE  Placed(phase, current, calls)' /\ Exclusive(phase, current, calls, alone)'
BY DEF Inv, Placed, Exclusive

LEMMA OneWorker ==
    ASSUME Inv, NEW w \in Workers,
           \A v \in Workers \ {w} : /\ toWorker'[v] = toWorker[v] /\ toPage'[v] = toPage[v] /\ job'[v] = job[v]
                                    /\ alive'[v] = alive[v] /\ phase'[v] = phase[v],
           alive'[w] => OneThing(w)' /\ (phase'[w] \notin Asking => Nothing(w)')
    PROVE  Channels(phase)'
<1> SUFFICES ASSUME NEW v \in Workers, alive'[v]
             PROVE  OneThing(v)' /\ (phase'[v] \notin Asking => Nothing(v)')
    BY DEF Channels
<1>1. CASE v = w
      BY <1>1
<1>2. CASE v # w
      <2>1. Work(v)' = Work(v) /\ Answers(v)' = Answers(v) /\ job'[v] = job[v] /\ phase'[v] = phase[v] /\ alive[v]
            BY <1>2 DEF Work, Answers
      <2> QED BY <2>1 DEF Inv, Channels, OneThing, Nothing
<1> QED BY <1>1, <1>2

LEMMA Here ==
    ASSUME Inv, NEW w \in Workers
    PROVE  /\ toWorker[w] \in Seq(Messages) /\ toPage[w] \in Seq(Messages) /\ job[w] \in Nat /\ done[w] \in Nat
           /\ phase[w] \in Phases /\ current[w] \in Nat
           /\ alive[w] => OneThing(w) /\ (phase[w] \notin Asking => Nothing(w))
BY DEF Inv, Shapes, Channels

LEMMA HandModuleInv ==
    ASSUME Inv, NEW w \in Workers, HandModule(w)
    PROVE  Inv'
<1> DEFINE m == Message("module", None, 0, FALSE)
<1>1. /\ phase[w] = "starting" /\ phase \in [Workers -> Phases]
      /\ UNCHANGED <<size, started, queue, alone, current, toPage, alive, job, done, calls, limit>>
      BY DEF HandModule, poolVars, workerVars, callVars, Inv, Shapes
<1>2. m \in Messages /\ m.type = "module"
      BY DEF Messages, Message, None
<1>3. CASE phase' = [phase EXCEPT ![w] = "handing"] /\ toWorker' = [toWorker EXCEPT ![w] = Append(@, m)]
      <2>1. /\ Append(toWorker[w], m) \in Seq(Messages)
            /\ Of(Append(toWorker[w], m), "cancel") = Of(toWorker[w], "cancel") \cup {Len(toWorker[w]) + 1}
            BY <1>2, Here, Sent
      <2>2. toWorker'[w] = Append(toWorker[w], m) /\ phase'[w] = "handing"
            BY <1>1, <1>3 DEF Inv, Shapes
      <2>3. Shapes'
            BY <1>1, <1>3, <2>1 DEF Inv, Shapes, Phases
      <2>4. Placed(phase, current, calls)' /\ Exclusive(phase, current, calls, alone)'
            BY <1>1, <1>3, Moving DEF Phases, Resting, Held
      <2>5. alive[w] => Nothing(w)
            BY <1>1, Here DEF Asking
      <2>6. alive'[w] => OneThing(w)' /\ (phase'[w] \notin Asking => Nothing(w)')
            <3> SUFFICES ASSUME alive'[w] PROVE OneThing(w)' /\ phase'[w] \in Asking
                OBVIOUS
            <3>1. Nothing(w) /\ Answers(w)' = Answers(w) /\ job'[w] = job[w]
                  BY <1>1, <2>5 DEF Answers
            <3>2. Work(w)' = Work(w) \cup {Len(toWorker[w]) + 1}
                  BY <2>1, <2>2 DEF Work
            <3>3. OneThing(w)'
                  BY <3>1, <3>2 DEF OneThing, Nothing
            <3> QED BY <2>2, <3>3 DEF Asking
      <2>7. Channels(phase)'
            BY <1>1, <1>3, <2>6, OneWorker DEF Inv, Shapes
      <2> QED BY <1>1, <2>3, <2>4, <2>7 DEF Inv
<1>4. CASE phase' = [phase EXCEPT ![w] = "readying"] /\ UNCHANGED toWorker
      <2>1. phase'[w] = "readying"
            BY <1>1, <1>4
      <2>2. Shapes'
            BY <1>1, <1>4 DEF Inv, Shapes, Phases
      <2>3. Placed(phase, current, calls)' /\ Exclusive(phase, current, calls, alone)'
            BY <1>1, <1>4, Moving DEF Phases, Resting, Held
      <2>4. alive[w] => Nothing(w) /\ OneThing(w)
            BY <1>1, Here DEF Asking
      <2>5. alive'[w] => OneThing(w)' /\ (phase'[w] \notin Asking => Nothing(w)')
            BY <1>1, <1>4, <2>4 DEF OneThing, Nothing, Work, Answers
      <2>6. Channels(phase)'
            BY <1>1, <1>4, <2>5, OneWorker
      <2> QED BY <1>1, <2>2, <2>3, <2>6 DEF Inv
<1> QED BY <1>3, <1>4 DEF HandModule

LEMMA SettleInv ==
    ASSUME Inv, NEW w \in Workers, Settle(w)
    PROVE  Inv'
<1>1. /\ phase[w] = "settled" /\ phase' = [phase EXCEPT ![w] = "freeing"] /\ phase \in [Workers -> Phases]
      /\ UNCHANGED <<size, started, queue, alone, current, toWorker, toPage, alive, job, done, calls, limit>>
      BY DEF Settle, poolVars, workerVars, Inv, Shapes
<1>2. Shapes'
      BY <1>1 DEF Inv, Shapes, Phases
<1>3. Placed(phase, current, calls)' /\ Exclusive(phase, current, calls, alone)'
      BY <1>1, Moving DEF Phases, Resting, Held
<1>4. alive[w] => Nothing(w) /\ OneThing(w)
      BY <1>1, Here DEF Asking
<1>5. alive'[w] => OneThing(w)' /\ (phase'[w] \notin Asking => Nothing(w)')
      BY <1>1, <1>4 DEF OneThing, Nothing, Work, Answers
<1>6. Channels(phase)'
      BY <1>1, <1>5, OneWorker
<1> QED BY <1>1, <1>2, <1>3, <1>6 DEF Inv

LEMMA StillInv ==
    ASSUME Inv,
           UNCHANGED <<size, started, queue, alone, phase, current, toWorker, toPage, alive, job, done, calls, limit>>
    PROVE  Inv'
BY DEF Inv, Shapes, Waits, Placed, Exclusive, Channels, OneThing, Nothing, Work, Answers

(* A cancel behind a job is not work.                                      *)
LEMMA CancelInv ==
    ASSUME Inv, NEW id \in DOMAIN calls, Cancel(id)
    PROVE  Inv'
<1> DEFINE c(v) == Message("cancel", current[v], 0, FALSE)
<1>1. UNCHANGED <<size, started, queue, alone, phase, current, toPage, alive, job, done, calls, limit>>
      BY DEF Cancel, CancelPosts, sideVars, workerVars, callVars
<1>2. PICK reached \in SUBSET Workers :
          toWorker' = [v \in Workers |-> IF v \in reached THEN Append(toWorker[v], c(v)) ELSE toWorker[v]]
      BY DEF Cancel, CancelPosts
<1>3. ASSUME NEW v \in Workers
      PROVE  toWorker'[v] \in Seq(Messages) /\ Work(v)' = Work(v)
      <2>1. toWorker[v] \in Seq(Messages) /\ c(v) \in Messages /\ c(v).type = "cancel"
            BY Here DEF Messages, Message
      <2>2. Append(toWorker[v], c(v)) \in Seq(Messages) /\ Of(Append(toWorker[v], c(v)), "cancel") = Of(toWorker[v], "cancel")
            BY <2>1, Sent
      <2> HIDE DEF c
      <2>3. toWorker'[v] \in {toWorker[v], Append(toWorker[v], c(v))}
            BY <1>2
      <2> QED BY <2>1, <2>2, <2>3 DEF Work
<1>4. Shapes'
      <2>1. toWorker' \in [Workers -> Seq(Messages)]
            BY <1>2, <1>3
      <2> QED BY <1>1, <2>1 DEF Inv, Shapes
<1>5. Placed(phase, current, calls)' /\ Exclusive(phase, current, calls, alone)'
      BY <1>1, Still
<1>6. Channels(phase)'
      <2>1. \A v \in Workers : Answers(v)' = Answers(v)
            BY <1>1 DEF Answers
      <2> QED BY <1>1, <1>3, <2>1 DEF Inv, Channels, OneThing, Nothing
<1> QED BY <1>1, <1>4, <1>5, <1>6 DEF Inv

(* An answer on its way is all there is of a worker.                       *)
LEMMA ReceiveInv ==
    ASSUME Inv, NEW w \in Workers, Receive(w)
    PROVE  Inv'
<1> DEFINE m == Head(toPage[w])
<1>1. /\ toPage[w] # <<>> /\ toPage' = [toPage EXCEPT ![w] = Tail(@)]
      /\ phase \in [Workers -> Phases] /\ toPage \in [Workers -> Seq(Messages)]
      /\ UNCHANGED <<size, started, queue, alone, current, toWorker, alive, job, done, calls, limit>>
      BY DEF Receive, poolVars, workerVars, Inv, Shapes
<1>2. toPage'[w] = Tail(toPage[w]) /\ \A v \in Workers \ {w} : toPage'[v] = toPage[v]
      BY <1>1
<1>3. /\ Tail(toPage[w]) \in Seq(Messages)
      /\ Answers(w) = {} => Answers(w)' = {}
      /\ (\A x, y \in Answers(w) : x = y) =>
            /\ \A x, y \in Answers(w)' : x = y
            /\ m.type # "progress" => Answers(w) # {} /\ Answers(w)' = {}
      <2>1. toPage[w] \in Seq(Messages) /\ toPage[w] # <<>>
            BY <1>1
      <2>2. /\ Tail(toPage[w]) \in Seq(Messages) /\ m \in Messages
            /\ Of(toPage[w], "progress") = {} => Of(Tail(toPage[w]), "progress") = {}
            /\ (\A x, y \in Of(toPage[w], "progress") : x = y) =>
                  /\ \A x, y \in Of(Tail(toPage[w]), "progress") : x = y
                  /\ m.type # "progress" => Of(toPage[w], "progress") # {} /\ Of(Tail(toPage[w]), "progress") = {}
            BY <2>1, Taken
      <2> QED BY <1>2, <2>2 DEF Answers
<1>4. \/ /\ m.type = "progress" /\ UNCHANGED phase
      \/ m.type # "progress" /\ \E with : SettleInner(w, with)
      BY DEF Receive, FailAll
<1> HIDE DEF m
<1>5. \/ UNCHANGED phase
      \/ phase[w] = "running" /\ phase' = [phase EXCEPT ![w] = "settled"]
      \/ phase[w] = "handing" /\ phase' = [phase EXCEPT ![w] = "readying"]
      BY <1>1, <1>4 DEF SettleInner
<1>6. toPage' \in [Workers -> Seq(Messages)] /\ phase' \in [Workers -> Phases]
      BY <1>1, <1>3, <1>5 DEF Phases
<1>7. Shapes'
      BY <1>1, <1>6 DEF Inv, Shapes
<1>8. Placed(phase, current, calls)' /\ Exclusive(phase, current, calls, alone)'
      BY <1>1, <1>5, Still, Moving DEF Phases, Resting, Held
<1>9. alive'[w] => OneThing(w)' /\ (phase'[w] \notin Asking => Nothing(w)')
      <2> SUFFICES ASSUME alive[w] PROVE OneThing(w)' /\ (phase'[w] \notin Asking => Nothing(w)')
          BY <1>1
      <2>1. OneThing(w) /\ (phase[w] \notin Asking => Nothing(w))
            BY Here
      <2>2. Work(w)' = Work(w) /\ job'[w] = job[w]
            BY <1>1 DEF Work
      <2>3. CASE m.type = "progress"
            <3>1. phase' = phase
                  BY <1>4, <2>3
            <3> QED BY <1>3, <2>1, <2>2, <3>1 DEF OneThing, Nothing
      <2>4. CASE m.type # "progress"
            <3>1. Work(w) = {} /\ job[w] = None /\ Answers(w)' = {}
                  BY <1>3, <2>1, <2>4 DEF OneThing
            <3> QED BY <2>2, <3>1 DEF OneThing, Nothing
      <2> QED BY <2>3, <2>4
<1>10. Channels(phase)'
      <2>1. \A v \in Workers \ {w} : phase'[v] = phase[v]
            BY <1>1, <1>5
      <2> QED BY <1>1, <1>2, <1>9, <2>1, OneWorker
<1> QED BY <1>1, <1>7, <1>8, <1>10 DEF Inv

(* Steps of a worker: they leave the page alone.                           *)
LEMMA WorkersStep ==
    ASSUME Inv, NEW w \in Workers, Shapes',
           UNCHANGED <<queue, alone, started, phase, current, calls>>,
           \A v \in Workers \ {w} : /\ toWorker'[v] = toWorker[v] /\ toPage'[v] = toPage[v] /\ job'[v] = job[v]
                                    /\ alive'[v] = alive[v],
           alive'[w] => OneThing(w)' /\ (phase[w] \notin Asking => Nothing(w)')
    PROVE  Inv'
<1>1. Placed(phase, current, calls)' /\ Exclusive(phase, current, calls, alone)'
      BY Still
<1>2. Channels(phase)'
      BY OneWorker
<1> QED BY <1>1, <1>2 DEF Inv

LEMMA Answered ==
    ASSUME Inv, NEW w \in Workers, NEW m \in Messages, Post(w, m)
    PROVE  /\ toPage' \in [Workers -> Seq(Messages)]
           /\ \A v \in Workers \ {w} : toPage'[v] = toPage[v]
           /\ m.type = "progress" => Answers(w)' = Answers(w)
           /\ m.type # "progress" => Answers(w)' = Answers(w) \cup {Len(toPage[w]) + 1}
<1>1. toPage \in [Workers -> Seq(Messages)] /\ toPage' = [toPage EXCEPT ![w] = Append(@, m)]
      BY DEF Inv, Shapes, Post
<1>2. /\ Append(toPage[w], m) \in Seq(Messages)
      /\ m.type = "progress" => Of(Append(toPage[w], m), "progress") = Of(toPage[w], "progress")
      /\ m.type # "progress" => Of(Append(toPage[w], m), "progress") = Of(toPage[w], "progress") \cup {Len(toPage[w]) + 1}
      BY <1>1, Sent
<1> QED BY <1>1, <1>2 DEF Answers

LEMMA TakeMessageInv ==
    ASSUME Inv, NEW w \in Workers, TakeMessage(w)
    PROVE  Inv'
<1> DEFINE m == Head(toWorker[w])
<1>1. /\ alive[w] /\ toWorker[w] # <<>> /\ toWorker' = [toWorker EXCEPT ![w] = Tail(@)]
      /\ toWorker \in [Workers -> Seq(Messages)] /\ toPage \in [Workers -> Seq(Messages)]
      /\ job \in [Workers -> Nat] /\ done \in [Workers -> Nat]
      /\ UNCHANGED <<size, started, queue, alone, phase, current, alive, calls, limit>>
      BY DEF TakeMessage, poolVars, sideVars, callVars, Inv, Shapes
<1>2. toWorker'[w] = Tail(toWorker[w]) /\ \A v \in Workers \ {w} : toWorker'[v] = toWorker[v]
      BY <1>1
<1>3. /\ Tail(toWorker[w]) \in Seq(Messages) /\ m \in Messages
      /\ Work(w) = {} => Work(w)' = {}
      /\ (\A x, y \in Work(w) : x = y) =>
            /\ \A x, y \in Work(w)' : x = y
            /\ m.type # "cancel" => Work(w) # {} /\ Work(w)' = {}
      <2>1. toWorker[w] \in Seq(Messages) /\ toWorker[w] # <<>>
            BY <1>1
      <2>2. /\ Tail(toWorker[w]) \in Seq(Messages) /\ m \in Messages
            /\ Of(toWorker[w], "cancel") = {} => Of(Tail(toWorker[w]), "cancel") = {}
            /\ (\A x, y \in Of(toWorker[w], "cancel") : x = y) =>
                  /\ \A x, y \in Of(Tail(toWorker[w]), "cancel") : x = y
                  /\ m.type # "cancel" => Of(toWorker[w], "cancel") # {} /\ Of(Tail(toWorker[w]), "cancel") = {}
            BY <2>1, Taken
      <2> QED BY <1>2, <2>2 DEF Work
<1>4. OneThing(w) /\ (phase[w] \notin Asking => Nothing(w))
      BY <1>1, Here
<1>5. toWorker' \in [Workers -> Seq(Messages)] /\ m.of \in Nat
      BY <1>1, <1>3 DEF Messages
<1>6. \/ m.type = "cancel" /\ UNCHANGED <<toPage, job, done>>
      \/ /\ m.type = "module" /\ UNCHANGED <<job, done>>
         /\ Post(w, Message("done", None, 0, FALSE)) \/ Post(w, Failure(None))
      \/ m.type = "job" /\ UNCHANGED toPage /\ job' = [job EXCEPT ![w] = m.of] /\ done' = [done EXCEPT ![w] = 0]
      BY DEF TakeMessage
<1> HIDE DEF m
<1>7. CASE m.type = "cancel" /\ UNCHANGED <<toPage, job, done>>
      <2>1. Shapes'
            BY <1>1, <1>5, <1>7 DEF Inv, Shapes
      <2>2. Answers(w)' = Answers(w) /\ job'[w] = job[w]
            BY <1>7 DEF Answers
      <2>3. OneThing(w)' /\ (phase[w] \notin Asking => Nothing(w)')
            BY <1>3, <1>4, <2>2 DEF OneThing, Nothing
      <2> QED BY <1>1, <1>2, <1>7, <2>1, <2>3, WorkersStep
<1>8. CASE /\ m.type = "module" /\ UNCHANGED <<job, done>>
           /\ Post(w, Message("done", None, 0, FALSE)) \/ Post(w, Failure(None))
      <2>1. PICK a \in Messages : a.type # "progress" /\ Post(w, a)
            <3>1. Message("done", None, 0, FALSE) \in Messages /\ Failure(None) \in Messages
                  BY DEF Messages, Message, Failure, None
            <3>2. Message("done", None, 0, FALSE).type # "progress" /\ Failure(None).type # "progress"
                  BY DEF Message, Failure
            <3> QED BY <1>8, <3>1, <3>2
      <2>2. /\ toPage' \in [Workers -> Seq(Messages)] /\ \A v \in Workers \ {w} : toPage'[v] = toPage[v]
            /\ Answers(w)' = Answers(w) \cup {Len(toPage[w]) + 1}
            BY <2>1, Answered
      <2>3. Shapes'
            BY <1>1, <1>5, <1>8, <2>2 DEF Inv, Shapes
      <2>4. Work(w) # {} /\ Work(w)' = {} /\ Answers(w) = {} /\ job[w] = None /\ phase[w] \in Asking
            BY <1>3, <1>4, <1>8 DEF OneThing, Nothing
      <2>5. OneThing(w)'
            BY <1>8, <2>2, <2>4 DEF OneThing
      <2> QED BY <1>1, <1>2, <1>8, <2>2, <2>3, <2>4, <2>5, WorkersStep
<1>9. CASE m.type = "job" /\ UNCHANGED toPage /\ job' = [job EXCEPT ![w] = m.of] /\ done' = [done EXCEPT ![w] = 0]
      <2>1. job' \in [Workers -> Nat] /\ done' \in [Workers -> Nat] /\ \A v \in Workers \ {w} : job'[v] = job[v]
            BY <1>1, <1>5, <1>9
      <2>2. Shapes'
            BY <1>1, <1>5, <1>9, <2>1 DEF Inv, Shapes
      <2>3. Work(w) # {} /\ Work(w)' = {} /\ Answers(w) = {} /\ phase[w] \in Asking
            BY <1>3, <1>4, <1>9 DEF OneThing, Nothing
      <2>4. Answers(w)' = {}
            BY <1>9, <2>3 DEF Answers
      <2>5. OneThing(w)'
            BY <2>3, <2>4 DEF OneThing
      <2> QED BY <1>1, <1>2, <1>9, <2>1, <2>2, <2>3, <2>5, WorkersStep
<1> QED BY <1>6, <1>7, <1>8, <1>9

LEMMA RunChunkInv ==
    ASSUME Inv, NEW w \in Workers, RunChunk(w)
    PROVE  Inv'
<1> DEFINE m == Message("progress", job[w], done[w] + 1, FALSE)
<1>1. /\ Post(w, m) /\ done' = [done EXCEPT ![w] = @ + 1] /\ done \in [Workers -> Nat]
      /\ UNCHANGED <<size, started, queue, alone, phase, current, toWorker, alive, job, calls, limit>>
      BY DEF RunChunk, poolVars, sideVars, callVars, Inv, Shapes
<1>2. m \in Messages /\ m.type = "progress"
      BY Here DEF Messages, Message
<1> HIDE DEF m
<1>3. /\ toPage' \in [Workers -> Seq(Messages)] /\ \A v \in Workers \ {w} : toPage'[v] = toPage[v]
      /\ Answers(w)' = Answers(w)
      BY <1>1, <1>2, Answered
<1>4. Shapes'
      <2>1. done' \in [Workers -> Nat]
            BY <1>1
      <2> QED BY <1>1, <1>3, <2>1 DEF Inv, Shapes
<1>5. Work(w)' = Work(w)
      BY <1>1 DEF Work
<1>6. alive'[w] => OneThing(w)' /\ (phase[w] \notin Asking => Nothing(w)')
      BY <1>1, <1>3, <1>5, Here DEF OneThing, Nothing
<1> QED BY <1>1, <1>3, <1>4, <1>6, WorkersStep

LEMMA EndsInv ==
    ASSUME Inv, NEW w \in Workers, job[w] # None, NEW m \in Messages, m.type # "progress", Ends(w, m)
    PROVE  Inv'
<1>1. /\ alive[w] /\ Post(w, m) /\ job' = [job EXCEPT ![w] = None] /\ job \in [Workers -> Nat]
      /\ UNCHANGED <<size, started, queue, alone, phase, current, toWorker, alive, done, calls, limit>>
      BY DEF Ends, poolVars, sideVars, callVars, Inv, Shapes
<1>2. /\ toPage' \in [Workers -> Seq(Messages)] /\ \A v \in Workers \ {w} : toPage'[v] = toPage[v]
      /\ Answers(w)' = Answers(w) \cup {Len(toPage[w]) + 1}
      BY <1>1, Answered
<1>3. job' \in [Workers -> Nat] /\ job'[w] = None /\ \A v \in Workers \ {w} : job'[v] = job[v]
      BY <1>1 DEF None
<1>4. Shapes'
      BY <1>1, <1>2, <1>3 DEF Inv, Shapes
<1>5. Work(w)' = Work(w)
      BY <1>1 DEF Work
<1>6. Work(w) = {} /\ Answers(w) = {} /\ phase[w] \in Asking
      BY <1>1, Here DEF OneThing, Nothing
<1>7. OneThing(w)'
      BY <1>2, <1>3, <1>5, <1>6 DEF OneThing
<1> QED BY <1>1, <1>2, <1>3, <1>4, <1>6, <1>7, WorkersStep

LEMMA RunInv ==
    ASSUME Inv, NEW w \in Workers, Run(w)
    PROVE  Inv'
<1>1. CASE RunChunk(w)
      BY <1>1, RunChunkInv
<1>2. CASE Return(w)
      <2> DEFINE m == Message("done", job[w], done[w], Stopped(w))
      <2>1. m \in Messages /\ m.type # "progress"
            BY Here DEF Messages, Message, Stopped
      <2>2. job[w] # None /\ Ends(w, m)
            BY <1>2 DEF Return
      <2> HIDE DEF m
      <2> QED BY <2>1, <2>2, EndsInv
<1>3. CASE Raise(w)
      <2>1. Failure(job[w]) \in Messages /\ Failure(job[w]).type # "progress"
            BY Here DEF Messages, Message, Failure
      <2>2. job[w] # None /\ Ends(w, Failure(job[w]))
            BY <1>3 DEF Raise
      <2> QED BY <2>1, <2>2, EndsInv
<1> QED BY <1>1, <1>2, <1>3 DEF Run

LEMMA CrashInv ==
    ASSUME Inv, NEW w \in Workers, Crash(w)
    PROVE  Inv'
<1> DEFINE m == Message("crash", None, 0, FALSE)
<1>1. /\ Post(w, m) /\ alive' = [alive EXCEPT ![w] = FALSE] /\ alive \in [Workers -> BOOLEAN]
      /\ UNCHANGED <<size, started, queue, alone, phase, current, toWorker, job, done, calls, limit>>
      BY DEF Crash, poolVars, sideVars, callVars, Inv, Shapes
<1>2. m \in Messages
      BY DEF Messages, Message, None
<1> HIDE DEF m
<1>3. toPage' \in [Workers -> Seq(Messages)] /\ \A v \in Workers \ {w} : toPage'[v] = toPage[v]
      BY <1>1, <1>2, Answered
<1>4. ~alive'[w] /\ \A v \in Workers \ {w} : alive'[v] = alive[v]
      BY <1>1
<1>5. Shapes'
      BY <1>1, <1>3 DEF Inv, Shapes
<1> QED BY <1>1, <1>3, <1>4, <1>5, WorkersStep

-----------------------------------------------------------------------------
LEMMA InitInv ==
    Init => Inv
<1> SUFFICES ASSUME Init PROVE Inv
    OBVIOUS
<1>1. Shapes
      <2>1. <<>> \in Seq(Messages) /\ <<>> \in Seq(Called)
            OBVIOUS
      <2>2. phase \in [Workers -> Phases] /\ current \in [Workers -> Nat]
            BY DEF Init, Phases, None
      <2>3. toWorker \in [Workers -> Seq(Messages)] /\ toPage \in [Workers -> Seq(Messages)]
            BY <2>1 DEF Init
      <2>4. alive \in [Workers -> BOOLEAN] /\ job \in [Workers -> Nat] /\ done \in [Workers -> Nat]
            BY DEF Init, None
      <2>5. alone \in BOOLEAN /\ started \in Nat
            BY DEF Init
      <2>6. size \in Int /\ limit \in Int
            <3>1. size = MaxWorkers /\ limit \in 1..MaxWorkers
                  BY DEF Init, Workers
            <3> QED BY <3>1, PoolAssumption
      <2> QED BY <2>1, <2>2, <2>3, <2>4, <2>5, <2>6 DEF Init, Shapes
<1>2. Waits(queue, calls) /\ Placed(phase, current, calls)
      BY DEF Init, Waits, Placed, Held, Workers
<1>3. Exclusive(phase, current, calls, alone)
      BY DEF Init, Exclusive, Held
<1>4. Channels(phase)
      BY DEF Init, Channels, OneThing, Nothing, Work, Answers, Of, None
<1> QED BY <1>1, <1>2, <1>3, <1>4 DEF Inv

LEMMA NextInv ==
    ASSUME Inv, [Next]_vars
    PROVE  Inv'
<1>1. CASE Use
      BY <1>1, JobInv, StreamInv, CancelInv DEF Use
<1>2. ASSUME NEW w \in Workers, Microtask(w) PROVE Inv'
      BY <1>2, HandModuleInv, MadeReadyInv, SettleInv, FreeInv DEF Microtask
<1>3. ASSUME NEW w \in Workers, Receive(w) \/ TakeMessage(w) \/ Run(w) \/ Crash(w) PROVE Inv'
      BY <1>3, ReceiveInv, TakeMessageInv, RunInv, CrashInv
<1>4. ASSUME NEW g \in Ids, StreamEnds(g) PROVE Inv'
      BY <1>4, StillInv DEF StreamEnds, poolVars, sideVars, workerVars
<1>5. CASE ModuleSettles
      BY <1>5, StillInv DEF ModuleSettles, poolVars, sideVars, workerVars, callVars
<1>6. CASE Rest \/ UNCHANGED vars
      BY <1>6, StillInv DEF Rest, vars, poolVars, sideVars, workerVars, callVars
<1> QED BY <1>1, <1>2, <1>3, <1>4, <1>5, <1>6 DEF Next

(* callAlone (js/pool.js): while a job that asked for the machine runs, no *)
(* other worker runs a job, is given one or starts.                        *)
THEOREM AloneMeansAlone ==
    Spec => []AloneExclusive
<1>1. Inv => AloneExclusive
      <2> SUFFICES ASSUME Inv, NEW w \in Workers, phase[w] = "running", Alone(current[w]), NEW v \in Workers \ {w}
                   PROVE  phase[v] \in {"off", "idle"} /\ ~Running(v)
          BY DEF AloneExclusive
      <2>1. phase[v] \in Resting
            BY DEF Inv, Exclusive, Held, Alone
      <2>2. alive[v] => Nothing(v)
            BY <2>1, Here DEF Resting, Asking
      <2>3. ~Running(v)
            <3>1. ASSUME alive[v], NEW n \in DOMAIN toWorker[v], toWorker[v][n].type = "job" PROVE FALSE
                  <4>1. n \in Work(v)
                        BY <3>1 DEF Work, Of
                  <4> QED BY <2>2, <3>1, <4>1 DEF Nothing
            <3> QED BY <2>2, <3>1 DEF Running, Nothing
      <2> QED BY <2>1, <2>3 DEF Resting
<1> QED BY <1>1, InitInv, NextInv, PTL DEF Spec

-----------------------------------------------------------------------------
(***************************************************************************)
(* No cancel is lost.  What waits is there once and is marked if it was    *)
(* cancelled; a worker that was given a job has it or its message, and a   *)
(* cancel of it in its set or behind the job; a dead worker does not live. *)
(***************************************************************************)
Sizes ==
    /\ DOMAIN settled = Workers /\ DOMAIN dead = Workers /\ DOMAIN stops = Workers
    /\ DOMAIN outcome = Ids

Marked(q)   == \A n \in DOMAIN q : q[n] \in asked /\ outcome[q[n]].type = "pending" => q[n] \in flagged

NoStream(q, ph, cur, calling) ==
    /\ \A n \in DOMAIN q : calling[q[n]].kind # "stream"
    /\ \A w \in Workers : ph[w] \in Held => calling[cur[w]].kind # "stream"

Numbers(calling, streams) ==
    /\ Len(calling) <= MaxCalls
    /\ asked \subseteq DOMAIN calling
    /\ \A g \in streams : /\ g \in DOMAIN calling /\ calling[g].kind = "stream"
                          /\ calling[g].parts \subseteq DOMAIN calling

Silent(w) == dead[w] \/ (\E n \in DOMAIN toPage[w] : toPage[w][n].type = "crash") => ~alive[w]

Own(w, c) ==
    /\ job[w] \in {None, c}
    /\ \A n \in Work(w) : toWorker[w][n].type = "job" /\ toWorker[w][n].of = c

Behind(w, c) ==
    \E n \in DOMAIN toWorker[w] : /\ toWorker[w][n] = Message("cancel", c, 0, FALSE)
                                  /\ job[w] = c \/ \E k \in Work(w) : k < n
Follows(w, c) ==
    c \in asked /\ outcome[c].type = "pending" /\ (job[w] # None \/ Work(w) # {}) =>
        c \in stops[w] \/ Behind(w, c)

Linked(w) ==
    /\ phase[w] = "settled" => settled[w].type # "pending"
    /\ Silent(w)
    /\ phase[w] = "running" /\ alive[w] => Own(w, current[w]) /\ Follows(w, current[w])

Links ==
    /\ Sizes
    /\ Distinct(queue) /\ Marked(queue)
    /\ NoStream(queue, phase, current, calls)
    /\ Numbers(calls, groups)
    /\ \A w \in Workers : Linked(w)

-----------------------------------------------------------------------------
(* What a step leaves of the links of a worker it does not touch.          *)
LEMMA Untouched ==
    ASSUME NEW w \in Workers, Linked(w), asked' = asked,
           phase'[w] \in {"settled", "running"} => phase'[w] = phase[w] /\ current'[w] = current[w],
           outcome'[current[w]].type = "pending" /\ current[w] \in asked => outcome[current[w]].type = "pending",
           toWorker'[w] = toWorker[w], toPage'[w] = toPage[w], job'[w] = job[w], alive'[w] = alive[w],
           dead'[w] = dead[w], stops'[w] = stops[w], settled'[w] = settled[w]
    PROVE  Linked(w)'
<1>1. Silent(w)'
      BY DEF Linked, Silent
<1>2. Work(w)' = Work(w)
      BY DEF Work
<1>3. ASSUME phase'[w] = "running", alive'[w] PROVE Own(w, current[w])' /\ Follows(w, current[w])'
      <2>1. phase[w] = "running" /\ current'[w] = current[w] /\ Own(w, current[w]) /\ Follows(w, current[w])
            BY <1>3 DEF Linked
      <2>2. Own(w, current[w])'
            BY <1>2, <2>1 DEF Own
      <2>3. Follows(w, current[w])'
            BY <1>2, <2>1 DEF Follows, Behind
      <2> QED BY <2>2, <2>3
<1> QED BY <1>1, <1>3 DEF Linked

(* A job and the cancel behind it.                                         *)
LEMMA PostedJob ==
    ASSUME Shapes, NEW w \in Workers, NEW i \in Nat, Work(w) = {}
    PROVE  /\ \A n \in Of(PostJob(w, i), "cancel") : PostJob(w, i)[n].type = "job" /\ PostJob(w, i)[n].of = i
           /\ i \in flagged =>
                \E n \in DOMAIN PostJob(w, i) : /\ PostJob(w, i)[n] = Message("cancel", i, 0, FALSE)
                                                /\ \E k \in Of(PostJob(w, i), "cancel") : k < n
<1> DEFINE s == toWorker[w]
           j == Message("job", i, 0, FALSE)
           t == Append(s, j)
           c == Message("cancel", i, 0, FALSE)
           u == Append(t, c)
<1>1. s \in Seq(Messages) /\ j \in Messages /\ c \in Messages /\ Of(s, "cancel") = {}
      BY DEF Shapes, Messages, Message, Work
<1>2. j.type = "job" /\ j.of = i /\ c.type = "cancel"
      BY DEF Message
<1>3. i \in flagged => PostJob(w, i) = t \o <<c>>
      BY DEF PostJob
<1>4. i \notin flagged => PostJob(w, i) = t \o <<>>
      BY DEF PostJob
<1> HIDE DEF s, j, c
<1>5. t \in Seq(Messages) /\ Len(t) = Len(s) + 1 /\ t[Len(s) + 1] = j /\ Len(s) \in Nat /\ Of(t, "cancel") = {Len(s) + 1}
      BY <1>1, <1>2, Sent, AppendProperties
<1> HIDE DEF t
<1>6. CASE i \notin flagged
      <2>1. PostJob(w, i) = t
            BY <1>4, <1>5, <1>6, ConcatEmptySeq
      <2> QED BY <1>2, <1>5, <1>6, <2>1
<1>7. CASE i \in flagged
      <2>1. PostJob(w, i) = u
            BY <1>1, <1>3, <1>5, <1>7, AppendIsConcat
      <2>2. Of(u, "cancel") = {Len(s) + 1}
            BY <1>1, <1>2, <1>5, Sent
      <2>3. /\ u \in Seq(Messages) /\ Len(u) = Len(t) + 1 /\ u[Len(t) + 1] = c
            /\ \A x \in 1..Len(t) : u[x] = t[x]
            BY <1>1, <1>5, AppendProperties
      <2> HIDE DEF u
      <2>4. Len(s) + 1 \in 1..Len(t) /\ Len(t) + 1 \in DOMAIN u /\ Len(s) + 1 < Len(t) + 1
            BY <1>5, <2>3
      <2>5. u[Len(s) + 1] = j
            BY <1>5, <2>3, <2>4
      <2> QED BY <1>2, <2>1, <2>2, <2>3, <2>4, <2>5 DEF c
<1> QED BY <1>6, <1>7

(* What is left of the queue is what was not taken.                        *)
LEMMA LeftOver ==
    ASSUME NEW q \in Seq(Nat), Distinct(q), NEW taking, FromQueue(taking, q)
    PROVE  /\ Distinct(queue')
           /\ \A x \in DOMAIN queue' : /\ \E y \in DOMAIN q : queue'[x] = q[y]
                                       /\ queue'[x] \notin {current'[w] : w \in taking}
           /\ \A w \in taking : \E y \in DOMAIN q : current'[w] = q[y]
<1>1. PICK n \in 0..Len(q) : /\ queue' = SubSeq(q, n + 1, Len(q))
                             /\ \A w \in taking : \E r \in 1..n : current'[w] = q[r]
      BY DEF FromQueue
<1>2. Len(q) \in Nat /\ n \in Nat /\ n <= Len(q) /\ DOMAIN q = 1..Len(q)
      BY <1>1
<1>3. /\ queue' \in Seq(Nat) /\ Len(queue') = Len(q) - n
      /\ \A x \in 1..(Len(q) - n) : queue'[x] = q[n + x]
      <2> DEFINE rest == SubSeq(q, n + 1, Len(q))
      <2>1. n + 1 \in Int /\ Len(q) \in Int /\ \A i \in (n + 1)..Len(q) : q[i] \in Nat
            BY <1>2
      <2>2. /\ rest \in Seq(Nat) /\ Len(rest) = IF n + 1 <= Len(q) THEN Len(q) - (n + 1) + 1 ELSE 0
            /\ \A i \in 1..(Len(q) - (n + 1) + 1) : rest[i] = q[(n + 1) + i - 1]
            BY <2>1, SubSeqProperties
      <2> HIDE DEF rest
      <2>3. Len(rest) = Len(q) - n /\ Len(q) - (n + 1) + 1 = Len(q) - n
            <3>1. Len(q) - (n + 1) + 1 = Len(q) - n
                  BY <1>2
            <3>2. CASE n + 1 <= Len(q)
                  BY <2>2, <3>1, <3>2
            <3>3. CASE ~(n + 1 <= Len(q))
                  <4>1. n \in Int /\ Len(q) \in Int /\ n <= Len(q) /\ ~(n + 1 <= Len(q))
                        BY <1>2, <3>3
                  <4>2. \A a, b \in Int : a <= b /\ ~(a + 1 <= b) => b - a = 0
                        OBVIOUS
                  <4>3. Len(q) - n = 0
                        BY <4>1, <4>2
                  <4> QED BY <2>2, <3>1, <3>3, <4>3
            <3> QED BY <3>2, <3>3
      <2>4. \A i \in 1..(Len(q) - n) : (n + 1) + i - 1 = n + i
            BY <1>2
      <2>5. \A i \in 1..(Len(q) - n) : rest[i] = q[n + i]
            BY <2>2, <2>3, <2>4
      <2> QED BY <1>1, <2>2, <2>3, <2>5 DEF rest
<1>4. DOMAIN queue' = 1..(Len(q) - n)
      BY <1>2, <1>3
<1>5. ASSUME NEW x \in DOMAIN queue' PROVE queue'[x] = q[n + x] /\ n + x \in DOMAIN q /\ n + x > n /\ x \in Nat
      BY <1>2, <1>3, <1>4
<1>6. Distinct(queue')
      <2> SUFFICES ASSUME NEW x \in DOMAIN queue', NEW y \in DOMAIN queue', queue'[x] = queue'[y] PROVE x = y
          BY DEF Distinct
      <2>1. n + x = n + y
            BY <1>5 DEF Distinct
      <2> QED BY <1>2, <1>5, <2>1
<1>7. ASSUME NEW w \in taking PROVE \E r \in DOMAIN q : current'[w] = q[r] /\ r <= n
      <2>1. PICK r \in 1..n : current'[w] = q[r]
            BY <1>1
      <2>2. r \in DOMAIN q /\ r <= n
            BY <1>2
      <2> QED BY <2>1, <2>2
<1>8. ASSUME NEW x \in DOMAIN queue', NEW w \in taking PROVE queue'[x] # current'[w]
      <2>1. PICK r \in DOMAIN q : current'[w] = q[r] /\ r <= n
            BY <1>7
      <2>2. r # n + x
            BY <1>2, <1>5, <2>1
      <2> QED BY <1>5, <2>1, <2>2 DEF Distinct
<1> QED BY <1>5, <1>6, <1>7, <1>8

LEMMA PumpingLinks ==
    ASSUME Inv, Links, NEW q, NEW calling \in Seq(Called), Waits(q, calling),
           NEW ph \in [Workers -> Phases], NEW cur \in [Workers -> Nat],
           NEW exclusive \in BOOLEAN, Pump(q, calling, ph, cur, exclusive), Channels(ph),
           \A w \in Workers : ph[w] \in Held => phase[w] = ph[w] /\ current[w] = cur[w],
           Distinct(q), Marked(q), NoStream(q, ph, cur, calling), Numbers(calling, groups'),
           calls' = calling, UNCHANGED <<dead, toPage, alive, job, stops, outcome, asked>>
    PROVE  Links'
<1>1. Shapes /\ Sizes
      BY DEF Inv, Links
<1>2. PICK taking \in SUBSET Idle(ph), got \in Nat :
          GivesOut(taking, got, calling, ph, cur, exclusive) /\ FromQueue(taking, q)
      BY <1>1, PumpGivesOut
<1>3. /\ phase' = [w \in Workers |->
                     IF w \in taking THEN IF dead[w] THEN "settled" ELSE "running"
                     ELSE IF w > started /\ w <= started + got THEN "starting" ELSE ph[w]]
      /\ current' \in [Workers -> Nat]
      /\ \A w \in Workers : IF w \in taking THEN current'[w] \in DOMAIN calling ELSE current'[w] = cur[w]
      /\ toWorker' = [w \in Workers |-> IF w \in taking /\ ~dead[w] THEN PostJob(w, current'[w]) ELSE toWorker[w]]
      BY <1>2 DEF GivesOut
<1>4. /\ settled' = [w \in Workers |-> IF w \in taking /\ dead[w] THEN Failure(current'[w]) ELSE settled[w]]
      /\ flagged' = flagged \ {current'[w] : w \in taking}
      BY <1>2 DEF FromQueue
<1>5. /\ Distinct(queue')
      /\ \A x \in DOMAIN queue' : /\ \E y \in DOMAIN q : queue'[x] = q[y]
                                  /\ queue'[x] \notin {current'[w] : w \in taking}
      /\ \A w \in taking : \E y \in DOMAIN q : current'[w] = q[y]
      BY <1>2, LeftOver DEF Waits
<1>6. \A w \in taking : w \in Workers /\ ph[w] = "idle"
      BY <1>2 DEF Idle
<1>7. Sizes'
      BY <1>1, <1>4 DEF Sizes
<1>8. Distinct(queue)'
      BY <1>5 DEF Distinct
<1>9. Marked(queue)'
      BY <1>4, <1>5 DEF Marked
<1>10. NoStream(queue, phase, current, calls)'
      <2>1. \A n \in DOMAIN queue' : calling[queue'[n]].kind # "stream"
            BY <1>5 DEF NoStream
      <2>2. ASSUME NEW w \in Workers, phase'[w] \in Held PROVE calling[current'[w]].kind # "stream"
            <3>1. CASE w \in taking
                  BY <1>5, <3>1 DEF NoStream
            <3>2. CASE w \notin taking
                  <4>1. phase'[w] = ph[w] /\ current'[w] = cur[w]
                        BY <1>3, <2>2, <3>2 DEF Held
                  <4> QED BY <2>2, <4>1 DEF NoStream
            <3> QED BY <3>1, <3>2
      <2> QED BY <2>1, <2>2 DEF NoStream
<1>11. Numbers(calls, groups)'
      BY DEF Numbers
<1>12. ASSUME NEW w \in Workers PROVE Linked(w)'
      <2>1. Linked(w)
            BY DEF Links
      <2>2. CASE w \notin taking
            <3>1. phase'[w] \in {"settled", "running"} => phase'[w] = ph[w] /\ current'[w] = cur[w]
                  BY <1>3, <2>2
            <3>2. phase'[w] \in {"settled", "running"} => phase'[w] = phase[w] /\ current'[w] = current[w]
                  BY <3>1 DEF Held
            <3>3. toWorker'[w] = toWorker[w] /\ settled'[w] = settled[w]
                  BY <1>3, <1>4, <2>2
            <3> QED BY <2>1, <3>2, <3>3, Untouched
      <2>3. CASE w \in taking /\ dead[w]
            <3>1. phase'[w] = "settled" /\ settled'[w].type = "error"
                  BY <1>3, <1>4, <2>3 DEF Failure, Message
            <3>2. Silent(w)'
                  BY <2>1 DEF Linked, Silent
            <3> QED BY <3>1, <3>2 DEF Linked
      <2>4. CASE w \in taking /\ ~dead[w]
            <3> DEFINE c == current'[w]
            <3>1. phase'[w] = "running" /\ toWorker'[w] = PostJob(w, c) /\ c \in Nat
                  BY <1>3, <2>4
            <3>2. Silent(w)'
                  BY <2>1 DEF Linked, Silent
            <3>3. ASSUME alive[w] PROVE Own(w, current[w])' /\ Follows(w, current[w])'
                  <4>1. Nothing(w)
                        BY <1>6, <2>4, <3>3 DEF Channels, Asking
                  <4>2. PICK y \in DOMAIN q : c = q[y]
                        BY <1>5, <2>4
                  <4> HIDE DEF c
                  <4>3. /\ \A n \in Of(PostJob(w, c), "cancel") : PostJob(w, c)[n].type = "job" /\ PostJob(w, c)[n].of = c
                        /\ c \in flagged =>
                              \E n \in DOMAIN PostJob(w, c) : /\ PostJob(w, c)[n] = Message("cancel", c, 0, FALSE)
                                                              /\ \E k \in Of(PostJob(w, c), "cancel") : k < n
                        BY <1>1, <3>1, <4>1, PostedJob DEF Nothing
                  <4>4. Own(w, current[w])'
                        BY <3>1, <4>1, <4>3 DEF Own, Nothing, Work, c
                  <4>5. c \in asked /\ outcome[c].type = "pending" => c \in flagged
                        BY <4>2 DEF Marked
                  <4>6. Follows(w, current[w])'
                        BY <3>1, <4>3, <4>5 DEF Follows, Behind, Work, c
                  <4> QED BY <4>4, <4>6
            <3> QED BY <3>1, <3>2, <3>3 DEF Linked
      <2> QED BY <2>2, <2>3, <2>4
<1> QED BY <1>7, <1>8, <1>9, <1>10, <1>11, <1>12 DEF Links

LEMMA JobLinks ==
    ASSUME Inv, Links, NEW kind \in {"plain", "alone"}, Job(kind)
    PROVE  Links'
<1> DEFINE calling == Append(calls, Call(kind, 0, {}))
           q == Append(queue, Len(calling))
<1>1. /\ calls' = calling /\ Pump(q, calling, phase, current, alone) /\ Len(calls) < MaxCalls
      /\ UNCHANGED <<groups, dead, toPage, alive, job, stops, outcome, asked>>
      BY DEF Job, workerVars
<1>2. /\ Shapes /\ calls \in Seq(Called) /\ Call(kind, 0, {}) \in Called /\ Channels(phase) /\ queue \in Seq(Nat)
      /\ \A n \in DOMAIN queue : queue[n] \in DOMAIN calls
      BY DEF Inv, Shapes, Call, Called, Waits
<1>3. /\ calling \in Seq(Called) /\ Len(calling) = Len(calls) + 1 /\ Len(calls) \in Nat
      /\ \A i \in 1..Len(calls) : calling[i] = calls[i]
      /\ calling[Len(calling)].kind # "stream"
      BY <1>2, AppendProperties DEF Call
<1> HIDE DEF calling
<1>4. DOMAIN calls = 1..Len(calls) /\ DOMAIN calling = 1..(Len(calls) + 1) /\ Len(calling) \in Nat
      BY <1>2, <1>3
<1>5. /\ DOMAIN calls \subseteq DOMAIN calling /\ Len(calling) \in DOMAIN calling /\ Len(calling) \notin DOMAIN calls
      /\ \A i \in DOMAIN calls : calling[i] = calls[i]
      BY <1>3, <1>4
<1>6. /\ q \in Seq(Nat) /\ DOMAIN q = DOMAIN queue \cup {Len(queue) + 1} /\ Len(queue) + 1 \notin DOMAIN queue
      /\ q[Len(queue) + 1] = Len(calling) /\ \A n \in DOMAIN queue : q[n] = queue[n]
      BY <1>2, <1>4, AppendProperties
<1> HIDE DEF q
<1>7. Waits(q, calling)
      BY <1>2, <1>5, <1>6 DEF Waits
<1>8. Distinct(q)
      BY <1>2, <1>5, <1>6 DEF Links, Distinct
<1>9. Numbers(calling, groups')
      <2>1. Len(calling) <= MaxCalls
            BY <1>1, <1>3, PoolAssumption
      <2> QED BY <1>1, <1>5, <2>1 DEF Links, Numbers
<1>10. Marked(q)
      BY <1>5, <1>6 DEF Links, Numbers, Marked
<1>11. NoStream(q, phase, current, calling)
      BY <1>2, <1>3, <1>5, <1>6 DEF Inv, Placed, Links, NoStream
<1> QED BY <1>1, <1>2, <1>3, <1>7, <1>8, <1>9, <1>10, <1>11, PumpingLinks DEF Shapes

LEMMA ReadyAgain ==
    ASSUME Inv, Links, NEW w \in Workers, NEW cur \in [Workers -> Nat], NEW flag \in BOOLEAN, phase[w] # "off",
           phase[w] \notin Asking, \A v \in Workers \ {w} : cur[v] = current[v],
           Pump(queue, calls, [phase EXCEPT ![w] = "idle"], cur, flag),
           UNCHANGED <<groups, dead, toPage, alive, job, stops, outcome, asked, calls>>
    PROVE  Links'
<1> DEFINE ph == [phase EXCEPT ![w] = "idle"]
<1>1. /\ phase \in [Workers -> Phases] /\ calls \in Seq(Called) /\ Waits(queue, calls)
      BY DEF Inv, Shapes
<1>2. ph \in [Workers -> Phases] /\ \A v \in Workers : ph[v] = IF v = w THEN "idle" ELSE phase[v]
      BY <1>1 DEF Phases
<1>3. Channels(ph)
      BY <1>2 DEF Inv, Channels, Asking
<1>4. \A v \in Workers : ph[v] \in Held => phase[v] = ph[v] /\ current[v] = cur[v]
      BY <1>2 DEF Held
<1>5. NoStream(queue, ph, cur, calls)
      BY <1>4 DEF Links, NoStream
<1>6. Distinct(queue) /\ Marked(queue) /\ Numbers(calls, groups')
      BY DEF Links
<1>7. Pump(queue, calls, ph, cur, flag)
      OBVIOUS
<1> HIDE DEF ph
<1> QED BY <1>1, <1>2, <1>3, <1>4, <1>5, <1>6, <1>7, PumpingLinks

LEMMA MadeReadyLinks ==
    ASSUME Inv, Links, NEW w \in Workers, MadeReady(w)
    PROVE  Links'
<1>1. /\ phase[w] = "readying" /\ Pump(queue, calls, [phase EXCEPT ![w] = "idle"], current, alone)
      /\ UNCHANGED <<groups, dead, toPage, alive, job, stops, outcome, asked, calls>>
      BY DEF MadeReady, workerVars, callVars
<1>2. current \in [Workers -> Nat] /\ alone \in BOOLEAN
      BY DEF Inv, Shapes
<1> QED BY <1>1, <1>2, ReadyAgain DEF Asking

LEMMA FreeLinks ==
    ASSUME Inv, Links, NEW w \in Workers, Free(w)
    PROVE  Links'
<1> DEFINE cur == [current EXCEPT ![w] = None]
           flag == alone /\ ~Alone(current[w])
<1>1. /\ phase[w] = "freeing" /\ Pump(queue, calls, [phase EXCEPT ![w] = "idle"], cur, flag)
      /\ UNCHANGED <<groups, dead, toPage, alive, job, stops, outcome, asked, calls>>
      BY DEF Free, workerVars, callVars
<1>2. cur \in [Workers -> Nat] /\ flag \in BOOLEAN /\ \A v \in Workers \ {w} : cur[v] = current[v]
      BY DEF Inv, Shapes, None
<1> HIDE DEF cur, flag
<1> QED BY <1>1, <1>2, ReadyAgain DEF Asking

LEMMA StreamLinks ==
    ASSUME Inv, Links, NEW total \in RunCounts, Stream(total)
    PROVE  Links'
<1>1. PICK calling \in Seq(Called), parts \in Nat \ {0}, q \in Seq(Nat) :
          /\ calls' = calling /\ Pump(q, calling, phase, current, alone)
          /\ groups' = groups \cup {Len(calling)} /\ Len(calling) <= MaxCalls
          /\ Streamed(total, calling, parts, q) /\ Waits(q, calling) /\ Distinct(q)
      BY StreamBegins DEF Links
<1>2. UNCHANGED <<dead, toPage, alive, job, stops, outcome, asked>>
      BY DEF Stream, workerVars
<1>3. /\ Shapes /\ Channels(phase) /\ \A n \in DOMAIN queue : queue[n] \in DOMAIN calls
      /\ phase \in [Workers -> Phases] /\ current \in [Workers -> Nat] /\ alone \in BOOLEAN
      BY DEF Inv, Shapes, Waits
<1>4. /\ DOMAIN calls \subseteq DOMAIN calling /\ \A i \in DOMAIN calls : calling[i] = calls[i]
      /\ \A i \in 1..parts : Len(calls) + i \in DOMAIN calling \ DOMAIN calls
      /\ Len(calling) \in DOMAIN calling
      /\ (Len(calls) + 1)..(Len(calls) + parts) \subseteq DOMAIN calling
      BY <1>1, StreamedCalls
<1>5. /\ \A i \in 1..parts : calling[Len(calls) + i].kind = "part"
      /\ calling[Len(calling)].kind = "stream" /\ calling[Len(calling)].parts = (Len(calls) + 1)..(Len(calls) + parts)
      <2>1. /\ \A i \in 1..parts : calling[Len(calls) + i] = Call("part", Share(total, parts, i), {})
            /\ calling[Len(calling)] = Call("stream", total, (Len(calls) + 1)..(Len(calls) + parts))
            BY <1>1 DEF Streamed
      <2>2. \A runs : Call("part", runs, {}).kind = "part"
            BY DEF Call
      <2>3. \A ids : Call("stream", total, ids).kind = "stream" /\ Call("stream", total, ids).parts = ids
            BY DEF Call
      <2> QED BY <2>1, <2>2, <2>3
<1>6. \A n \in DOMAIN q : \/ n \in DOMAIN queue /\ q[n] = queue[n]
                          \/ n - Len(queue) \in 1..parts /\ q[n] = Len(calls) + (n - Len(queue))
      BY <1>1 DEF Streamed
<1>7. Marked(q)
      <2> SUFFICES ASSUME NEW n \in DOMAIN q, q[n] \in asked, outcome[q[n]].type = "pending" PROVE q[n] \in flagged
          BY DEF Marked
      <2>1. q[n] \in DOMAIN calls
            BY DEF Links, Numbers
      <2> QED BY <1>4, <1>6, <2>1 DEF Links, Marked
<1>8. NoStream(q, phase, current, calling)
      <2>1. ASSUME NEW n \in DOMAIN q PROVE calling[q[n]].kind # "stream"
            <3>1. CASE n \in DOMAIN queue /\ q[n] = queue[n]
                  BY <1>3, <1>4, <3>1 DEF Links, NoStream
            <3>2. CASE n - Len(queue) \in 1..parts /\ q[n] = Len(calls) + (n - Len(queue))
                  BY <1>5, <3>2
            <3> QED BY <1>6, <3>1, <3>2
      <2>2. \A w \in Workers : phase[w] \in Held => calling[current[w]].kind # "stream"
            BY <1>4 DEF Inv, Placed, Links, NoStream
      <2> QED BY <2>1, <2>2 DEF NoStream
<1>9. Numbers(calling, groups')
      <2>1. asked \subseteq DOMAIN calling
            BY <1>4 DEF Links, Numbers
      <2>2. ASSUME NEW g \in groups'
            PROVE  g \in DOMAIN calling /\ calling[g].kind = "stream" /\ calling[g].parts \subseteq DOMAIN calling
            <3>1. CASE g \in groups
                  BY <1>4, <3>1 DEF Links, Numbers
            <3>2. CASE g = Len(calling)
                  BY <1>4, <1>5, <3>2
            <3> QED BY <1>1, <2>2, <3>1, <3>2
      <2> QED BY <1>1, <2>1, <2>2 DEF Numbers
<1> QED BY <1>1, <1>2, <1>3, <1>7, <1>8, <1>9, PumpingLinks

(* Steps that do not pump leave the queue and the calls.                   *)
LEMMA SameQueue ==
    ASSUME Links, UNCHANGED <<queue, flagged, calls, asked, current>>, groups' \subseteq groups,
           \A i \in asked : outcome'[i].type = "pending" => outcome[i].type = "pending",
           \A w \in Workers : phase'[w] \in Held => phase[w] \in Held
    PROVE  /\ Distinct(queue)' /\ Marked(queue)' /\ NoStream(queue, phase, current, calls)'
           /\ Numbers(calls, groups)'
<1>1. Distinct(queue)' /\ Marked(queue)'
      BY DEF Links, Distinct, Marked
<1>2. NoStream(queue, phase, current, calls)'
      BY DEF Links, NoStream
<1>3. Numbers(calls, groups)'
      BY DEF Links, Numbers
<1> QED BY <1>1, <1>2, <1>3

LEMMA HandModuleLinks ==
    ASSUME Inv, Links, NEW w \in Workers, HandModule(w)
    PROVE  Links'
<1>1. /\ UNCHANGED <<queue, flagged, groups, calls, asked, current, outcome, settled, dead, toPage, alive, job, stops>>
      /\ phase[w] = "starting"
      /\ \/ phase' = [phase EXCEPT ![w] = "handing"]
         \/ phase' = [phase EXCEPT ![w] = "readying"]
      /\ \A v \in Workers \ {w} : toWorker'[v] = toWorker[v]
      /\ phase \in [Workers -> Phases]
      BY DEF HandModule, poolVars, workerVars, callVars, Inv, Shapes
<1>2. phase'[w] \in {"handing", "readying"} /\ \A v \in Workers \ {w} : phase'[v] = phase[v]
      BY <1>1
<1>3. \A v \in Workers : phase'[v] \in Held => phase[v] \in Held
      BY <1>2 DEF Held
<1>4. ASSUME NEW v \in Workers PROVE Linked(v)'
      <2>1. Linked(v)
            BY DEF Links
      <2>2. CASE v # w
            BY <1>1, <1>2, <2>1, <2>2, Untouched
      <2>3. CASE v = w
            BY <1>1, <1>2, <2>1, <2>3 DEF Linked, Silent
      <2> QED BY <2>2, <2>3
<1> QED BY <1>1, <1>3, <1>4, SameQueue DEF Links, Sizes

(* A promise that settles is no longer pending.                            *)
LEMMA SettleLinks ==
    ASSUME Inv, Links, NEW w \in Workers, Settle(w)
    PROVE  Links'
<1>1. /\ UNCHANGED <<queue, flagged, groups, calls, asked, current, settled, dead, toWorker, toPage, alive, job, stops>>
      /\ phase[w] = "settled" /\ phase' = [phase EXCEPT ![w] = "freeing"] /\ phase \in [Workers -> Phases]
      /\ outcome' = [outcome EXCEPT ![current[w]] = settled[w]]
      BY DEF Settle, poolVars, workerVars, Inv, Shapes
<1>2. settled[w].type # "pending" /\ Sizes /\ asked \subseteq Ids
      <2>1. asked \subseteq DOMAIN calls /\ Len(calls) <= MaxCalls /\ calls \in Seq(Called)
            BY DEF Links, Numbers, Inv, Shapes
      <2>2. DOMAIN calls \subseteq Ids
            BY <2>1, PoolAssumption DEF Ids
      <2> QED BY <1>1, <2>1, <2>2 DEF Links, Linked
<1>3. \A i \in asked : outcome'[i].type = "pending" => outcome[i].type = "pending"
      BY <1>1, <1>2 DEF Sizes
<1>4. \A v \in Workers : phase'[v] = IF v = w THEN "freeing" ELSE phase[v]
      BY <1>1
<1>5. \A v \in Workers : phase'[v] \in Held => phase[v] \in Held
      BY <1>1, <1>4 DEF Held
<1>6. ASSUME NEW v \in Workers PROVE Linked(v)'
      <2>1. Linked(v)
            BY DEF Links
      <2>2. phase'[v] \in {"settled", "running"} => phase'[v] = phase[v]
            BY <1>4
      <2> QED BY <1>1, <1>3, <2>1, <2>2, Untouched
<1>7. Sizes'
      BY <1>1, <1>2 DEF Sizes
<1> QED BY <1>1, <1>3, <1>5, <1>6, <1>7, SameQueue DEF Links

LEMMA StreamEndsLinks ==
    ASSUME Inv, Links, NEW g \in Ids, StreamEnds(g)
    PROVE  Links'
<1>1. /\ UNCHANGED <<queue, flagged, calls, asked, current, phase, settled, dead, toWorker, toPage, alive, job, stops>>
      /\ groups' = groups \ {g}
      /\ \E m : m.type # "pending" /\ outcome' = [outcome EXCEPT ![g] = m]
      <2>1. Failure(g).type # "pending" /\ Merge(g).type # "pending"
            BY DEF Failure, Merge, Message
      <2>2. \/ outcome' = [outcome EXCEPT ![g] = Failure(g)]
            \/ outcome' = [outcome EXCEPT ![g] = Merge(g)]
            BY DEF StreamEnds
      <2> QED BY <2>1, <2>2 DEF StreamEnds, poolVars, sideVars, workerVars
<1>2. Sizes /\ asked \subseteq Ids
      <2>1. asked \subseteq DOMAIN calls /\ Len(calls) <= MaxCalls /\ calls \in Seq(Called)
            BY DEF Links, Numbers, Inv, Shapes
      <2>2. DOMAIN calls \subseteq Ids
            BY <2>1, PoolAssumption DEF Ids
      <2> QED BY <2>1, <2>2 DEF Links
<1>3. \A i \in asked : outcome'[i].type = "pending" => outcome[i].type = "pending"
      BY <1>1, <1>2 DEF Sizes
<1>4. ASSUME NEW v \in Workers PROVE Linked(v)'
      <2>1. Linked(v)
            BY DEF Links
      <2> QED BY <1>1, <1>3, <2>1, Untouched
<1>5. Sizes'
      BY <1>1, <1>2 DEF Sizes
<1> QED BY <1>1, <1>3, <1>4, <1>5, SameQueue DEF Links

LEMMA StillLinks ==
    ASSUME Inv, Links,
           UNCHANGED <<queue, flagged, groups, calls, asked, current, phase, outcome, settled, dead, toWorker, toPage,
                       alive, job, stops>>
    PROVE  Links'
<1>1. ASSUME NEW v \in Workers PROVE Linked(v)'
      <2>1. Linked(v)
            BY DEF Links
      <2> QED BY <2>1, Untouched
<1> QED BY <1>1, SameQueue DEF Links, Sizes

(* A cancel is behind the job of its worker, if it finds one there.        *)
LEMMA CancelLinks ==
    ASSUME Inv, Links, NEW id \in DOMAIN calls, Cancel(id)
    PROVE  Links'
<1> DEFINE targets == IF id \in groups THEN Parts(id) ELSE {id}
           reached == {w \in Workers : phase[w] = "running" /\ current[w] \in targets /\ ~dead[w]}
           c(w) == Message("cancel", current[w], 0, FALSE)
<1>1. /\ UNCHANGED <<queue, groups, calls, current, phase, outcome, settled, dead, toPage, alive, job, stops>>
      /\ toWorker' = [w \in Workers |-> IF w \in reached THEN Append(toWorker[w], c(w)) ELSE toWorker[w]]
      /\ flagged' = flagged \cup ({queue[i] : i \in DOMAIN queue} \cap targets)
      /\ asked' = asked \cup targets \cup {id}
      <2>1. \A w \in Workers : (w \in {v \in Workers : phase[v] = "running"} /\ current[w] \in targets /\ ~dead[w])
                                  <=> w \in reached
            OBVIOUS
      <2> QED BY <2>1 DEF Cancel, CancelPosts, poolVars, sideVars, workerVars, callVars
<1>2. targets \subseteq DOMAIN calls /\ (id \notin targets => calls[id].kind = "stream")
      BY DEF Links, Numbers, Parts
<1>3. /\ \A n \in DOMAIN queue : queue[n] \in DOMAIN calls /\ calls[queue[n]].kind # "stream"
      /\ \A w \in Workers : phase[w] \in Held => calls[current[w]].kind # "stream"
      BY DEF Inv, Waits, Links, NoStream
<1> HIDE DEF targets
<1>4. Sizes'
      BY <1>1 DEF Links, Sizes
<1>5. Distinct(queue)' /\ NoStream(queue, phase, current, calls)'
      BY <1>1 DEF Links, Distinct, NoStream
<1>6. Marked(queue)'
      <2> SUFFICES ASSUME NEW n \in DOMAIN queue, queue[n] \in asked', outcome[queue[n]].type = "pending"
                   PROVE  queue[n] \in flagged'
          BY <1>1 DEF Marked
      <2>1. queue[n] \in asked \/ queue[n] \in targets
            BY <1>1, <1>2, <1>3
      <2> QED BY <1>1, <2>1 DEF Links, Marked
<1>7. Numbers(calls, groups)'
      BY <1>1, <1>2 DEF Links, Numbers
<1>8. ASSUME NEW w \in Workers PROVE Linked(w)'
      <2>1. Linked(w) /\ Silent(w)' /\ toWorker[w] \in Seq(Messages)
            BY <1>1, Here DEF Links, Linked, Silent
      <2>2. ASSUME phase[w] = "running", alive[w] PROVE Own(w, current[w])' /\ Follows(w, current[w])'
            <3>1. Own(w, current[w]) /\ Follows(w, current[w]) /\ ~dead[w]
                  BY <2>1, <2>2 DEF Linked, Silent
            <3>2. current[w] \in asked' => current[w] \in asked \/ current[w] \in targets
                  BY <1>1, <1>2, <1>3, <2>2 DEF Held
            <3>3. CASE w \notin reached
                  <4>1. current[w] \notin targets
                        BY <2>2, <3>1, <3>3
                  <4>2. toWorker'[w] = toWorker[w] /\ Work(w)' = Work(w)
                        BY <1>1, <3>3 DEF Work
                  <4>3. Own(w, current[w])'
                        BY <1>1, <3>1, <4>2 DEF Own
                  <4>4. Follows(w, current[w])'
                        BY <1>1, <3>1, <3>2, <4>1, <4>2 DEF Follows, Behind
                  <4> QED BY <4>3, <4>4
            <3>4. CASE w \in reached
                  <4> DEFINE s == toWorker[w]
                             t == Append(s, c(w))
                  <4>1. c(w) \in Messages /\ c(w).type = "cancel"
                        BY Here DEF Messages, Message
                  <4>2. toWorker'[w] = t
                        BY <1>1, <3>4
                  <4> HIDE DEF c
                  <4>3. /\ t \in Seq(Messages) /\ Len(t) = Len(s) + 1 /\ Len(s) \in Nat
                        /\ \A i \in 1..Len(s) : t[i] = s[i]
                        /\ t[Len(s) + 1] = c(w) /\ Of(t, "cancel") = Of(s, "cancel")
                        BY <2>1, <4>1, Sent, AppendProperties
                  <4> HIDE DEF t
                  <4>4. Work(w)' = Work(w)
                        BY <4>2, <4>3 DEF Work
                  <4>5. \A k \in Work(w) : k \in 1..Len(s) /\ t[k] = s[k] /\ k < Len(s) + 1
                        BY <2>1, <4>3 DEF Work, Of
                  <4>6. Own(w, current[w])'
                        BY <1>1, <3>1, <4>2, <4>4, <4>5 DEF Own
                  <4>7. ASSUME job[w] # None \/ Work(w) # {} PROVE Behind(w, current[w])'
                        <5>1. Len(s) + 1 \in DOMAIN t /\ t[Len(s) + 1] = Message("cancel", current[w], 0, FALSE)
                              BY <4>3 DEF c
                        <5>2. job[w] = current[w] \/ \E k \in Work(w) : k < Len(s) + 1
                              BY <3>1, <4>5, <4>7 DEF Own
                        <5> QED BY <1>1, <4>2, <4>4, <5>1, <5>2 DEF Behind
                  <4>8. Follows(w, current[w])'
                        BY <1>1, <4>4, <4>7 DEF Follows
                  <4> QED BY <4>6, <4>8
            <3> QED BY <3>3, <3>4
      <2> QED BY <1>1, <2>1, <2>2 DEF Linked
<1> QED BY <1>4, <1>5, <1>6, <1>7, <1>8 DEF Links

LEMMA ReceiveLinks ==
    ASSUME Inv, Links, NEW w \in Workers, Receive(w)
    PROVE  Links'
<1> DEFINE m == Head(toPage[w])
<1>1. /\ toPage[w] # <<>> /\ toPage' = [toPage EXCEPT ![w] = Tail(@)]
      /\ dead' = IF m.type = "crash" THEN [dead EXCEPT ![w] = TRUE] ELSE dead
      /\ phase \in [Workers -> Phases] /\ toPage \in [Workers -> Seq(Messages)]
      /\ UNCHANGED <<queue, flagged, groups, calls, asked, current, outcome, toWorker, alive, job, stops>>
      BY DEF Receive, poolVars, workerVars, Inv, Shapes
<1>2. /\ toPage'[w] = Tail(toPage[w]) /\ \A v \in Workers \ {w} : toPage'[v] = toPage[v]
      BY <1>1
<1>3. /\ m \in Messages /\ m = toPage[w][1] /\ 1 \in DOMAIN toPage[w]
      /\ \A n \in DOMAIN Tail(toPage[w]) : n + 1 \in DOMAIN toPage[w] /\ Tail(toPage[w])[n] = toPage[w][n + 1]
      <2> DEFINE s == toPage[w]
      <2>1. s \in Seq(Messages) /\ s # <<>>
            BY <1>1
      <2> HIDE DEF s
      <2>2. /\ Head(s) \in Messages /\ Head(s) = s[1] /\ Tail(s) \in Seq(Messages) /\ Len(s) \in Nat /\ Len(s) > 0
            /\ Len(Tail(s)) = Len(s) - 1 /\ \A i \in 1..Len(Tail(s)) : Tail(s)[i] = s[i + 1]
            BY <2>1, HeadTailProperties
      <2>3. 1 \in DOMAIN s /\ \A n \in DOMAIN Tail(s) : n + 1 \in DOMAIN s /\ Tail(s)[n] = s[n + 1]
            BY <2>1, <2>2
      <2> QED BY <2>2, <2>3 DEF s
<1>4. \/ m.type = "progress" /\ UNCHANGED <<phase, settled>>
      \/ m.type = "crash" /\ SettleInner(w, Failure(current[w]))
      \/ SettleInner(w, m)
      BY DEF Receive, FailAll
<1> HIDE DEF m
<1>5. m.type # "pending" /\ Failure(current[w]).type # "pending"
      BY <1>3 DEF Messages, Failure, Message
<1>6. \/ UNCHANGED <<phase, settled>>
      \/ \E with : /\ with.type # "pending" /\ phase[w] = "running" /\ phase' = [phase EXCEPT ![w] = "settled"]
                   /\ settled' = [settled EXCEPT ![w] = with]
      \/ phase[w] = "handing" /\ phase' = [phase EXCEPT ![w] = "readying"] /\ settled' = settled
      BY <1>1, <1>4, <1>5 DEF SettleInner
<1>7. Sizes
      BY DEF Links
<1>8. Sizes' /\ \A v \in Workers \ {w} : phase'[v] = phase[v] /\ settled'[v] = settled[v] /\ dead'[v] = dead[v]
      BY <1>1, <1>6, <1>7 DEF Sizes
<1>9. Silent(w)'
      <2>1. Silent(w) /\ alive'[w] = alive[w]
            BY <1>1 DEF Links, Linked
      <2>2. dead'[w] => dead[w] \/ m.type = "crash"
            BY <1>1
      <2>3. (\E n \in DOMAIN toPage'[w] : toPage'[w][n].type = "crash") => \E n \in DOMAIN toPage[w] : toPage[w][n].type = "crash"
            BY <1>2, <1>3
      <2> QED BY <1>3, <2>1, <2>2, <2>3 DEF Silent
<1>10. Linked(w)'
      <2>1. Linked(w) /\ Work(w)' = Work(w)
            BY <1>1 DEF Links, Work
      <2>2. phase'[w] = "settled" => settled'[w].type # "pending"
            BY <1>1, <1>6, <1>7, <2>1 DEF Linked, Sizes
      <2>3. ASSUME phase'[w] = "running", alive'[w] PROVE Own(w, current[w])' /\ Follows(w, current[w])'
            <3>1. phase[w] = "running"
                  BY <1>1, <1>6, <2>3
            <3>2. Own(w, current[w]) /\ Follows(w, current[w])
                  BY <1>1, <2>1, <2>3, <3>1 DEF Linked
            <3> QED BY <1>1, <2>1, <3>2 DEF Own, Follows, Behind
      <2> QED BY <1>9, <2>2, <2>3 DEF Linked
<1>11. ASSUME NEW v \in Workers PROVE Linked(v)'
      <2>1. CASE v # w
            <3>1. Linked(v)
                  BY DEF Links
            <3> QED BY <1>1, <1>2, <1>8, <2>1, <3>1, Untouched
      <2> QED BY <1>10, <2>1
<1>12. \A v \in Workers : phase'[v] \in Held => phase[v] \in Held
      BY <1>1, <1>6 DEF Held
<1> QED BY <1>1, <1>8, <1>11, <1>12, SameQueue DEF Links

(* Steps of a worker.                                                      *)
LEMMA WorkersLinks ==
    ASSUME Inv, Links, NEW w \in Workers, Linked(w)',
           UNCHANGED <<queue, flagged, groups, calls, asked, current, phase, outcome, settled, dead>>,
           DOMAIN stops' = Workers,
           \A v \in Workers \ {w} : /\ toWorker'[v] = toWorker[v] /\ toPage'[v] = toPage[v] /\ job'[v] = job[v]
                                    /\ alive'[v] = alive[v] /\ stops'[v] = stops[v]
    PROVE  Links'
<1>1. ASSUME NEW v \in Workers PROVE Linked(v)'
      <2>1. Linked(v)
            BY DEF Links
      <2> QED BY <2>1, Untouched
<1> QED BY <1>1, SameQueue DEF Links, Sizes

LEMMA StaysSilent ==
    ASSUME Inv, NEW w \in Workers, Silent(w), alive[w], alive'[w] = alive[w], dead' = dead,
           NEW m \in Messages, m.type # "crash", Post(w, m)
    PROVE  Silent(w)'
<1>1. toPage[w] \in Seq(Messages) /\ toPage'[w] = Append(toPage[w], m)
      BY DEF Inv, Shapes, Post
<1>2. /\ Len(toPage'[w]) = Len(toPage[w]) + 1 /\ Len(toPage[w]) \in Nat /\ toPage'[w] \in Seq(Messages)
      /\ \A i \in 1..Len(toPage[w]) : toPage'[w][i] = toPage[w][i]
      /\ toPage'[w][Len(toPage[w]) + 1] = m
      BY <1>1, AppendProperties
<1>3. ASSUME NEW n \in DOMAIN toPage'[w] PROVE toPage'[w][n].type # "crash"
      <2>1. n \in 1..(Len(toPage[w]) + 1)
            BY <1>2
      <2>2. CASE n = Len(toPage[w]) + 1
            BY <1>2, <2>2
      <2>3. CASE n \in 1..Len(toPage[w])
            BY <1>1, <1>2, <2>3 DEF Silent
      <2> QED BY <1>2, <2>1, <2>2, <2>3
<1> QED BY <1>3 DEF Silent

LEMMA TakeMessageLinks ==
    ASSUME Inv, Links, NEW w \in Workers, TakeMessage(w)
    PROVE  Links'
<1> DEFINE s == toWorker[w]
           t == Tail(s)
           m == Head(s)
           c == current[w]
<1>1. /\ alive[w] /\ s # <<>> /\ toWorker' = [toWorker EXCEPT ![w] = Tail(@)]
      /\ toWorker \in [Workers -> Seq(Messages)] /\ toPage \in [Workers -> Seq(Messages)] /\ job \in [Workers -> Nat]
      /\ UNCHANGED <<queue, flagged, groups, calls, asked, current, phase, outcome, settled, dead, alive>>
      BY DEF TakeMessage, poolVars, sideVars, callVars, Inv, Shapes
<1>2. toWorker'[w] = t /\ \A v \in Workers \ {w} : toWorker'[v] = toWorker[v]
      BY <1>1
<1>3. /\ m \in Messages /\ m = s[1] /\ 1 \in DOMAIN s /\ DOMAIN s \subseteq Nat
      /\ \A n \in DOMAIN t : n + 1 \in DOMAIN s /\ t[n] = s[n + 1]
      /\ \A n \in DOMAIN s : n # 1 => n - 1 \in DOMAIN t /\ t[n - 1] = s[n]
      <2>1. s \in Seq(Messages) /\ s # <<>>
            BY <1>1
      <2> HIDE DEF s
      <2>2. /\ Head(s) \in Messages /\ Head(s) = s[1] /\ Tail(s) \in Seq(Messages) /\ Len(s) \in Nat /\ Len(s) > 0
            /\ Len(Tail(s)) = Len(s) - 1 /\ \A i \in 1..Len(Tail(s)) : Tail(s)[i] = s[i + 1]
            BY <2>1, HeadTailProperties
      <2>3. DOMAIN s = 1..Len(s) /\ DOMAIN Tail(s) = 1..(Len(s) - 1)
            BY <2>1, <2>2
      <2>4. \A n \in DOMAIN Tail(s) : n + 1 \in DOMAIN s /\ Tail(s)[n] = s[n + 1]
            BY <2>2, <2>3
      <2>5. \A n \in DOMAIN s : n # 1 => n - 1 \in DOMAIN Tail(s) /\ Tail(s)[n - 1] = s[(n - 1) + 1] /\ (n - 1) + 1 = n
            BY <2>2, <2>3, <2>4
      <2> QED BY <2>2, <2>3, <2>4, <2>5
<1>4. OneThing(w) /\ Linked(w) /\ (phase[w] \notin Asking => Nothing(w))
      BY <1>1, Here DEF Links
<1>5. \/ m.type = "cancel" /\ stops' = [stops EXCEPT ![w] = @ \cup {m.of}] /\ UNCHANGED <<toPage, job>>
      \/ /\ m.type = "module" /\ UNCHANGED <<job, stops>>
         /\ Post(w, Message("done", None, 0, FALSE)) \/ Post(w, Failure(None))
      \/ m.type = "job" /\ job' = [job EXCEPT ![w] = m.of] /\ UNCHANGED <<toPage, stops>>
      BY DEF TakeMessage
<1> HIDE DEF s, t, m
<1>6. Work(w) = {n \in DOMAIN s : s[n].type # "cancel"} /\ Work(w)' = {n \in DOMAIN t : t[n].type # "cancel"}
      BY <1>2 DEF Work, Of, s
<1>7. /\ \A n \in DOMAIN toWorker[w] : n \in DOMAIN s /\ toWorker[w][n] = s[n]
      /\ phase[w] = "settled" => settled[w].type # "pending"
      BY <1>4 DEF s, Linked
<1>8. DOMAIN stops = Workers
      BY DEF Links, Sizes
<1>9. CASE m.type = "cancel" /\ stops' = [stops EXCEPT ![w] = @ \cup {m.of}] /\ UNCHANGED <<toPage, job>>
      <2>1. DOMAIN stops' = Workers /\ stops'[w] = stops[w] \cup {m.of} /\ \A v \in Workers \ {w} : stops'[v] = stops[v]
            BY <1>8, <1>9
      <2>2. Silent(w)'
            BY <1>1, <1>4, <1>9 DEF Linked, Silent
      <2>3. ASSUME phase[w] = "running" PROVE Own(w, current[w])' /\ Follows(w, current[w])'
            <3>1. Own(w, c) /\ Follows(w, c)
                  BY <1>1, <1>4, <2>3 DEF Linked
            <3>2. \A n \in Work(w)' : n + 1 \in Work(w) /\ t[n] = s[n + 1]
                  BY <1>3, <1>6
            <3>3. \A n \in Work(w) : n # 1 /\ n - 1 \in Work(w)' /\ n \in Nat
                  BY <1>3, <1>6, <1>9
            <3>4. Own(w, current[w])'
                  <4>1. \A n \in Work(w)' : t[n].type = "job" /\ t[n].of = c
                        BY <3>1, <3>2 DEF Own, s
                  <4>2. job'[w] \in {None, c} /\ current'[w] = c
                        BY <1>1, <1>9, <3>1 DEF Own
                  <4> QED BY <1>2, <4>1, <4>2 DEF Own
            <3>5. ASSUME c \in asked, outcome[c].type = "pending", job[w] # None \/ Work(w) # {}
                  PROVE  c \in stops'[w] \/ Behind(w, current[w])'
                  <4>1. CASE c \in stops[w]
                        BY <2>1, <4>1
                  <4>2. CASE Behind(w, c)
                        <5>1. PICK n \in DOMAIN s : /\ s[n] = Message("cancel", c, 0, FALSE)
                                                    /\ job[w] = c \/ \E k \in Work(w) : k < n
                              BY <4>2 DEF Behind, s
                        <5>2. CASE n = 1
                              BY <1>3, <2>1, <5>1, <5>2 DEF Message
                        <5>3. CASE n # 1
                              <6>1. n - 1 \in DOMAIN t /\ t[n - 1] = Message("cancel", c, 0, FALSE) /\ n \in Nat
                                    BY <1>3, <5>1, <5>3
                              <6>2. job[w] = c \/ \E k \in Work(w)' : k < n - 1
                                    <7>1. ASSUME NEW k \in Work(w), k < n PROVE k - 1 \in Work(w)' /\ k - 1 < n - 1
                                          BY <3>3, <6>1, <7>1
                                    <7> QED BY <5>1, <7>1
                              <6> QED BY <1>1, <1>2, <1>9, <6>1, <6>2 DEF Behind
                        <5> QED BY <5>2, <5>3
                  <4> QED BY <3>1, <3>5, <4>1, <4>2 DEF Follows
            <3>6. Follows(w, current[w])'
                  BY <1>1, <1>9, <3>2, <3>5 DEF Follows
            <3> QED BY <3>4, <3>6
      <2>4. Linked(w)'
            BY <1>1, <1>7, <2>2, <2>3 DEF Linked
      <2> QED BY <1>1, <1>2, <1>9, <2>1, <2>4, WorkersLinks
<1>10. CASE /\ m.type = "module" /\ UNCHANGED <<job, stops>>
            /\ Post(w, Message("done", None, 0, FALSE)) \/ Post(w, Failure(None))
      <2>1. PICK a \in Messages : a.type # "crash" /\ Post(w, a)
            <3>1. Message("done", None, 0, FALSE) \in Messages /\ Failure(None) \in Messages
                  BY DEF Messages, Message, Failure, None
            <3>2. Message("done", None, 0, FALSE).type # "crash" /\ Failure(None).type # "crash"
                  BY DEF Message, Failure
            <3> QED BY <1>10, <3>1, <3>2
      <2>2. Silent(w)' /\ \A v \in Workers \ {w} : toPage'[v] = toPage[v]
            BY <1>1, <1>4, <2>1, StaysSilent DEF Linked, Post
      <2>3. phase[w] # "running"
            <3>1. 1 \in Work(w) /\ s[1].type # "job"
                  BY <1>3, <1>6, <1>10
            <3> QED BY <1>1, <1>4, <3>1 DEF Linked, Own, s
      <2>4. Linked(w)'
            BY <1>1, <1>7, <2>2, <2>3 DEF Linked
      <2> QED BY <1>1, <1>2, <1>8, <1>10, <2>2, <2>4, WorkersLinks
<1>11. CASE m.type = "job" /\ job' = [job EXCEPT ![w] = m.of] /\ UNCHANGED <<toPage, stops>>
      <2>1. job'[w] = m.of /\ \A v \in Workers \ {w} : job'[v] = job[v]
            BY <1>1, <1>11
      <2>2. Silent(w)'
            BY <1>1, <1>4, <1>11 DEF Linked, Silent
      <2>3. 1 \in Work(w) /\ Work(w)' = {}
            <3>1. 1 \in Work(w)
                  BY <1>3, <1>6, <1>11
            <3>2. ASSUME NEW n \in Work(w)' PROVE FALSE
                  <4>1. n + 1 \in Work(w) /\ n \in DOMAIN t
                        BY <1>3, <1>6
                  <4>2. n + 1 = 1
                        BY <1>4, <3>1, <4>1 DEF OneThing
                  <4>3. n \in Nat /\ n # 0
                        <5>1. t \in Seq(Messages)
                              BY <1>1, <1>2, HeadTailProperties DEF s, t
                        <5> QED BY <4>1, <5>1
                  <4> QED BY <4>2, <4>3
            <3> QED BY <3>1, <3>2
      <2>4. ASSUME phase[w] = "running" PROVE Own(w, current[w])' /\ Follows(w, current[w])'
            <3>1. Own(w, c) /\ Follows(w, c)
                  BY <1>1, <1>4, <2>4 DEF Linked
            <3>2. m.of = c
                  BY <1>3, <2>3, <3>1 DEF Own, s
            <3>3. Own(w, current[w])'
                  BY <1>1, <2>1, <2>3, <3>2 DEF Own
            <3>4. ASSUME c \in asked, outcome[c].type = "pending" PROVE c \in stops'[w] \/ Behind(w, current[w])'
                  <4>1. CASE c \in stops[w]
                        BY <1>11, <4>1
                  <4>2. CASE Behind(w, c)
                        <5>1. PICK n \in DOMAIN s : s[n] = Message("cancel", c, 0, FALSE)
                              BY <4>2 DEF Behind, s
                        <5>2. n # 1
                              BY <1>3, <1>11, <5>1 DEF Message
                        <5>3. n - 1 \in DOMAIN t /\ t[n - 1] = Message("cancel", c, 0, FALSE)
                              BY <1>3, <5>1, <5>2
                        <5> QED BY <1>1, <1>2, <2>1, <3>2, <5>3 DEF Behind
                  <4> QED BY <2>3, <3>1, <3>4, <4>1, <4>2 DEF Follows
            <3>5. Follows(w, current[w])'
                  BY <1>1, <3>4 DEF Follows
            <3> QED BY <3>3, <3>5
      <2>5. Linked(w)'
            BY <1>1, <1>7, <2>2, <2>4 DEF Linked
      <2> QED BY <1>1, <1>2, <1>8, <1>11, <2>1, <2>5, WorkersLinks
<1> QED BY <1>5, <1>9, <1>10, <1>11

LEMMA RunChunkLinks ==
    ASSUME Inv, Links, NEW w \in Workers, RunChunk(w)
    PROVE  Links'
<1> DEFINE m == Message("progress", job[w], done[w] + 1, FALSE)
<1>1. /\ Post(w, m) /\ alive[w]
      /\ UNCHANGED <<queue, flagged, groups, calls, asked, current, phase, outcome, settled, dead, alive, job, stops, toWorker>>
      BY DEF RunChunk, poolVars, sideVars, callVars
<1>2. m \in Messages /\ m.type # "crash"
      BY Here DEF Messages, Message
<1> HIDE DEF m
<1>3. Linked(w) /\ Work(w)' = Work(w)
      BY <1>1 DEF Links, Work
<1>4. Silent(w)' /\ \A v \in Workers \ {w} : toPage'[v] = toPage[v]
      BY <1>1, <1>2, <1>3, StaysSilent DEF Linked, Post, Inv, Shapes
<1>5. Linked(w)'
      BY <1>1, <1>3, <1>4 DEF Linked, Own, Follows, Behind
<1> QED BY <1>1, <1>4, <1>5, WorkersLinks DEF Links, Sizes

LEMMA EndsLinks ==
    ASSUME Inv, Links, NEW w \in Workers, job[w] # None, NEW m \in Messages, m.type # "crash", Ends(w, m)
    PROVE  Links'
<1>1. /\ alive[w] /\ Post(w, m) /\ job' = [job EXCEPT ![w] = None] /\ job \in [Workers -> Nat]
      /\ stops' = [stops EXCEPT ![w] = @ \ {job[w]}]
      /\ UNCHANGED <<queue, flagged, groups, calls, asked, current, phase, outcome, settled, dead, alive, toWorker>>
      BY DEF Ends, poolVars, sideVars, callVars, Inv, Shapes
<1>2. Linked(w) /\ Work(w)' = {} /\ DOMAIN stops = Workers
      <2>1. Work(w) = {}
            BY <1>1, Here DEF OneThing
      <2> QED BY <1>1, <2>1 DEF Links, Sizes, Work
<1>3. Silent(w)' /\ \A v \in Workers \ {w} : toPage'[v] = toPage[v]
      BY <1>1, <1>2, StaysSilent DEF Linked, Post, Inv, Shapes
<1>4. job'[w] = None /\ \A v \in Workers \ {w} : job'[v] = job[v]
      BY <1>1
<1>5. DOMAIN stops' = Workers /\ \A v \in Workers \ {w} : stops'[v] = stops[v]
      BY <1>1, <1>2
<1>6. Own(w, current[w])' /\ Follows(w, current[w])'
      BY <1>2, <1>4 DEF Own, Follows
<1>7. Linked(w)'
      BY <1>1, <1>2, <1>3, <1>6 DEF Linked
<1> QED BY <1>1, <1>3, <1>4, <1>5, <1>7, WorkersLinks

LEMMA RunLinks ==
    ASSUME Inv, Links, NEW w \in Workers, Run(w)
    PROVE  Links'
<1>1. CASE RunChunk(w)
      BY <1>1, RunChunkLinks
<1>2. CASE Return(w)
      <2> DEFINE m == Message("done", job[w], done[w], Stopped(w))
      <2>1. m \in Messages /\ m.type # "crash"
            BY Here DEF Messages, Message, Stopped
      <2>2. job[w] # None /\ Ends(w, m)
            BY <1>2 DEF Return
      <2> HIDE DEF m
      <2> QED BY <2>1, <2>2, EndsLinks
<1>3. CASE Raise(w)
      <2>1. Failure(job[w]) \in Messages /\ Failure(job[w]).type # "crash"
            BY Here DEF Messages, Message, Failure
      <2>2. job[w] # None /\ Ends(w, Failure(job[w]))
            BY <1>3 DEF Raise
      <2> QED BY <2>1, <2>2, EndsLinks
<1> QED BY <1>1, <1>2, <1>3 DEF Run

LEMMA CrashLinks ==
    ASSUME Inv, Links, NEW w \in Workers, Crash(w)
    PROVE  Links'
<1>1. /\ alive' = [alive EXCEPT ![w] = FALSE] /\ alive \in [Workers -> BOOLEAN]
      /\ \A v \in Workers \ {w} : toPage'[v] = toPage[v]
      /\ UNCHANGED <<queue, flagged, groups, calls, asked, current, phase, outcome, settled, dead, toWorker, job, stops>>
      BY DEF Crash, Post, poolVars, sideVars, callVars, Inv, Shapes
<1>2. ~alive'[w] /\ \A v \in Workers \ {w} : alive'[v] = alive[v]
      BY <1>1
<1>3. Linked(w)'
      BY <1>1, <1>2 DEF Links, Linked, Silent
<1> QED BY <1>1, <1>2, <1>3, WorkersLinks DEF Links, Sizes

-----------------------------------------------------------------------------
LEMMA InitLinks ==
    Init => Links
<1> SUFFICES ASSUME Init PROVE Links
    OBVIOUS
<1>1. Sizes
      BY DEF Init, Sizes
<1>2. Distinct(queue) /\ Marked(queue) /\ NoStream(queue, phase, current, calls)
      BY DEF Init, Distinct, Marked, NoStream, Held
<1>3. Numbers(calls, groups)
      BY PoolAssumption DEF Init, Numbers
<1>4. ASSUME NEW w \in Workers PROVE Linked(w)
      BY DEF Init, Linked, Silent
<1> QED BY <1>1, <1>2, <1>3, <1>4 DEF Links

LEMMA NextLinks ==
    ASSUME Inv, Links, [Next]_vars
    PROVE  Links'
<1>1. CASE Use
      BY <1>1, JobLinks, StreamLinks, CancelLinks DEF Use
<1>2. ASSUME NEW w \in Workers, Microtask(w) PROVE Links'
      BY <1>2, HandModuleLinks, MadeReadyLinks, SettleLinks, FreeLinks DEF Microtask
<1>3. ASSUME NEW w \in Workers, Receive(w) \/ TakeMessage(w) \/ Run(w) \/ Crash(w) PROVE Links'
      BY <1>3, ReceiveLinks, TakeMessageLinks, RunLinks, CrashLinks
<1>4. ASSUME NEW g \in Ids, StreamEnds(g) PROVE Links'
      BY <1>4, StreamEndsLinks
<1>5. CASE ModuleSettles
      BY <1>5, StillLinks DEF ModuleSettles, poolVars, sideVars, workerVars, callVars
<1>6. CASE Rest \/ UNCHANGED vars
      BY <1>6, StillLinks DEF Rest, vars, poolVars, sideVars, workerVars, callVars
<1> QED BY <1>1, <1>2, <1>3, <1>4, <1>5, <1>6 DEF Next

(* cancel (js/pool.js, js/compute.js) and the worker's set of cancelled    *)
(* jobs: whenever a cancel comes, it is marked in the queue, on its way    *)
(* behind its job, or in the worker's set until the answer is posted.      *)
THEOREM CancelsArrive ==
    Spec => []CancelNotLost
<1>1. Inv /\ Links => CancelNotLost
      <2> SUFFICES ASSUME Inv, Links, NEW i \in asked, outcome[i] = Pending
                   PROVE  /\ Waiting(i) => i \in flagged
                          /\ \A w \in Workers :
                                phase[w] = "running" /\ current[w] = i /\ Running(w) =>
                                    \/ i \in stops[w]
                                    \/ \E n \in DOMAIN toWorker[w] : /\ toWorker[w][n] = Message("cancel", i, 0, FALSE)
                                                                     /\ job[w] = i \/ n > 1
          BY DEF CancelNotLost
      <2>1. outcome[i].type = "pending"
            BY DEF Pending, Message
      <2>2. Waiting(i) => i \in flagged
            BY <2>1 DEF Waiting, Links, Marked
      <2>3. ASSUME NEW w \in Workers, phase[w] = "running", current[w] = i, Running(w)
            PROVE  \/ i \in stops[w]
                   \/ \E n \in DOMAIN toWorker[w] : /\ toWorker[w][n] = Message("cancel", i, 0, FALSE)
                                                    /\ job[w] = i \/ n > 1
            <3>1. alive[w] /\ (job[w] # None \/ Work(w) # {})
                  BY <2>3 DEF Running, Work, Of
            <3>2. i \in stops[w] \/ Behind(w, i)
                  BY <2>1, <2>3, <3>1 DEF Links, Linked, Follows
            <3>3. ASSUME NEW k \in Work(w), NEW n \in DOMAIN toWorker[w], k < n PROVE n > 1
                  <4>1. toWorker[w] \in Seq(Messages) /\ k \in DOMAIN toWorker[w]
                        BY Here DEF Work, Of
                  <4> QED BY <3>3, <4>1
            <3> QED BY <3>2, <3>3 DEF Behind
      <2> QED BY <2>2, <2>3
<1> QED BY <1>1, InitInv, NextInv, InitLinks, NextLinks, PTL DEF Spec

-----------------------------------------------------------------------------
(***************************************************************************)
(* Jobs wait for a reason.  What #pump leaves in the queue waits for a     *)
(* reason, and until the next #pump no worker becomes idle and none that   *)
(* is starting is lost.                                                    *)
(***************************************************************************)
Reason(q, calling, ph, begun, most) ==
    \/ calling[Head(q)].kind = "alone" /\ Busy(ph) # {}
    \/ /\ Idle(ph) = {}
       /\ begun = most \/ Cardinality(Starting(ph)) >= Len(q)

Reasons ==
    /\ started <= size /\ limit <= MaxWorkers
    /\ queue # <<>> /\ ~alone => Reason(queue, calls, phase, started, size)

(* The browser starts at most as many as are wanted, and none beyond its   *)
(* limit.                                                                  *)
LEMMA WillStartAtMost ==
    ASSUME NEW wanted \in Int, Shapes, NEW got, got = WillStart(wanted)
    PROVE  got \in Nat /\ (got # 0 => got <= wanted /\ got <= limit - started)
<1> DEFINE m == Min({wanted, limit - started})
<1>1. m \in Int /\ m <= wanted /\ m <= limit - started
      <2>1. limit - started \in Int
            BY DEF Shapes
      <2> QED BY <2>1, MinOfTwo
<1>2. got = Max({0, m})
      BY DEF WillStart
<1> HIDE DEF m
<1>3. Max({0, m}) \in {0, m} /\ Max({0, m}) >= 0
      BY <1>1, MaxOfTwo
<1> QED BY <1>1, <1>2, <1>3

(* Some idle worker, if there is one, is first in turn; and when as many   *)
(* jobs are given out as workers idle, all of them take one.               *)
LEMMA FirstAndLast ==
    ASSUME NEW ph
    PROVE  /\ Idle(ph) # {} => \E w \in Idle(ph) : Rank(w, ph) <= 1
           /\ \A w \in Idle(ph) : Rank(w, ph) <= Cardinality(Idle(ph))
<1> DEFINE upTo(x) == {v \in Idle(ph) : v <= x}
<1>1. ASSUME Idle(ph) # {} PROVE \E w \in Idle(ph) : Rank(w, ph) <= 1
      <2>1. Idle(ph) \subseteq Nat
            BY DEF Idle, Workers
      <2>2. PICK w \in Idle(ph) : \A v \in Idle(ph) : w <= v
            BY <1>1, <2>1, LeastNatural
      <2>3. upTo(w) = {w}
            BY <2>1, <2>2
      <2>4. Cardinality(upTo(w)) = 1
            BY <2>3, FS_Singleton
      <2>5. Rank(w, ph) = 1
            BY <2>4 DEF Rank
      <2> QED BY <2>5
<1>2. ASSUME NEW w \in Idle(ph) PROVE Rank(w, ph) <= Cardinality(Idle(ph))
      <2>1. upTo(w) \in SUBSET Idle(ph) /\ IsFiniteSet(Idle(ph))
            BY IdleFinite
      <2>2. Cardinality(upTo(w)) <= Cardinality(Idle(ph))
            BY <2>1, FS_Subset
      <2> QED BY <2>2 DEF Rank
<1> QED BY <1>1, <1>2

(* The workers that #pump starts join those that are starting.             *)
LEMMA MoreStarting ==
    ASSUME Shapes, NEW ph \in [Workers -> Phases], \A w \in Workers : w > started => ph[w] = "off",
           NEW got \in Nat, got # 0 => started + got <= MaxWorkers,
           NEW after, \A w \in Workers : w > started /\ w <= started + got => after[w] = "starting",
           \A w \in Workers : ph[w] \in {"starting", "handing", "readying"} => after[w] = ph[w]
    PROVE  Cardinality(Starting(after)) >= Cardinality(Starting(ph)) + got
<1> DEFINE fresh == (started + 1)..(started + got)
<1>0. started \in Nat /\ MaxWorkers \in Nat /\ IsFiniteSet(Starting(ph)) /\ IsFiniteSet(Starting(after))
      BY PoolAssumption, IdleFinite DEF Shapes
<1>1. IsFiniteSet(fresh) /\ Cardinality(fresh) = got
      <2>1. IsFiniteSet(fresh) /\ Cardinality(fresh) = IF started + 1 > started + got THEN 0
                                                       ELSE (started + got) - (started + 1) + 1
            BY <1>0, FS_Interval
      <2> QED BY <1>0, <2>1
<1>2. fresh \subseteq Starting(after)
      <2>1. ASSUME NEW w \in fresh PROVE w \in Workers /\ w > started /\ w <= started + got
            BY <1>0 DEF Workers
      <2> QED BY <2>1 DEF Starting
<1>3. Starting(ph) \cap fresh = {}
      BY <1>0 DEF Starting
<1>4. Starting(ph) \subseteq Starting(after)
      BY DEF Starting
<1> HIDE DEF fresh
<1>5. Cardinality(Starting(ph) \cup fresh) = Cardinality(Starting(ph)) + Cardinality(fresh) - Cardinality(Starting(ph) \cap fresh)
      BY <1>0, <1>1, FS_Union
<1>6. Cardinality(Starting(ph) \cap fresh) = 0
      BY <1>3, FS_EmptySet
<1>7. Cardinality(Starting(ph) \cup fresh) <= Cardinality(Starting(after))
      BY <1>0, <1>2, <1>4, FS_Subset
<1>8. Cardinality(Starting(ph)) \in Nat /\ Cardinality(Starting(after)) \in Nat
      BY <1>0, FS_CardinalityType
<1> QED BY <1>1, <1>5, <1>6, <1>7, <1>8

(* What #pump leaves in the queue waits for a reason.                      *)
LEMMA PumpingReasons ==
    ASSUME Shapes, started <= size, limit <= MaxWorkers, NEW q, NEW calling, Waits(q, calling),
           NEW ph \in [Workers -> Phases], NEW cur, NEW exclusive \in BOOLEAN,
           \A w \in Workers : w > started => ph[w] = "off",
           Pump(q, calling, ph, cur, exclusive), calls' = calling, limit' = limit
    PROVE  Reasons'
<1> DEFINE n == Given(q, calling, ph, exclusive, Busy(ph))
           taking == {w \in Idle(ph) : Rank(w, ph) <= n}
           rest == SubSeq(q, n + 1, Len(q))
           ended == taking = Idle(ph) /\ ~exclusive /\ (n = 1 => calling[q[1]].kind # "alone")
           wanted == IF ended THEN Min({Len(rest) - Cardinality(Starting(ph)), size - started}) ELSE 0
           got == WillStart(wanted)
<1>1. /\ queue' = rest
      /\ alone' = (exclusive \/ (n = 1 /\ calling[q[1]].kind = "alone"))
      /\ started' = started + got
      /\ size' = IF wanted > got THEN started + got ELSE size
      /\ phase' = [w \in Workers |->
                     IF w \in taking THEN IF dead[w] THEN "settled" ELSE "running"
                     ELSE IF w > started /\ w <= started + got THEN "starting" ELSE ph[w]]
      BY DEF Pump, PumpBy, Rank
<1>2. /\ n \in 0..Len(q)
      /\ n > 0 /\ calling[q[1]].kind = "alone" => n = 1 /\ Busy(ph) = {}
      BY GivenBounds
<1>3. q \in Seq(Nat) /\ Len(q) \in Nat /\ started \in Nat /\ size \in Int /\ limit \in Int /\ MaxWorkers \in Nat
      BY PoolAssumption DEF Waits, Shapes
<1>4. /\ q # <<>> /\ ~exclusive /\ calling[q[1]].kind = "alone" => n = IF Busy(ph) = {} THEN 1 ELSE 0
      /\ q # <<>> /\ ~exclusive /\ calling[q[1]].kind # "alone" => n = Min({Cardinality(Idle(ph)), Sharing(q, calling)})
      BY DEF Given
<1>5. n = 0 => taking = {}
      BY Ranked
<1> HIDE DEF n
<1>6. n \in Nat /\ n + 1 \in Int /\ n <= Len(q)
      BY <1>2, <1>3
<1>7. /\ Len(rest) = Len(q) - n /\ rest \in Seq(Nat)
      /\ n < Len(q) => rest[1] = q[n + 1]
      <2>1. \A i \in (n + 1)..Len(q) : q[i] \in Nat
            BY <1>3, <1>6
      <2>2. /\ rest \in Seq(Nat) /\ Len(rest) = IF n + 1 <= Len(q) THEN Len(q) - (n + 1) + 1 ELSE 0
            /\ \A i \in 1..(Len(q) - (n + 1) + 1) : rest[i] = q[(n + 1) + i - 1]
            BY <1>3, <1>6, <2>1, SubSeqProperties
      <2> HIDE DEF rest
      <2>3. Len(rest) = Len(q) - n
            BY <1>3, <1>6, <2>2
      <2>4. ASSUME n < Len(q) PROVE rest[1] = q[n + 1]
            <3>1. 1 \in 1..(Len(q) - (n + 1) + 1) /\ (n + 1) + 1 - 1 = n + 1
                  BY <1>3, <1>6, <2>4
            <3> QED BY <2>2, <3>1
      <2> QED BY <2>2, <2>3, <2>4
<1>8. rest = <<>> \/ n < Len(q)
      BY <1>3, <1>6 DEF rest
<1> HIDE DEF rest
<1>9. Cardinality(Starting(ph)) \in Nat /\ Cardinality(Idle(ph)) \in Nat
      BY IdleFinite, FS_CardinalityType
<1>10. /\ wanted \in Int
       /\ wanted <= size - started
       /\ ended => wanted = Len(rest) - Cardinality(Starting(ph)) \/ wanted = size - started
      <2> DEFINE a == Len(rest) - Cardinality(Starting(ph))
                 b == size - started
      <2>1. a \in Int /\ b \in Int /\ b >= 0
            BY <1>3, <1>6, <1>7, <1>9
      <2>2. wanted = IF ended THEN Min({a, b}) ELSE 0
            OBVIOUS
      <2> HIDE DEF a, b, ended, wanted
      <2>3. Min({a, b}) \in {a, b} /\ Min({a, b}) <= b
            BY <2>1, MinOfTwo
      <2>4. /\ wanted \in Int /\ wanted <= b
            /\ ended => wanted = a \/ wanted = b
            BY <2>1, <2>2, <2>3
      <2> QED BY <2>4 DEF a, b
<1>11. ~ended => wanted = 0
      OBVIOUS
<1> HIDE DEF wanted
<1>12. got \in Nat /\ (got # 0 => got <= wanted /\ got <= limit - started)
      BY <1>10, WillStartAtMost
<1> HIDE DEF got, ended
<1>13. started' <= size' /\ limit' <= MaxWorkers
      BY <1>1, <1>3, <1>10, <1>12
<1>14. /\ \A w \in taking : phase'[w] \in {"settled", "running"}
       /\ \A w \in Workers \ taking : phase'[w] \in {ph[w], "starting"}
       /\ \A w \in Workers : ph[w] \notin Resting => phase'[w] = ph[w]
       /\ \A w \in Workers : w > started /\ w <= started + got => phase'[w] = "starting"
       /\ taking \subseteq Workers /\ \A w \in Workers : w \in Int
      BY <1>1 DEF Idle, Resting, Workers
<1>15. Busy(ph) # {} \/ taking # {} => Busy(phase') # {}
      BY <1>14 DEF Busy, Resting
<1> SUFFICES ASSUME queue' # <<>>, ~alone' PROVE Reason(queue', calling, phase', started', size')
      BY <1>13 DEF Reasons
<1>16. n < Len(q) /\ ~exclusive /\ Head(queue') = q[n + 1] /\ q # <<>> /\ (n = 1 => calling[q[1]].kind # "alone")
      <2>1. ~exclusive /\ (n = 1 => calling[q[1]].kind # "alone") /\ n < Len(q)
            BY <1>1, <1>8
      <2>2. q # <<>>
            BY <1>3, <1>6, <2>1
      <2>3. Head(rest) = rest[1]
            BY <1>1, <1>7, HeadTailProperties
      <2> QED BY <1>1, <1>7, <2>1, <2>2, <2>3
<1>17. CASE calling[q[1]].kind = "alone"
      <2>1. n = 0 /\ Busy(ph) # {}
            BY <1>4, <1>16, <1>17
      <2> QED BY <1>15, <1>16, <1>17, <2>1 DEF Reason
<1>18. CASE calling[q[1]].kind # "alone" /\ taking # Idle(ph)
      <2>1. n = Min({Cardinality(Idle(ph)), Sharing(q, calling)})
            BY <1>4, <1>16, <1>18
      <2>2. /\ Sharing(q, calling) \in 0..Len(q)
            /\ Sharing(q, calling) < Len(q) => calling[q[Sharing(q, calling) + 1]].kind = "alone"
            BY <1>3, SharingOnly
      <2>3. PICK w \in Idle(ph) : Rank(w, ph) > n
            <3>1. PICK w \in Idle(ph) : ~(Rank(w, ph) <= n)
                  BY <1>18
            <3>2. Rank(w, ph) \in Nat
                  BY Ranked
            <3> QED BY <1>6, <3>1, <3>2
      <2>4. Rank(w, ph) <= Cardinality(Idle(ph)) /\ Rank(w, ph) \in Nat
            BY FirstAndLast, Ranked
      <2>5. n = Sharing(q, calling)
            <3>1. n \in {Cardinality(Idle(ph)), Sharing(q, calling)}
                  <4>1. Cardinality(Idle(ph)) \in Int /\ Sharing(q, calling) \in Int
                        BY <1>3, <1>9, <2>2
                  <4> QED BY <2>1, <4>1, MinOfTwo
            <3> QED BY <1>6, <1>9, <2>3, <2>4, <3>1
      <2>6. calling[q[n + 1]].kind = "alone"
            BY <1>16, <2>2, <2>5
      <2>7. n >= 1
            BY <1>6, <1>18, <2>6
      <2>8. taking # {}
            <3>1. PICK v \in Idle(ph) : Rank(v, ph) <= 1
                  BY <2>3, FirstAndLast
            <3>2. Rank(v, ph) \in Nat
                  BY Ranked
            <3>3. Rank(v, ph) <= n
                  BY <1>6, <2>7, <3>1, <3>2
            <3> QED BY <3>3
      <2> QED BY <1>15, <1>16, <2>6, <2>8 DEF Reason
<1>19. CASE calling[q[1]].kind # "alone" /\ taking = Idle(ph)
      <2>1. ended
            BY <1>16, <1>19 DEF ended
      <2>2. Idle(phase') = {}
            BY <1>14, <1>19 DEF Idle
      <2>3. CASE wanted > got
            <3>1. started' = size'
                  BY <1>1, <2>3
            <3> QED BY <2>2, <3>1 DEF Reason
      <2>4. CASE ~(wanted > got) /\ wanted = size - started
            <3>1. started + got = size
                  <4>1. got >= wanted /\ wanted >= 0
                        BY <1>3, <1>10, <1>12, <2>4
                  <4>2. got = wanted
                        BY <1>10, <1>12, <4>1
                  <4> QED BY <1>3, <2>4, <4>2
            <3>2. started' = size'
                  BY <1>1, <2>4, <3>1
            <3> QED BY <2>2, <3>2 DEF Reason
      <2>5. CASE ~(wanted > got) /\ wanted = Len(rest) - Cardinality(Starting(ph))
            <3>1. Cardinality(Starting(phase')) >= Cardinality(Starting(ph)) + got
                  <4>1. got # 0 => started + got <= MaxWorkers
                        BY <1>3, <1>12
                  <4>2. \A w \in Workers : ph[w] \in {"starting", "handing", "readying"} => phase'[w] = ph[w]
                        BY <1>14 DEF Resting
                  <4> QED BY <1>12, <1>14, <4>1, <4>2, MoreStarting
            <3>2. Cardinality(Starting(phase')) \in Nat
                  BY IdleFinite, FS_CardinalityType
            <3>3. Cardinality(Starting(phase')) >= Len(rest)
                  <4>1. got >= wanted /\ Len(rest) \in Int
                        BY <1>3, <1>6, <1>7, <1>10, <1>12, <2>5
                  <4> QED BY <1>9, <1>12, <2>5, <3>1, <3>2, <4>1
            <3> QED BY <1>1, <2>2, <3>3 DEF Reason
      <2> QED BY <1>10, <2>1, <2>3, <2>4, <2>5
<1> QED BY <1>17, <1>18, <1>19

(* Between two pumps.                                                      *)
LEMMA NoPump ==
    ASSUME Reasons, UNCHANGED <<size, started, queue, alone, limit, calls>>,
           \A w \in Workers : phase'[w] \in {"idle", "off"} \/ phase[w] \in {"idle", "off"} => phase'[w] = phase[w],
           \A w \in Workers : phase[w] \in {"starting", "handing", "readying"} =>
                                phase'[w] \in {"starting", "handing", "readying"}
    PROVE  Reasons'
<1>1. Idle(phase') = Idle(phase) /\ Busy(phase') = Busy(phase)
      BY DEF Idle, Busy
<1>2. Cardinality(Starting(phase')) >= Cardinality(Starting(phase))
      <2>1. Starting(phase) \in SUBSET Starting(phase')
            BY DEF Starting
      <2>2. IsFiniteSet(Starting(phase')) /\ IsFiniteSet(Starting(phase))
            BY IdleFinite
      <2> QED BY <2>1, <2>2, FS_Subset
<1>3. /\ Cardinality(Starting(phase')) \in Nat /\ Cardinality(Starting(phase)) \in Nat
      BY IdleFinite, FS_CardinalityType
<1>4. ASSUME Len(queue) \in Nat, Reason(queue, calls, phase, started, size)
      PROVE  Reason(queue, calls, phase', started, size)
      BY <1>1, <1>2, <1>3, <1>4 DEF Reason
<1> QED BY <1>4 DEF Reasons

LEMMA UseReasons ==
    ASSUME Inv, Reasons, Use
    PROVE  Reasons'
<1>1. /\ Shapes /\ phase \in [Workers -> Phases] /\ alone \in BOOLEAN
      /\ \A w \in Workers : w > started => phase[w] = "off"
      BY DEF Inv, Shapes, Placed
<1>2. ASSUME NEW q, Waits(q, calls'), Pump(q, calls', phase, current, alone), limit' = limit PROVE Reasons'
      <2> DEFINE calling == calls'
      <2>1. Waits(q, calling) /\ Pump(q, calling, phase, current, alone) /\ calls' = calling
            BY <1>2
      <2> HIDE DEF calling
      <2> QED BY <1>1, <1>2, <2>1, PumpingReasons DEF Reasons
<1>3. ASSUME NEW kind \in {"plain", "alone"}, Job(kind) PROVE Reasons'
      <2>1. limit' = limit
            BY <1>3 DEF Job
      <2> QED BY <1>2, <1>3, <2>1, JobInv
<1>4. ASSUME NEW total \in RunCounts, Stream(total) PROVE Reasons'
      <2>1. limit' = limit
            BY <1>4 DEF Stream
      <2> QED BY <1>2, <1>4, <2>1, StreamInv
<1>5. ASSUME NEW id \in DOMAIN calls, Cancel(id) PROVE Reasons'
      BY <1>5, NoPump DEF Cancel, CancelPosts, sideVars, callVars
<1> QED BY <1>3, <1>4, <1>5 DEF Use

LEMMA MicrotaskReasons ==
    ASSUME Inv, Reasons, NEW w \in Workers, Microtask(w)
    PROVE  Reasons'
<1>1. /\ Shapes /\ phase \in [Workers -> Phases] /\ current \in [Workers -> Nat] /\ alone \in BOOLEAN
      /\ Waits(queue, calls) /\ started <= size /\ limit <= MaxWorkers
      BY DEF Inv, Shapes, Reasons
<1>2. ASSUME phase[w] \in {"readying", "freeing"}, NEW cur, NEW flag \in BOOLEAN,
             Pump(queue, calls, [phase EXCEPT ![w] = "idle"], cur, flag), UNCHANGED <<calls, limit>>
      PROVE  Reasons'
      <2> DEFINE ph == [phase EXCEPT ![w] = "idle"]
      <2>1. ph \in [Workers -> Phases]
            BY <1>1 DEF Phases
      <2>2. \A v \in Workers : v > started => ph[v] = "off"
            BY <1>1, <1>2 DEF Inv, Placed
      <2>3. Pump(queue, calls, ph, cur, flag)
            BY <1>2
      <2> HIDE DEF ph
      <2> QED BY <1>1, <1>2, <2>1, <2>2, <2>3, PumpingReasons
<1>3. CASE HandModule(w)
      <2>1. UNCHANGED <<size, started, queue, alone, limit, calls>>
            BY <1>3 DEF HandModule, poolVars, callVars
      <2>2. \A v \in Workers : \/ phase'[v] = phase[v]
                               \/ phase[v] = "starting" /\ phase'[v] \in {"handing", "readying"}
            BY <1>1, <1>3 DEF HandModule
      <2> QED BY <2>1, <2>2, NoPump
<1>4. CASE MadeReady(w)
      BY <1>1, <1>2, <1>4 DEF MadeReady, callVars
<1>5. CASE Settle(w)
      <2>1. UNCHANGED <<size, started, queue, alone, limit, calls>>
            BY <1>5 DEF Settle, poolVars
      <2>2. \A v \in Workers : \/ phase'[v] = phase[v]
                               \/ phase[v] = "settled" /\ phase'[v] = "freeing"
            BY <1>1, <1>5 DEF Settle
      <2> QED BY <2>1, <2>2, NoPump
<1>6. CASE Free(w)
      <2>1. (alone /\ ~Alone(current[w])) \in BOOLEAN
            BY <1>1
      <2> QED BY <1>2, <1>6, <2>1 DEF Free, callVars
<1> QED BY <1>3, <1>4, <1>5, <1>6 DEF Microtask

LEMMA NextReasons ==
    ASSUME Inv, Reasons, [Next]_vars
    PROVE  Reasons'
<1>1. CASE Use
      BY <1>1, UseReasons
<1>2. ASSUME NEW w \in Workers, Microtask(w) PROVE Reasons'
      BY <1>2, MicrotaskReasons
<1>3. ASSUME NEW w \in Workers, Receive(w) PROVE Reasons'
      <2>1. UNCHANGED <<size, started, queue, alone, limit, calls>>
            BY <1>3 DEF Receive, poolVars
      <2>2. \A v \in Workers : \/ phase'[v] = phase[v]
                               \/ phase[v] = "running" /\ phase'[v] = "settled"
                               \/ phase[v] = "handing" /\ phase'[v] = "readying"
            BY <1>3 DEF Inv, Shapes, Receive, FailAll, SettleInner
      <2> QED BY <2>1, <2>2, NoPump
<1>4. ASSUME NEW w \in Workers, TakeMessage(w) \/ Run(w) \/ Crash(w) PROVE Reasons'
      <2>1. UNCHANGED <<size, started, queue, alone, limit, calls, phase>>
            BY <1>4 DEF TakeMessage, Run, RunChunk, Return, Raise, Ends, Crash, poolVars, sideVars, callVars
      <2> QED BY <2>1, NoPump
<1>5. ASSUME NEW g \in Ids, StreamEnds(g) PROVE Reasons'
      BY <1>5, NoPump DEF StreamEnds, poolVars, sideVars
<1>6. CASE ModuleSettles
      BY <1>6, NoPump DEF ModuleSettles, poolVars, sideVars, callVars
<1>7. CASE Rest \/ UNCHANGED vars
      BY <1>7, NoPump DEF Rest, vars, poolVars, sideVars, callVars
<1> QED BY <1>1, <1>2, <1>3, <1>4, <1>5, <1>6, <1>7 DEF Next

(* A job waits only while every worker has work or a job that wants the    *)
(* machine has it or is next; and while jobs wait for busy workers, as     *)
(* many are started as may be.                                             *)
THEOREM WaitingHasAReason == Spec => []WaitsForReason
<1>1. Init => Inv /\ Reasons
      <2>1. ASSUME Init PROVE Reasons
            BY <2>1, PoolAssumption DEF Init, Reasons, Workers
      <2> QED BY <2>1, InitInv
<1>2. Inv /\ Reasons /\ [Next]_vars => (Inv /\ Reasons)'
      BY NextInv, NextReasons
<1>3. Inv /\ Reasons => WaitsForReason
      <2>1. ASSUME Inv, Reasons, queue # <<>>, ~alone PROVE Reason(queue, calls, phase, started, size)
            BY <2>1 DEF Reasons
      <2> QED BY <2>1 DEF WaitsForReason, Reason, Alone
<1> QED BY <1>1, <1>2, <1>3, PTL DEF Spec

-----------------------------------------------------------------------------
(***************************************************************************)
(* The shots of a stream add up.  What a part reports goes up to what it   *)
(* answers with, in the order in which the worker posts it; a number is    *)
(* given out once; and the parts' shots are the stream's.                  *)
(***************************************************************************)
(***************************************************************************)
(* Sums over finite sets, by induction over subsets.                       *)
(***************************************************************************)
First(s) == CHOOSE x \in s : TRUE
Adds(h, f, S) == h = [s \in SUBSET S |-> IF s = {} THEN 0 ELSE f[First(s)] + h[s \ {First(s)}]]
Total(f, S) == (CHOOSE h : Adds(h, f, S))[S]

(* What holds of a set if it holds of all its proper subsets holds of all. *)
LEMMA EverySubset ==
    ASSUME NEW S, IsFiniteSet(S), NEW good,
           \A T \in SUBSET S : (\A U \in SUBSET T : U # T => U \in good) => T \in good
    PROVE  \A T \in SUBSET S : T \in good
<1> DEFINE bad == {T \in SUBSET S : T \notin good}
<1>1. IsWellFoundedOn(StrictSubsetOrdering(S), SUBSET S)
      BY FS_StrictSubsetOrderingWellFounded, FS_FiniteSubsetsOfFinite
<1> SUFFICES ASSUME bad # {} PROVE FALSE
      OBVIOUS
<1>2. PICK T \in bad : \A U \in bad : <<U, T>> \notin StrictSubsetOrdering(S)
      <2>1. bad \subseteq SUBSET S
            OBVIOUS
      <2> HIDE DEF bad
      <2> QED BY <1>1, <2>1, WFMin
<1>3. ASSUME NEW U \in SUBSET T, U # T PROVE U \in good
      <2>1. <<U, T>> \in StrictSubsetOrdering(S)
            BY <1>3 DEF StrictSubsetOrdering
      <2> QED BY <1>2, <2>1
<1> QED BY <1>3

LEMMA FirstOf ==
    ASSUME NEW s, s # {}
    PROVE  First(s) \in s /\ s \ {First(s)} \in SUBSET s /\ s \ {First(s)} # s
BY DEF First

LEMMA AddsAgree ==
    ASSUME NEW f, NEW T, IsFiniteSet(T), NEW U \in SUBSET T, NEW g, Adds(g, f, U), NEW h, Adds(h, f, T)
    PROVE  \A V \in SUBSET U : g[V] = h[V]
<1> DEFINE good == {V \in SUBSET U : g[V] = h[V]}
<1>1. ASSUME NEW V \in SUBSET U, \A W \in SUBSET V : W # V => W \in good PROVE V \in good
      <2>1. CASE V = {}
            <3>1. g[V] = 0 /\ h[V] = 0
                  BY <2>1 DEF Adds
            <3> QED BY <3>1
      <2>2. CASE V # {}
            <3>1. V \ {First(V)} \in good
                  BY <1>1, <2>2, FirstOf
            <3>2. /\ g[V] = f[First(V)] + g[V \ {First(V)}]
                  /\ h[V] = f[First(V)] + h[V \ {First(V)}]
                  BY <2>2 DEF Adds
            <3> QED BY <3>1, <3>2
      <2> QED BY <2>1, <2>2
<1>2. IsFiniteSet(U)
      BY FS_Subset
<1> HIDE DEF good
<1>3. \A V \in SUBSET U : V \in good
      BY <1>1, <1>2, EverySubset
<1> QED BY <1>3 DEF good

LEMMA SomeAdds ==
    ASSUME NEW f, NEW S, IsFiniteSet(S)
    PROVE  \E h : Adds(h, f, S)
<1> DEFINE good == {T \in SUBSET S : \E h : Adds(h, f, T)}
<1>1. ASSUME NEW T \in SUBSET S, \A U \in SUBSET T : U # T => U \in good PROVE T \in good
      <2> DEFINE h == [s \in SUBSET T |-> IF s = {} THEN 0 ELSE f[First(s)] + Total(f, s \ {First(s)})]
                 of(U) == CHOOSE g : Adds(g, f, U)
      <2>1. ASSUME NEW U \in SUBSET T, U # T PROVE Adds(of(U), f, U) /\ Total(f, U) = of(U)[U]
            <3>1. U \in good
                  BY <1>1, <2>1
            <3>2. PICK g : Adds(g, f, U)
                  BY <3>1
            <3> HIDE DEF good
            <3> QED BY <3>2 DEF Total
      <2>2. ASSUME NEW U \in SUBSET T, U # T PROVE Total(f, U) = h[U]
            <3>1. Adds(of(U), f, U) /\ Total(f, U) = of(U)[U]
                  BY <2>1, <2>2
            <3> HIDE DEF of
            <3>2. CASE U = {}
                  <4>1. of(U)[U] = 0
                        BY <3>1, <3>2 DEF Adds
                  <4> QED BY <3>1, <3>2, <4>1
            <3>3. CASE U # {}
                  <4> DEFINE V == U \ {First(U)}
                  <4>1. V \in SUBSET U /\ V \in SUBSET T /\ V # T
                        BY <2>2, <3>3, FirstOf
                  <4>2. of(U)[U] = f[First(U)] + of(U)[V]
                        BY <3>1, <3>3 DEF Adds
                  <4>3. Adds(of(V), f, V) /\ Total(f, V) = of(V)[V]
                        BY <4>1, <2>1 DEF of
                  <4>4. IsFiniteSet(U)
                        BY FS_Subset
                  <4> HIDE DEF V
                  <4>5. of(V)[V] = of(U)[V]
                        BY <3>1, <4>1, <4>3, <4>4, AddsAgree
                  <4>6. h[U] = f[First(U)] + Total(f, V)
                        BY <3>3 DEF V
                  <4> QED BY <3>1, <4>2, <4>3, <4>5, <4>6
            <3> QED BY <3>2, <3>3
      <2>3. ASSUME NEW s \in SUBSET T, s # {} PROVE Total(f, s \ {First(s)}) = h[s \ {First(s)}]
            <3>1. s \ {First(s)} \in SUBSET T /\ s \ {First(s)} # T
                  BY <2>3, FirstOf
            <3> HIDE DEF h
            <3> QED BY <2>2, <3>1
      <2>4. h = [s \in SUBSET T |-> IF s = {} THEN 0 ELSE f[First(s)] + h[s \ {First(s)}]]
            <3> DEFINE k == [s \in SUBSET T |-> IF s = {} THEN 0 ELSE f[First(s)] + h[s \ {First(s)}]]
            <3>1. \A s \in SUBSET T : h[s] = k[s]
                  <4>1. ASSUME NEW s \in SUBSET T, s = {} PROVE h[s] = k[s]
                        BY <4>1
                  <4>2. ASSUME NEW s \in SUBSET T, s # {} PROVE h[s] = k[s]
                        <5>1. h[s] = f[First(s)] + Total(f, s \ {First(s)})
                              BY <4>2
                        <5>2. k[s] = f[First(s)] + h[s \ {First(s)}]
                              <6> HIDE DEF h
                              <6> QED BY <4>2
                        <5> HIDE DEF h, k
                        <5> QED BY <5>1, <5>2, <2>3, <4>2
                  <4> HIDE DEF h, k
                  <4> QED BY <4>1, <4>2
            <3> QED BY <3>1
      <2> HIDE DEF h
      <2>5. Adds(h, f, T)
            BY <2>4 DEF Adds
      <2> QED BY <2>5
<1>2. \A T \in SUBSET S : T \in good
      <2> HIDE DEF good
      <2> QED BY <1>1, EverySubset
<1> QED BY <1>2

LEMMA TotalFirst ==
    ASSUME NEW f, NEW S, IsFiniteSet(S)
    PROVE  Total(f, S) = IF S = {} THEN 0 ELSE f[First(S)] + Total(f, S \ {First(S)})
<1> DEFINE h == CHOOSE g : Adds(g, f, S)
           V == S \ {First(S)}
           k == CHOOSE g : Adds(g, f, V)
<1>1. Adds(h, f, S)
      BY SomeAdds
<1>2. IsFiniteSet(V)
      BY FS_Subset
<1>3. Adds(k, f, V)
      BY <1>2, SomeAdds
<1>4. Total(f, S) = h[S] /\ Total(f, V) = k[V]
      BY DEF Total
<1> HIDE DEF h, k
<1>5. k[V] = h[V]
      BY <1>1, <1>2, <1>3, AddsAgree
<1>6. h[S] = IF S = {} THEN 0 ELSE f[First(S)] + h[V]
      BY <1>1 DEF Adds
<1> QED BY <1>4, <1>5, <1>6

LEMMA TotalIsNat ==
    ASSUME NEW S, IsFiniteSet(S), NEW f, \A x \in S : f[x] \in Nat
    PROVE  \A T \in SUBSET S : Total(f, T) \in Nat
<1> DEFINE good == {T \in SUBSET S : Total(f, T) \in Nat}
<1>1. ASSUME NEW T \in SUBSET S, \A U \in SUBSET T : U # T => U \in good PROVE T \in good
      <2>1. IsFiniteSet(T)
            BY FS_Subset
      <2>2. ASSUME T # {} PROVE f[First(T)] \in Nat /\ Total(f, T \ {First(T)}) \in Nat
            BY <1>1, <2>2, FirstOf
      <2>3. Total(f, T) \in Nat
            <3>1. CASE T = {}
                  <4>1. Total(f, {}) = 0
                        BY FS_EmptySet, TotalFirst
                  <4> QED BY <3>1, <4>1
            <3>2. CASE T # {}
                  <4>1. Total(f, T) = f[First(T)] + Total(f, T \ {First(T)})
                        BY <2>1, <3>2, TotalFirst
                  <4> QED BY <2>2, <3>2, <4>1
            <3> QED BY <3>1, <3>2
      <2> QED BY <2>3
<1> HIDE DEF good
<1>2. \A T \in SUBSET S : T \in good
      BY <1>1, EverySubset
<1> QED BY <1>2 DEF good

(* Any element may be added last.                                          *)
LEMMA TotalWith ==
    ASSUME NEW S, IsFiniteSet(S), NEW f, \A x \in S : f[x] \in Nat
    PROVE  \A T \in SUBSET S : \A x \in T : Total(f, T) = f[x] + Total(f, T \ {x})
<1> DEFINE good == {T \in SUBSET S : \A x \in T : Total(f, T) = f[x] + Total(f, T \ {x})}
<1>1. ASSUME NEW T \in SUBSET S, \A U \in SUBSET T : U # T => U \in good PROVE T \in good
      <2> SUFFICES ASSUME NEW x \in T PROVE Total(f, T) = f[x] + Total(f, T \ {x})
          OBVIOUS
      <2> DEFINE c == First(T)
      <2>1. IsFiniteSet(T) /\ T # {} /\ c \in T
            BY FS_Subset, FirstOf
      <2>2. Total(f, T) = f[c] + Total(f, T \ {c})
            BY <2>1, TotalFirst
      <2> HIDE DEF c
      <2>3. CASE x = c
            BY <2>2, <2>3
      <2>4. CASE x # c
            <3>1. T \ {c} \in good /\ x \in T \ {c} /\ T \ {x} \in good /\ c \in T \ {x}
                  BY <1>1, <2>1, <2>4
            <3>2. Total(f, T \ {c}) = f[x] + Total(f, (T \ {c}) \ {x})
                  BY <3>1
            <3>3. Total(f, T \ {x}) = f[c] + Total(f, (T \ {x}) \ {c})
                  BY <3>1
            <3>4. (T \ {c}) \ {x} = (T \ {x}) \ {c} /\ (T \ {c}) \ {x} \in SUBSET S
                  OBVIOUS
            <3>5. f[x] \in Nat /\ f[c] \in Nat /\ Total(f, (T \ {c}) \ {x}) \in Nat
                  BY <2>1, <3>4, TotalIsNat
            <3> QED BY <2>2, <3>2, <3>3, <3>4, <3>5
      <2> QED BY <2>3, <2>4
<1> HIDE DEF good
<1>2. \A T \in SUBSET S : T \in good
      BY <1>1, EverySubset
<1> QED BY <1>2 DEF good

LEMMA TotalSame ==
    ASSUME NEW S, IsFiniteSet(S), NEW f, NEW g, \A x \in S : f[x] = g[x]
    PROVE  Total(f, S) = Total(g, S)
<1> DEFINE good == {T \in SUBSET S : Total(f, T) = Total(g, T)}
<1>1. ASSUME NEW T \in SUBSET S, \A U \in SUBSET T : U # T => U \in good PROVE T \in good
      <2>1. IsFiniteSet(T)
            BY FS_Subset
      <2>2. T # {} => First(T) \in S /\ T \ {First(T)} \in good
            BY <1>1, FirstOf
      <2>3. T # {} => f[First(T)] = g[First(T)]
            BY <2>2
      <2> QED BY <2>1, <2>2, <2>3, TotalFirst
<1> HIDE DEF good
<1>2. \A T \in SUBSET S : T \in good
      BY <1>1, EverySubset
<1> QED BY <1>2 DEF good

LEMMA UpTo ==
    ASSUME NEW m \in Nat, NEW good, 0 \in good, \A k \in 0..(m - 1) : k \in good => k + 1 \in good
    PROVE  \A k \in 0..m : k \in good
<1> DEFINE bad == {k \in 0..m : k \notin good}
<1> SUFFICES ASSUME bad # {} PROVE FALSE
      OBVIOUS
<1>1. PICK k \in bad : \A j \in bad : k <= j
      <2>1. bad \in SUBSET Nat
            OBVIOUS
      <2> HIDE DEF bad
      <2> QED BY <2>1, LeastNatural
<1>2. k \in 0..m /\ k # 0 /\ k \notin good
      OBVIOUS
<1>3. k - 1 \in 0..(m - 1)
      BY <1>2
<1>4. k - 1 \in good
      BY <1>1, <1>3
<1>5. (k - 1) + 1 \in good
      BY <1>3, <1>4
<1> QED BY <1>2, <1>5

(* The sum of near-equal parts.                                            *)
Near(f, a, m, q, r) == \A i \in 1..m : f[a + i] = q + IF i <= r THEN 1 ELSE 0

LEMMA TotalOfParts ==
    ASSUME NEW a \in Nat, NEW m \in Nat, NEW q \in Nat, NEW r \in Nat, r < m, NEW f, Near(f, a, m, q, r)
    PROVE  Total(f, (a + 1)..(a + m)) = m * q + r
<1> DEFINE ids(k) == (a + 1)..(a + k)
           value(k) == k * q + IF k <= r THEN k ELSE r
           good == {k \in 0..m : Total(f, ids(k)) = value(k)}
<1>1. \A k \in 0..m : IsFiniteSet(ids(k))
      BY FS_Interval
<1>2. 0 \in good
      <2>1. ids(0) = {}
            OBVIOUS
      <2>2. value(0) = 0
            OBVIOUS
      <2>3. Total(f, {}) = 0
            BY FS_EmptySet, TotalFirst
      <2> QED BY <2>1, <2>2, <2>3
<1>3. ASSUME NEW k \in 0..(m - 1), k \in good PROVE k + 1 \in good
      <2>1. k + 1 \in 0..m /\ k + 1 \in 1..m /\ k \in Nat
            OBVIOUS
      <2>2. ids(k + 1) = ids(k) \cup {a + (k + 1)} /\ a + (k + 1) \notin ids(k)
            BY <2>1
      <2>3. (a + (k + 1)) \in ids(k + 1) /\ ids(k + 1) \ {a + (k + 1)} = ids(k)
            BY <2>2
      <2>4. \A x \in ids(k + 1) : f[x] \in Nat
            <3> SUFFICES ASSUME NEW x \in ids(k + 1) PROVE f[x] \in Nat
                OBVIOUS
            <3>1. x - a \in 1..m /\ a + (x - a) = x
                  BY <2>1
            <3>2. f[a + (x - a)] = q + IF (x - a) <= r THEN 1 ELSE 0
                  BY <3>1 DEF Near
            <3> QED BY <3>1, <3>2
      <2>5. f[a + (k + 1)] = q + IF k + 1 <= r THEN 1 ELSE 0
            BY <2>1 DEF Near
      <2>6. Total(f, ids(k + 1)) = f[a + (k + 1)] + Total(f, ids(k + 1) \ {a + (k + 1)})
            <3> HIDE DEF ids
            <3> QED BY <1>1, <2>1, <2>3, <2>4, TotalWith
      <2>7. Total(f, ids(k)) = value(k)
            BY <1>3
      <2>8. value(k + 1) = value(k) + (q + IF k + 1 <= r THEN 1 ELSE 0)
            BY <2>1
      <2>9. Total(f, ids(k + 1)) = value(k + 1)
            <3>1. value(k) \in Nat
                  BY <2>1
            <3> HIDE DEF ids, value, good
            <3> QED BY <2>3, <2>5, <2>6, <2>7, <2>8, <3>1
      <2> HIDE DEF ids, value
      <2> QED BY <2>1, <2>9
<1> HIDE DEF ids, value
<1>4. \A k \in 0..m : k \in good
      <2> HIDE DEF good
      <2> QED BY <1>2, <1>3, UpTo
<1>5. Total(f, ids(m)) = value(m)
      BY <1>4
<1>6. value(m) = m * q + r
      BY DEF value
<1> QED BY <1>5, <1>6 DEF ids

LEMMA Quotient ==
    ASSUME NEW t \in Nat, NEW n \in Nat \ {0}
    PROVE  n * (t \div n) + (t % n) = t /\ t % n < n /\ t % n \in Nat /\ t \div n \in Nat
OBVIOUS
-----
Ordered(s) == \A m, n \in DOMAIN s : m < n => s[m].type # "crash" /\ (s[m].type = "progress" \/ s[n].type = "crash")
Said(s, i) == IF s = <<>> THEN latest[i] ELSE s[Len(s)].runs
Whole(i, m) ==
    /\ m.runs = latest[i]
    /\ IF m.stopped THEN i \in asked ELSE m.runs = calls[i].runs
Final(s, n, i) ==
    /\ s[n].runs = IF n = 1 THEN latest[i] ELSE s[n - 1].runs
    /\ IF s[n].stopped THEN i \in asked ELSE s[n].runs = calls[i].runs
Says(w) ==
    \A n \in DOMAIN toPage[w] :
       /\ toPage[w][n].type = "progress" => phase[w] = "running" /\ toPage[w][n].of = current[w]
       /\ toPage[w][n].type = "done" =>
             phase[w] = "handing" \/ (phase[w] = "running" /\ Final(toPage[w], n, current[w]))
UnderWay(w) ==
    /\ phase[w] = "handing" => job[w] = None /\ \A n \in Work(w) : toWorker[w][n].type = "module"
    /\ phase[w] = "running" /\ Work(w) # {} => toPage[w] = <<>> /\ latest[current[w]] = 0
    /\ phase[w] = "running" /\ job[w] # None => done[w] = Said(toPage[w], current[w])
Told(w) ==
    /\ Ordered(toPage[w])
    /\ Says(w)
    /\ alive[w] => UnderWay(w)
    /\ phase[w] = "settled" /\ settled[w].type = "done" => Whole(current[w], settled[w])
Bidden(w) ==
    /\ stops[w] \subseteq asked
    /\ \A n \in DOMAIN toWorker[w] : toWorker[w][n].type = "cancel" => toWorker[w][n].of \in asked
Fresh(i) == outcome[i].type = "pending" /\ latest[i] = 0
Once(q, ph, cur, calling) ==
    /\ \A n \in DOMAIN q : Fresh(q[n])
    /\ \A i \in Ids \ DOMAIN calling : Fresh(i)
    /\ \A w \in Workers : ph[w] \in Held =>
         /\ \A n \in DOMAIN q : q[n] # cur[w]
         /\ \A v \in Workers \ {w} : ph[v] \in Held => cur[v] # cur[w]
         /\ ph[w] # "freeing" => outcome[cur[w]].type = "pending"
Results ==
    \A i \in DOMAIN calls : calls[i].kind # "stream" /\ outcome[i].type = "done" => Whole(i, outcome[i])
Runs(f) == [i \in DOMAIN f |-> f[i].runs]
Grouped(calling) ==
    \A g \in DOMAIN calling : calling[g].kind = "stream" =>
        /\ IsFiniteSet(calling[g].parts) /\ calling[g].parts \subseteq DOMAIN calling
        /\ \A p \in calling[g].parts : calling[p].kind = "part"
        /\ Total(Runs(calling), calling[g].parts) = calling[g].runs
Merged ==
    \A g \in DOMAIN calls : calls[g].kind = "stream" /\ outcome[g].type = "done" =>
        /\ \A p \in Parts(g) : outcome[p].type = "done"
        /\ outcome[g].runs = Total(latest, Parts(g))
        /\ ~outcome[g].stopped => outcome[g].runs = calls[g].runs
        /\ outcome[g].stopped => Parts(g) \cap asked # {}
Tally ==
    /\ DOMAIN latest = Ids
    /\ Once(queue, phase, current, calls)
    /\ Results
    /\ Grouped(calls) /\ Merged
    /\ flagged \subseteq asked
    /\ \A w \in Workers : Told(w) /\ Bidden(w)

-----------------------------------------------------------------------------
(* What is left as it was.                                                 *)
LEMMA InIds ==
    ASSUME Inv, Links
    PROVE  DOMAIN calls \subseteq Ids
<1>1. Len(calls) <= MaxCalls /\ calls \in Seq(Called)
      BY DEF Links, Numbers, Inv, Shapes
<1> QED BY <1>1, PoolAssumption DEF Ids

LEMMA StillTold ==
    ASSUME NEW w \in Workers, Told(w), asked \subseteq asked',
           \/ phase'[w] = phase[w]
           \/ phase[w] \notin Asking /\ phase'[w] \notin Asking \cup {"settled"},
           phase'[w] \in {"running", "settled"} =>
              /\ current'[w] = current[w] /\ latest'[current[w]] = latest[current[w]]
              /\ calls'[current[w]].runs = calls[current[w]].runs,
           toPage'[w] = toPage[w], job'[w] = job[w], done'[w] = done[w], alive'[w] = alive[w], settled'[w] = settled[w],
           Work(w)' = Work(w), \A n \in Work(w) : toWorker'[w][n] = toWorker[w][n]
    PROVE  Told(w)'
<1>1. Ordered(toPage[w])'
      BY DEF Told, Ordered
<1>2. Says(w)'
      BY DEF Told, Says, Final, Asking
<1>3. ASSUME alive'[w] PROVE UnderWay(w)'
      <2>1. UnderWay(w)
            BY <1>3 DEF Told
      <2>2. phase'[w] = "handing" => job'[w] = None /\ \A n \in Work(w)' : toWorker'[w][n].type = "module"
            BY <2>1 DEF UnderWay, Asking
      <2>3. ASSUME phase'[w] = "running"
            PROVE  /\ Work(w)' # {} => toPage'[w] = <<>> /\ latest'[current'[w]] = 0
                   /\ job'[w] # None => done'[w] = Said(toPage[w], current[w])'
            <3>1. phase[w] = "running" /\ current'[w] = current[w] /\ latest'[current[w]] = latest[current[w]]
                  BY <2>3 DEF Asking
            <3>2. Said(toPage[w], current[w])' = Said(toPage[w], current[w])
                  BY <3>1 DEF Said
            <3> QED BY <2>1, <3>1, <3>2 DEF UnderWay
      <2> QED BY <2>2, <2>3 DEF UnderWay
<1>4. phase'[w] = "settled" /\ settled'[w].type = "done" => Whole(current[w], settled[w])'
      BY DEF Told, Whole
<1> QED BY <1>1, <1>2, <1>3, <1>4 DEF Told

LEMMA NoneSent ==
    ASSUME NEW s \in Seq(Messages), DOMAIN s = {}
    PROVE  s = <<>>
<1>1. Len(s) \in Nat /\ DOMAIN s = 1..Len(s)
      BY LenProperties
<1>2. Len(s) = 0
      BY <1>1
<1> QED BY <1>2, EmptySeq

(* What a job's post adds to a worker's messages.                          *)
LEMMA PostedBidden ==
    ASSUME Shapes, NEW w \in Workers, NEW i \in Nat, Bidden(w), flagged \subseteq asked
    PROVE  \A n \in DOMAIN PostJob(w, i) : PostJob(w, i)[n].type = "cancel" => PostJob(w, i)[n].of \in asked
<1> DEFINE s == toWorker[w]
           j == Message("job", i, 0, FALSE)
           t == Append(s, j)
           c == Message("cancel", i, 0, FALSE)
           u == Append(t, c)
<1>1. s \in Seq(Messages) /\ j \in Messages /\ c \in Messages /\ j.type = "job" /\ c.of = i
      BY DEF Shapes, Messages, Message
<1>2. i \in flagged => PostJob(w, i) = t \o <<c>>
      BY DEF PostJob
<1>3. i \notin flagged => PostJob(w, i) = t \o <<>>
      BY DEF PostJob
<1>4. \A n \in DOMAIN s : s[n].type = "cancel" => s[n].of \in asked
      BY DEF Bidden
<1> HIDE DEF s, j, c
<1>5. /\ t \in Seq(Messages) /\ Len(t) = Len(s) + 1 /\ t[Len(s) + 1] = j /\ Len(s) \in Nat
      /\ \A x \in 1..Len(s) : t[x] = s[x]
      BY <1>1, AppendProperties
<1> HIDE DEF t
<1>6. \A n \in DOMAIN t : t[n].type = "cancel" => t[n].of \in asked
      <2> SUFFICES ASSUME NEW n \in DOMAIN t, t[n].type = "cancel" PROVE t[n].of \in asked
          OBVIOUS
      <2>1. n \in 1..Len(s) \/ n = Len(s) + 1
            BY <1>5
      <2>2. n # Len(s) + 1
            BY <1>1, <1>5
      <2> QED BY <1>1, <1>4, <1>5, <2>1, <2>2
<1>7. CASE i \notin flagged
      BY <1>3, <1>5, <1>6, <1>7, ConcatEmptySeq
<1>8. CASE i \in flagged
      <2>1. PostJob(w, i) = u
            BY <1>1, <1>2, <1>5, <1>8, AppendIsConcat
      <2>2. /\ u \in Seq(Messages) /\ Len(u) = Len(t) + 1 /\ u[Len(t) + 1] = c
            /\ \A x \in 1..Len(t) : u[x] = t[x]
            BY <1>1, <1>5, AppendProperties
      <2> HIDE DEF u
      <2> SUFFICES ASSUME NEW n \in DOMAIN u, u[n].type = "cancel" PROVE u[n].of \in asked
          BY <2>1
      <2>3. CASE n = Len(t) + 1
            BY <1>1, <1>8, <2>2, <2>3
      <2>4. CASE n # Len(t) + 1
            <3>1. n \in 1..Len(t)
                  BY <1>5, <2>2, <2>4
            <3> QED BY <1>5, <1>6, <2>2, <3>1
      <2> QED BY <2>3, <2>4
<1> QED BY <1>7, <1>8

(* #pump: what is given out was never begun.                               *)
LEMMA PumpingTally ==
    ASSUME Inv, Links, Tally, NEW q, NEW calling \in Seq(Called), Waits(q, calling),
           NEW ph \in [Workers -> Phases], NEW cur \in [Workers -> Nat],
           NEW exclusive \in BOOLEAN, Pump(q, calling, ph, cur, exclusive), Channels(ph),
           \A w \in Workers : ph[w] = phase[w] \/ (ph[w] = "idle" /\ phase[w] \notin Asking),
           \A w \in Workers : ph[w] # "idle" => cur[w] = current[w],
           Distinct(q), Once(q, ph, cur, calling), Grouped(calling),
           Len(calls) <= Len(calling), \A i \in 1..Len(calls) : calling[i] = calls[i], Len(calling) <= MaxCalls,
           calls' = calling, UNCHANGED <<dead, toPage, alive, job, done, stops, outcome, latest, asked>>
    PROVE  Tally'
<1>1. Shapes /\ calls \in Seq(Called) /\ toPage \in [Workers -> Seq(Messages)]
      BY DEF Inv, Shapes
<1>2. PICK taking \in SUBSET Idle(ph), got \in Nat :
          GivesOut(taking, got, calling, ph, cur, exclusive) /\ FromQueue(taking, q)
      BY <1>1, PumpGivesOut
<1>3. /\ phase' = [w \in Workers |->
                     IF w \in taking THEN IF dead[w] THEN "settled" ELSE "running"
                     ELSE IF w > started /\ w <= started + got THEN "starting" ELSE ph[w]]
      /\ current' \in [Workers -> Nat]
      /\ \A w \in Workers : IF w \in taking THEN current'[w] \in DOMAIN calling ELSE current'[w] = cur[w]
      /\ toWorker' = [w \in Workers |-> IF w \in taking /\ ~dead[w] THEN PostJob(w, current'[w]) ELSE toWorker[w]]
      BY <1>2 DEF GivesOut
<1>4. /\ settled' = [w \in Workers |-> IF w \in taking /\ dead[w] THEN Failure(current'[w]) ELSE settled[w]]
      /\ flagged' \subseteq flagged
      /\ \A w, v \in taking : current'[w] = current'[v] => w = v
      BY <1>2 DEF FromQueue
<1>5. /\ \A x \in DOMAIN queue' : /\ \E y \in DOMAIN q : queue'[x] = q[y]
                                  /\ queue'[x] \notin {current'[w] : w \in taking}
      /\ \A w \in taking : \E y \in DOMAIN q : current'[w] = q[y]
      BY <1>2, LeftOver DEF Waits
<1>6. \A w \in taking : w \in Workers /\ ph[w] = "idle"
      BY <1>2 DEF Idle
<1>7. /\ DOMAIN calls \subseteq DOMAIN calling /\ \A i \in DOMAIN calls : calling[i] = calls[i]
      /\ DOMAIN calling \subseteq Ids
      <2>1. DOMAIN calls = 1..Len(calls) /\ DOMAIN calling = 1..Len(calling) /\ Len(calls) \in Nat /\ Len(calling) \in Nat
            BY <1>1
      <2> QED BY <2>1, PoolAssumption DEF Ids
<1>8. \A w \in Workers : phase'[w] \in Held /\ w \notin taking => phase'[w] = ph[w] /\ ph[w] = phase[w] /\ current'[w] = cur[w]
      BY <1>3 DEF Held
<1>9. Once(queue, phase, current, calls)'
      <2>1. \A n \in DOMAIN queue' : Fresh(queue'[n])
            BY <1>5 DEF Once
      <2>2. ASSUME NEW w \in Workers, phase'[w] \in Held
            PROVE  /\ \A n \in DOMAIN queue' : queue'[n] # current'[w]
                   /\ \A v \in Workers \ {w} : phase'[v] \in Held => current'[v] # current'[w]
                   /\ phase'[w] # "freeing" => outcome[current'[w]].type = "pending"
            <3>1. CASE w \in taking
                  <4>1. PICK y \in DOMAIN q : current'[w] = q[y]
                        BY <1>5, <3>1
                  <4>2. ASSUME NEW v \in Workers \ {w}, phase'[v] \in Held PROVE current'[v] # current'[w]
                        <5>1. CASE v \in taking
                              BY <1>4, <3>1, <5>1
                        <5>2. CASE v \notin taking
                              <6>1. ph[v] \in Held /\ current'[v] = cur[v]
                                    BY <1>8, <4>2, <5>2
                              <6> QED BY <4>1, <6>1 DEF Once
                        <5> QED BY <5>1, <5>2
                  <4>3. outcome[current'[w]].type = "pending"
                        BY <4>1 DEF Once, Fresh
                  <4> QED BY <1>5, <3>1, <4>2, <4>3
            <3>2. CASE w \notin taking
                  <4>1. ph[w] \in Held /\ current'[w] = cur[w] /\ phase'[w] = ph[w]
                        BY <1>8, <2>2, <3>2
                  <4>2. ASSUME NEW v \in Workers \ {w}, phase'[v] \in Held PROVE current'[v] # current'[w]
                        <5>1. CASE v \in taking
                              <6>1. PICK y \in DOMAIN q : current'[v] = q[y]
                                    BY <1>5, <5>1
                              <6> QED BY <4>1, <6>1 DEF Once
                        <5>2. CASE v \notin taking
                              <6>1. ph[v] \in Held /\ current'[v] = cur[v]
                                    BY <1>8, <4>2, <5>2
                              <6> QED BY <4>1, <6>1 DEF Once
                        <5> QED BY <5>1, <5>2
                  <4>3. \A n \in DOMAIN queue' : queue'[n] # current'[w]
                        <5> SUFFICES ASSUME NEW n \in DOMAIN queue' PROVE queue'[n] # current'[w]
                            OBVIOUS
                        <5>1. PICK y \in DOMAIN q : queue'[n] = q[y]
                              BY <1>5
                        <5> QED BY <4>1, <5>1 DEF Once
                  <4> QED BY <4>1, <4>2, <4>3 DEF Once
            <3> QED BY <3>1, <3>2
      <2>3. \A i \in Ids \ DOMAIN calling : Fresh(i)
            BY DEF Once
      <2>4. \A i : Fresh(i)' = Fresh(i)
            BY DEF Fresh
      <2> QED BY <2>1, <2>2, <2>3, <2>4 DEF Once
<1>10. \A i \in DOMAIN calling : outcome[i].type = "done" => i \in DOMAIN calls
      <2>1. Once(queue, phase, current, calls)
            BY DEF Tally
      <2> QED BY <1>7, <2>1 DEF Once, Fresh
<1>11. Results'
      BY <1>7, <1>10 DEF Tally, Results, Whole
<1>12. Merged'
      BY <1>7, <1>10 DEF Tally, Merged, Parts
<1>13. ASSUME NEW w \in Workers PROVE Told(w)' /\ Bidden(w)'
      <2>1. Told(w) /\ Bidden(w) /\ flagged \subseteq asked
            BY DEF Tally
      <2>2. CASE w \notin taking
            <3>1. \/ phase'[w] = phase[w]
                  \/ phase[w] \notin Asking /\ phase'[w] \notin Asking \cup {"settled"}
                  <4>1. CASE phase'[w] = ph[w]
                        BY <4>1 DEF Asking
                  <4>2. CASE phase'[w] = "starting" /\ w > started
                        <5>1. phase[w] = "off"
                              BY <4>2 DEF Inv, Placed
                        <5> QED BY <4>2, <5>1 DEF Asking
                  <4> QED BY <1>3, <2>2, <4>1, <4>2
            <3>2. ASSUME phase'[w] \in {"running", "settled"}
                  PROVE  /\ current'[w] = current[w] /\ calls'[current[w]].runs = calls[current[w]].runs
                  <4>1. current'[w] = cur[w] /\ ph[w] # "idle" /\ ph[w] = phase[w] /\ phase[w] \in Held
                        BY <1>3, <2>2, <3>2 DEF Held
                  <4>2. current[w] \in DOMAIN calls
                        BY <4>1 DEF Inv, Placed
                  <4> QED BY <1>7, <4>1, <4>2
            <3>3. toWorker'[w] = toWorker[w] /\ settled'[w] = settled[w]
                  BY <1>3, <1>4, <2>2
            <3>4. Work(w)' = Work(w)
                  BY <3>3 DEF Work
            <3>5. Bidden(w)'
                  BY <2>1, <3>3 DEF Bidden
            <3> QED BY <2>1, <3>1, <3>2, <3>3, <3>4, <3>5, StillTold
      <2>3. ASSUME w \in taking
            PROVE  /\ Ordered(toPage[w])' /\ Says(w)'
                   /\ \A n \in DOMAIN toPage[w] : toPage[w][n].type # "progress"
            <3>1. phase[w] \notin Asking
                  BY <1>6, <2>3 DEF Asking
            <3>2. \A n \in DOMAIN toPage[w] : toPage[w][n].type \notin {"progress", "done"}
                  BY <2>1, <3>1 DEF Told, Says, Asking
            <3> QED BY <2>1, <3>2 DEF Told, Ordered, Says
      <2>4. CASE w \in taking /\ dead[w]
            <3>1. phase'[w] = "settled" /\ settled'[w].type = "error" /\ toWorker'[w] = toWorker[w]
                  BY <1>3, <1>4, <2>4 DEF Failure, Message
            <3>2. Told(w)'
                  BY <2>3, <2>4, <3>1 DEF Told, UnderWay
            <3> QED BY <2>1, <3>1, <3>2 DEF Bidden
      <2>5. CASE w \in taking /\ ~dead[w]
            <3> DEFINE c == current'[w]
            <3>1. phase'[w] = "running" /\ toWorker'[w] = PostJob(w, c) /\ c \in Nat
                  BY <1>3, <2>5
            <3>2. ASSUME alive[w] PROVE UnderWay(w)'
                  <4>1. Nothing(w)
                        BY <1>6, <2>5, <3>2 DEF Channels, Asking
                  <4>2. toPage[w] = <<>>
                        <5>1. toPage[w] \in Seq(Messages) /\ DOMAIN toPage[w] = {}
                              BY <1>1, <2>3, <2>5, <4>1 DEF Nothing, Answers, Of
                        <5> QED BY <5>1, NoneSent
                  <4>3. latest[c] = 0
                        BY <1>5, <2>5 DEF Once, Fresh
                  <4> QED BY <3>1, <4>1, <4>2, <4>3 DEF UnderWay, Nothing
            <3>3. Told(w)'
                  BY <2>3, <2>5, <3>1, <3>2 DEF Told
            <3>4. Bidden(w)'
                  <4>1. \A n \in DOMAIN PostJob(w, c) : PostJob(w, c)[n].type = "cancel" => PostJob(w, c)[n].of \in asked
                        BY <1>1, <2>1, <3>1, PostedBidden
                  <4> QED BY <2>1, <3>1, <4>1 DEF Bidden
            <3> QED BY <3>3, <3>4
      <2> QED BY <2>2, <2>4, <2>5
<1>14. DOMAIN latest' = Ids /\ flagged' \subseteq asked' /\ Grouped(calls)'
      BY <1>4 DEF Tally, Grouped, Runs
<1> QED BY <1>9, <1>11, <1>12, <1>13, <1>14 DEF Tally

(* Streams stay what they were as more is called.                          *)
LEMMA MoreGrouped ==
    ASSUME Inv, Grouped(calls), NEW calling \in Seq(Called), Len(calls) <= Len(calling),
           \A i \in 1..Len(calls) : calling[i] = calls[i],
           NEW g \in DOMAIN calls, calling[g].kind = "stream"
    PROVE  /\ IsFiniteSet(calling[g].parts) /\ calling[g].parts \subseteq DOMAIN calling
           /\ \A p \in calling[g].parts : calling[p].kind = "part"
           /\ Total(Runs(calling), calling[g].parts) = calling[g].runs
<1>1. /\ DOMAIN calls = 1..Len(calls) /\ DOMAIN calling = 1..Len(calling)
      /\ Len(calls) \in Nat /\ Len(calling) \in Nat
      BY DEF Inv, Shapes
<1>2. DOMAIN calls \subseteq DOMAIN calling /\ \A i \in DOMAIN calls : calling[i] = calls[i]
      BY <1>1
<1>3. /\ IsFiniteSet(calls[g].parts) /\ calls[g].parts \subseteq DOMAIN calls
      /\ \A p \in calls[g].parts : calls[p].kind = "part"
      /\ Total(Runs(calls), calls[g].parts) = calls[g].runs
      BY <1>2 DEF Grouped
<1>4. \A p \in calls[g].parts : Runs(calling)[p] = Runs(calls)[p]
      BY <1>2, <1>3 DEF Runs
<1>5. Total(Runs(calling), calls[g].parts) = Total(Runs(calls), calls[g].parts)
      BY <1>3, <1>4, TotalSame
<1> QED BY <1>2, <1>3, <1>5

(* Numbers that are new were never given out.                              *)
LEMMA MoreOnce ==
    ASSUME Inv, Links, Tally, NEW calling \in Seq(Called), Len(calls) <= Len(calling), Len(calling) <= MaxCalls,
           NEW q, \A n \in DOMAIN q : \/ n \in DOMAIN queue /\ q[n] = queue[n]
                                      \/ q[n] \in DOMAIN calling \ DOMAIN calls
    PROVE  Once(q, phase, current, calling)
<1>1. /\ DOMAIN calls = 1..Len(calls) /\ DOMAIN calling = 1..Len(calling)
      /\ Len(calls) \in Nat /\ Len(calling) \in Nat
      BY DEF Inv, Shapes
<1>2. DOMAIN calls \subseteq DOMAIN calling /\ DOMAIN calling \subseteq Ids
      BY <1>1, PoolAssumption DEF Ids
<1>3. Once(queue, phase, current, calls)
      BY DEF Tally
<1>4. \A n \in DOMAIN q : Fresh(q[n])
      BY <1>2, <1>3 DEF Once
<1>5. ASSUME NEW w \in Workers, phase[w] \in Held, NEW n \in DOMAIN q PROVE q[n] # current[w]
      <2>1. current[w] \in DOMAIN calls
            BY <1>5 DEF Inv, Placed
      <2> QED BY <1>3, <1>5, <2>1 DEF Once
<1> QED BY <1>2, <1>3, <1>4, <1>5 DEF Once

LEMMA JobTally ==
    ASSUME Inv, Links, Tally, NEW kind \in {"plain", "alone"}, Job(kind)
    PROVE  Tally'
<1> DEFINE calling == Append(calls, Call(kind, 0, {}))
           q == Append(queue, Len(calling))
<1>1. /\ calls' = calling /\ Pump(q, calling, phase, current, alone) /\ Len(calls) < MaxCalls
      /\ UNCHANGED <<dead, toPage, alive, job, done, stops, outcome, latest, asked>>
      BY DEF Job, workerVars
<1>2. /\ Shapes /\ calls \in Seq(Called) /\ Call(kind, 0, {}) \in Called /\ Channels(phase) /\ queue \in Seq(Nat)
      /\ \A n \in DOMAIN queue : queue[n] \in DOMAIN calls
      BY DEF Inv, Shapes, Call, Called, Waits
<1>3. /\ calling \in Seq(Called) /\ Len(calling) = Len(calls) + 1 /\ Len(calls) \in Nat
      /\ \A i \in 1..Len(calls) : calling[i] = calls[i]
      /\ calling[Len(calling)].kind # "stream"
      BY <1>2, AppendProperties DEF Call
<1> HIDE DEF calling
<1>4. DOMAIN calls = 1..Len(calls) /\ DOMAIN calling = 1..(Len(calls) + 1) /\ Len(calling) \in Nat
      BY <1>2, <1>3
<1>5. /\ DOMAIN calls \subseteq DOMAIN calling /\ Len(calling) \in DOMAIN calling /\ Len(calling) \notin DOMAIN calls
      /\ \A i \in DOMAIN calls : calling[i] = calls[i]
      BY <1>3, <1>4
<1>6. /\ q \in Seq(Nat) /\ DOMAIN q = DOMAIN queue \cup {Len(queue) + 1} /\ Len(queue) + 1 \notin DOMAIN queue
      /\ q[Len(queue) + 1] = Len(calling) /\ \A n \in DOMAIN queue : q[n] = queue[n]
      BY <1>2, <1>4, AppendProperties
<1> HIDE DEF q
<1>7. Waits(q, calling)
      BY <1>2, <1>5, <1>6 DEF Waits
<1>8. Distinct(q)
      BY <1>2, <1>5, <1>6 DEF Links, Distinct
<1>9. Len(calling) <= MaxCalls /\ Len(calls) <= Len(calling)
      BY <1>1, <1>3, PoolAssumption
<1>10. Once(q, phase, current, calling)
      <2>1. \A n \in DOMAIN q : (n \in DOMAIN queue /\ q[n] = queue[n]) \/ q[n] \in DOMAIN calling \ DOMAIN calls
            BY <1>5, <1>6
      <2> QED BY <1>3, <1>9, <2>1, MoreOnce
<1>11. Grouped(calling)
      <2>1. \A g \in DOMAIN calling : calling[g].kind = "stream" => g \in DOMAIN calls
            BY <1>3, <1>4
      <2>2. Grouped(calls)
            BY DEF Tally
      <2> QED BY <1>3, <1>9, <2>1, <2>2, MoreGrouped DEF Grouped
<1>12. phase \in [Workers -> Phases] /\ current \in [Workers -> Nat] /\ alone \in BOOLEAN
      BY <1>2 DEF Shapes
<1> QED BY <1>1, <1>2, <1>3, <1>7, <1>8, <1>9, <1>10, <1>11, <1>12, PumpingTally

LEMMA ReadyTally ==
    ASSUME Inv, Links, Tally, NEW w \in Workers, phase[w] \notin Asking,
           NEW cur \in [Workers -> Nat], \A v \in Workers \ {w} : cur[v] = current[v],
           NEW flag \in BOOLEAN, Pump(queue, calls, [phase EXCEPT ![w] = "idle"], cur, flag),
           UNCHANGED <<calls, dead, toPage, alive, job, done, stops, outcome, latest, asked>>
    PROVE  Tally'
<1> DEFINE ph == [phase EXCEPT ![w] = "idle"]
<1>1. /\ phase \in [Workers -> Phases] /\ calls \in Seq(Called) /\ Waits(queue, calls)
      BY DEF Inv, Shapes
<1>2. ph \in [Workers -> Phases] /\ \A v \in Workers : ph[v] = IF v = w THEN "idle" ELSE phase[v]
      BY <1>1 DEF Phases
<1>3. Channels(ph)
      BY <1>2 DEF Inv, Channels, Asking
<1>4. Pump(queue, calls, ph, cur, flag)
      OBVIOUS
<1> HIDE DEF ph
<1>5. /\ \A v \in Workers : ph[v] = phase[v] \/ (ph[v] = "idle" /\ phase[v] \notin Asking)
      /\ \A v \in Workers : ph[v] # "idle" => cur[v] = current[v]
      BY <1>2
<1>6. Distinct(queue) /\ Grouped(calls) /\ Once(queue, phase, current, calls) /\ Len(calls) <= MaxCalls
      BY DEF Links, Tally, Numbers
<1>7. Once(queue, ph, cur, calls)
      <2>1. \A v \in Workers : ph[v] \in Held => phase[v] = ph[v] /\ current[v] = cur[v]
            BY <1>2, <1>5 DEF Held
      <2> QED BY <1>6, <2>1 DEF Once
<1>8. Len(calls) <= Len(calls) /\ \A i \in 1..Len(calls) : calls[i] = calls[i]
      BY <1>1
<1> QED BY <1>1, <1>2, <1>3, <1>4, <1>5, <1>6, <1>7, <1>8, PumpingTally

LEMMA MadeReadyTally ==
    ASSUME Inv, Links, Tally, NEW w \in Workers, MadeReady(w)
    PROVE  Tally'
<1>1. /\ phase[w] = "readying" /\ Pump(queue, calls, [phase EXCEPT ![w] = "idle"], current, alone)
      /\ UNCHANGED <<calls, dead, toPage, alive, job, done, stops, outcome, latest, asked>>
      BY DEF MadeReady, workerVars, callVars
<1>2. current \in [Workers -> Nat] /\ alone \in BOOLEAN
      BY DEF Inv, Shapes
<1> QED BY <1>1, <1>2, ReadyTally DEF Asking

LEMMA FreeTally ==
    ASSUME Inv, Links, Tally, NEW w \in Workers, Free(w)
    PROVE  Tally'
<1> DEFINE cur == [current EXCEPT ![w] = None]
           flag == alone /\ ~Alone(current[w])
<1>1. /\ phase[w] = "freeing" /\ Pump(queue, calls, [phase EXCEPT ![w] = "idle"], cur, flag)
      /\ UNCHANGED <<calls, dead, toPage, alive, job, done, stops, outcome, latest, asked>>
      BY DEF Free, workerVars, callVars
<1>2. cur \in [Workers -> Nat] /\ flag \in BOOLEAN /\ \A v \in Workers \ {w} : cur[v] = current[v]
      BY DEF Inv, Shapes, None
<1> HIDE DEF cur, flag
<1> QED BY <1>1, <1>2, ReadyTally DEF Asking

LEMMA StreamTally ==
    ASSUME Inv, Links, Tally, NEW total \in RunCounts, Stream(total)
    PROVE  Tally'
<1>1. PICK calling \in Seq(Called), parts \in Nat \ {0}, q \in Seq(Nat) :
          /\ calls' = calling /\ Pump(q, calling, phase, current, alone)
          /\ Len(calling) <= MaxCalls
          /\ Streamed(total, calling, parts, q) /\ Waits(q, calling) /\ Distinct(q)
      BY StreamBegins DEF Links
<1>2. UNCHANGED <<dead, toPage, alive, job, done, stops, outcome, latest, asked>>
      BY DEF Stream, workerVars
<1>3. /\ Channels(phase) /\ phase \in [Workers -> Phases] /\ current \in [Workers -> Nat] /\ alone \in BOOLEAN
      /\ Len(calls) \in Nat /\ total \in Nat
      BY PoolAssumption DEF Inv, Shapes
<1>4. /\ DOMAIN calls = 1..Len(calls) /\ DOMAIN calling = 1..(Len(calls) + parts + 1)
      /\ DOMAIN calls \subseteq DOMAIN calling /\ \A i \in DOMAIN calls : calling[i] = calls[i]
      /\ \A i \in 1..parts : Len(calls) + i \in DOMAIN calling \ DOMAIN calls
      /\ Len(calling) \in DOMAIN calling \ DOMAIN calls
      /\ (Len(calls) + 1)..(Len(calls) + parts) \subseteq DOMAIN calling
      /\ \A g \in DOMAIN calling : g \in DOMAIN calls \/ (g - Len(calls) \in 1..parts /\ g = Len(calls) + (g - Len(calls))) \/ g = Len(calling)
      BY <1>1, StreamedCalls
<1>5. /\ Len(calling) = Len(calls) + parts + 1 /\ \A i \in 1..Len(calls) : calling[i] = calls[i]
      /\ \A i \in 1..parts : calling[Len(calls) + i] = Call("part", Share(total, parts, i), {})
      /\ calling[Len(calling)] = Call("stream", total, (Len(calls) + 1)..(Len(calls) + parts))
      /\ \A n \in DOMAIN q : \/ n \in DOMAIN queue /\ q[n] = queue[n]
                             \/ n - Len(queue) \in 1..parts /\ q[n] = Len(calls) + (n - Len(queue))
      BY <1>1 DEF Streamed
<1>6. Len(calls) <= Len(calling)
      BY <1>3, <1>5
<1>7. Once(q, phase, current, calling)
      <2>1. \A n \in DOMAIN q : (n \in DOMAIN queue /\ q[n] = queue[n]) \/ q[n] \in DOMAIN calling \ DOMAIN calls
            BY <1>4, <1>5
      <2> QED BY <1>1, <1>6, <2>1, MoreOnce
<1>8. Grouped(calling)
      <2> SUFFICES ASSUME NEW g \in DOMAIN calling, calling[g].kind = "stream"
                   PROVE  /\ IsFiniteSet(calling[g].parts) /\ calling[g].parts \subseteq DOMAIN calling
                          /\ \A p \in calling[g].parts : calling[p].kind = "part"
                          /\ Total(Runs(calling), calling[g].parts) = calling[g].runs
          BY DEF Grouped
      <2>1. CASE g \in DOMAIN calls
            <3>1. Grouped(calls)
                  BY DEF Tally
            <3> QED BY <1>5, <1>6, <2>1, <3>1, MoreGrouped
      <2>2. CASE g - Len(calls) \in 1..parts /\ g = Len(calls) + (g - Len(calls))
            <3>1. \A i \in 1..parts : calling[Len(calls) + i] = Call("part", Share(total, parts, i), {})
                  BY <1>5
            <3>2. calling[g] = Call("part", Share(total, parts, g - Len(calls)), {})
                  BY <2>2, <3>1
            <3>3. calling[g].kind = "part"
                  BY <3>2 DEF Call
            <3> QED BY <3>3
      <2>3. CASE g = Len(calling)
            <3> DEFINE ids == (Len(calls) + 1)..(Len(calls) + parts)
            <3>1. calling[g].parts = ids /\ calling[g].runs = total
                  <4>1. calling[g] = Call("stream", total, ids)
                        BY <1>5, <2>3
                  <4> HIDE DEF ids
                  <4> QED BY <4>1 DEF Call
            <3>2. IsFiniteSet(ids)
                  BY <1>3, FS_Interval
            <3>3. \A p \in ids : calling[p].kind = "part"
                  <4> SUFFICES ASSUME NEW p \in ids PROVE calling[p].kind = "part"
                      OBVIOUS
                  <4>1. p - Len(calls) \in 1..parts /\ p = Len(calls) + (p - Len(calls))
                        BY <1>3
                  <4>2. calling[p] = Call("part", Share(total, parts, p - Len(calls)), {})
                        BY <1>5, <4>1
                  <4> QED BY <4>2 DEF Call
            <3>4. Total(Runs(calling), ids) = total
                  <4> DEFINE d == total \div parts
                             r == total % parts
                             f == Runs(calling)
                  <4>1. parts * d + r = total /\ r < parts /\ r \in Nat /\ d \in Nat
                        BY <1>3, Quotient
                  <4>2. \A i \in 1..parts : f[Len(calls) + i] = d + IF i <= r THEN 1 ELSE 0
                        <5> SUFFICES ASSUME NEW i \in 1..parts PROVE f[Len(calls) + i] = d + IF i <= r THEN 1 ELSE 0
                            OBVIOUS
                        <5>1. calling[Len(calls) + i].runs = Share(total, parts, i) /\ Len(calls) + i \in DOMAIN calling
                              <6>1. calling[Len(calls) + i] = Call("part", Share(total, parts, i), {})
                                    BY <1>5
                              <6>2. Len(calls) + i \in DOMAIN calling
                                    BY <1>4
                              <6>3. Call("part", Share(total, parts, i), {}).runs = Share(total, parts, i)
                                    BY DEF Call
                              <6> QED BY <6>1, <6>2, <6>3
                        <5>2. f[Len(calls) + i] = Share(total, parts, i)
                              BY <5>1 DEF Runs
                        <5> QED BY <5>2 DEF Share
                  <4> HIDE DEF d, r, f
                  <4>3. Near(f, Len(calls), parts, d, r)
                        BY <4>2 DEF Near
                  <4>4. parts \in Nat /\ parts # 0
                        OBVIOUS
                  <4>5. Total(f, (Len(calls) + 1)..(Len(calls) + parts)) = parts * d + r
                        BY <1>3, <4>1, <4>3, <4>4, TotalOfParts
                  <4> QED BY <4>1, <4>5 DEF f
            <3> HIDE DEF ids
            <3>5. ids \subseteq DOMAIN calling
                  BY <1>4 DEF ids
            <3> QED BY <3>1, <3>2, <3>3, <3>4, <3>5
      <2> QED BY <1>4, <2>1, <2>2, <2>3
<1> QED BY <1>1, <1>2, <1>3, <1>5, <1>6, <1>7, <1>8, PumpingTally

-----------------------------------------------------------------------------
(* Steps that leave what was counted.                                      *)
LEMMA KeptTally ==
    ASSUME Tally, UNCHANGED <<queue, calls, current, outcome, latest>>, asked \subseteq asked', flagged' \subseteq asked',
           \A w \in Workers : phase'[w] \in Held => phase'[w] = phase[w] \/ (phase[w] = "running" /\ phase'[w] = "settled"),
           \A w \in Workers : Told(w)' /\ Bidden(w)'
    PROVE  Tally'
<1>1. Once(queue, phase, current, calls)'
      <2>1. Once(queue, phase, current, calls) /\ \A i : Fresh(i)' = Fresh(i)
            BY DEF Tally, Fresh
      <2>2. \A w \in Workers : phase'[w] \in Held => phase[w] \in Held /\ (phase'[w] # "freeing" => phase[w] # "freeing")
            BY DEF Held
      <2> QED BY <2>1, <2>2 DEF Once
<1>2. Results'
      BY DEF Tally, Results, Whole
<1>3. Grouped(calls)'
      BY DEF Tally, Grouped, Runs
<1>4. Merged'
      BY DEF Tally, Merged, Parts
<1> QED BY <1>1, <1>2, <1>3, <1>4 DEF Tally

(* What is said of one number changes nothing for another.                 *)
LEMMA OneNumber ==
    ASSUME Inv, Links, Tally, NEW i \in DOMAIN calls, calls[i].kind = "stream" \/ outcome[i].type # "done",
           \A n \in DOMAIN queue : queue[n] # i,
           \A j \in Ids \ {i} : outcome'[j] = outcome[j] /\ latest'[j] = latest[j], DOMAIN latest' = Ids,
           UNCHANGED <<queue, calls, current, asked, flagged>>,
           \A w \in Workers : phase'[w] \in Held => phase[w] \in Held,
           \A w \in Workers : phase'[w] \in Held /\ phase'[w] # "freeing" =>
              phase[w] # "freeing" /\ (current[w] # i \/ outcome'[i].type = "pending"),
           calls[i].kind # "stream" /\ outcome'[i].type = "done" => Whole(i, outcome[i])',
           calls[i].kind = "stream" /\ outcome'[i].type = "done" =>
              /\ \A p \in Parts(i) : outcome[p].type = "done"
              /\ outcome'[i].runs = Total(latest, Parts(i))
              /\ ~outcome'[i].stopped => outcome'[i].runs = calls[i].runs
              /\ outcome'[i].stopped => Parts(i) \cap asked # {},
           \A w \in Workers : Told(w)' /\ Bidden(w)'
    PROVE  Tally'
<1>1. /\ Once(queue, phase, current, calls) /\ Results /\ Grouped(calls) /\ Merged /\ flagged \subseteq asked
      /\ DOMAIN calls \subseteq Ids /\ \A n \in DOMAIN queue : queue[n] \in DOMAIN calls
      /\ \A w \in Workers : phase[w] \in Held => current[w] \in DOMAIN calls
      BY InIds DEF Tally, Inv, Waits, Placed
<1>2. \A j \in Ids \ {i} : Fresh(j)' = Fresh(j)
      BY DEF Fresh
<1>3. Once(queue, phase, current, calls)'
      <2>1. \A n \in DOMAIN queue : Fresh(queue[n])'
            BY <1>1, <1>2 DEF Once
      <2>2. \A j \in Ids \ DOMAIN calls : Fresh(j)'
            BY <1>1, <1>2 DEF Once
      <2>3. \A w \in Workers : phase'[w] \in Held /\ phase'[w] # "freeing" => outcome'[current[w]].type = "pending"
            BY <1>1 DEF Once
      <2> QED BY <1>1, <2>1, <2>2, <2>3 DEF Once
<1>4. Results'
      <2> SUFFICES ASSUME NEW j \in DOMAIN calls, calls[j].kind # "stream", outcome'[j].type = "done" PROVE Whole(j, outcome[j])'
          BY DEF Results
      <2>1. CASE j = i
            BY <2>1
      <2>2. CASE j # i
            <3>1. outcome'[j] = outcome[j] /\ latest'[j] = latest[j]
                  BY <1>1, <2>2
            <3>2. Whole(j, outcome[j])
                  BY <1>1, <3>1 DEF Results
            <3> QED BY <3>1, <3>2 DEF Whole
      <2> QED BY <2>1, <2>2
<1>5. ASSUME NEW g \in DOMAIN calls, calls[g].kind = "stream", \A p \in Parts(g) : outcome[p].type = "done"
      PROVE  /\ Parts(g) \subseteq Ids \ {i} /\ \A p \in Parts(g) : outcome'[p].type = "done"
             /\ Total(latest', Parts(g)) = Total(latest, Parts(g))
      <2>1. IsFiniteSet(Parts(g)) /\ Parts(g) \subseteq DOMAIN calls /\ \A p \in Parts(g) : calls[p].kind = "part"
            BY <1>1, <1>5 DEF Grouped, Parts
      <2>2. Parts(g) \subseteq Ids \ {i}
            BY <1>1, <1>5, <2>1
      <2>3. \A p \in Parts(g) : latest'[p] = latest[p] /\ outcome'[p] = outcome[p]
            BY <2>2
      <2>4. Total(latest', Parts(g)) = Total(latest, Parts(g))
            BY <2>1, <2>3, TotalSame
      <2> QED BY <1>5, <2>2, <2>3, <2>4
<1>6. Merged'
      <2> SUFFICES ASSUME NEW g \in DOMAIN calls, calls[g].kind = "stream", outcome'[g].type = "done"
                   PROVE  /\ \A p \in Parts(g) : outcome'[p].type = "done"
                          /\ outcome'[g].runs = Total(latest', Parts(g))
                          /\ ~outcome'[g].stopped => outcome'[g].runs = calls[g].runs
                          /\ outcome'[g].stopped => Parts(g) \cap asked # {}
          BY DEF Merged, Parts
      <2>1. CASE g = i
            BY <1>5, <2>1
      <2>2. CASE g # i
            <3>1. outcome'[g] = outcome[g]
                  BY <1>1, <2>2
            <3>2. /\ \A p \in Parts(g) : outcome[p].type = "done"
                  /\ outcome[g].runs = Total(latest, Parts(g))
                  /\ ~outcome[g].stopped => outcome[g].runs = calls[g].runs
                  /\ outcome[g].stopped => Parts(g) \cap asked # {}
                  BY <1>1, <3>1 DEF Merged
            <3> QED BY <1>5, <3>1, <3>2
      <2> QED BY <2>1, <2>2
<1>7. Grouped(calls)'
      BY <1>1 DEF Grouped, Runs
<1> QED BY <1>1, <1>3, <1>4, <1>6, <1>7 DEF Tally

LEMMA HandModuleTally ==
    ASSUME Inv, Links, Tally, NEW w \in Workers, HandModule(w)
    PROVE  Tally'
<1> DEFINE m == Message("module", None, 0, FALSE)
<1>1. /\ UNCHANGED <<queue, calls, current, outcome, latest, asked, flagged, settled, toPage, alive, job, done, stops>>
      /\ phase[w] = "starting" /\ phase \in [Workers -> Phases] /\ toWorker \in [Workers -> Seq(Messages)]
      /\ m \in Messages /\ m.type = "module" /\ flagged \subseteq asked
      BY DEF HandModule, poolVars, workerVars, callVars, Inv, Shapes, Tally, Messages, Message, None
<1>2. \/ phase' = [phase EXCEPT ![w] = "handing"] /\ toWorker' = [toWorker EXCEPT ![w] = Append(@, m)]
      \/ phase' = [phase EXCEPT ![w] = "readying"] /\ UNCHANGED toWorker
      BY DEF HandModule
<1> HIDE DEF m
<1>3. \A v \in Workers \ {w} : phase'[v] = phase[v] /\ toWorker'[v] = toWorker[v]
      BY <1>1, <1>2
<1>4. \A n \in DOMAIN toPage[w] : toPage[w][n].type \notin {"progress", "done"}
      BY <1>1 DEF Tally, Told, Says
<1>5. alive[w] => Nothing(w)
      BY <1>1, Here DEF Asking
<1>6. /\ toWorker'[w] \in {toWorker[w], Append(toWorker[w], m)} /\ phase'[w] \in {"handing", "readying"}
      /\ phase'[w] = "handing" => toWorker'[w] = Append(toWorker[w], m)
      BY <1>1, <1>2
<1>7. /\ Append(toWorker[w], m) \in Seq(Messages) /\ Len(toWorker[w]) \in Nat
      /\ Len(Append(toWorker[w], m)) = Len(toWorker[w]) + 1 /\ Append(toWorker[w], m)[Len(toWorker[w]) + 1] = m
      /\ \A i \in 1..Len(toWorker[w]) : Append(toWorker[w], m)[i] = toWorker[w][i]
      BY <1>1, AppendProperties
<1>8. Told(w)'
      <2>1. Ordered(toPage[w])' /\ Says(w)'
            BY <1>1, <1>4 DEF Tally, Told, Ordered, Says
      <2>2. ASSUME alive[w], phase'[w] = "handing" PROVE job[w] = None /\ \A n \in Work(w)' : toWorker'[w][n].type = "module"
            <3>1. Work(w) = {} /\ job[w] = None /\ toWorker'[w] = Append(toWorker[w], m)
                  BY <1>5, <1>6, <2>2 DEF Nothing
            <3>2. Of(Append(toWorker[w], m), "cancel") = Of(toWorker[w], "cancel") \cup {Len(toWorker[w]) + 1}
                  BY <1>1, Sent
            <3>3. Work(w)' = {Len(toWorker[w]) + 1}
                  BY <3>1, <3>2 DEF Work
            <3> QED BY <1>1, <1>7, <3>1, <3>3
      <2> QED BY <1>1, <1>6, <2>1, <2>2 DEF Told, UnderWay
<1>9. Bidden(w)'
      <2>1. Bidden(w)
            BY DEF Tally
      <2>2. ASSUME NEW n \in DOMAIN Append(toWorker[w], m), Append(toWorker[w], m)[n].type = "cancel"
            PROVE  Append(toWorker[w], m)[n].of \in asked
            <3>1. n \in 1..Len(toWorker[w]) \/ n = Len(toWorker[w]) + 1
                  BY <1>7
            <3>2. n \in 1..Len(toWorker[w])
                  BY <1>1, <1>7, <2>2, <3>1
            <3>3. n \in DOMAIN toWorker[w] /\ Append(toWorker[w], m)[n] = toWorker[w][n]
                  BY <1>1, <1>7, <3>2
            <3> QED BY <2>1, <2>2, <3>3 DEF Bidden
      <2> QED BY <1>1, <1>6, <2>1, <2>2 DEF Bidden
<1>10. ASSUME NEW v \in Workers PROVE Told(v)' /\ Bidden(v)'
      <2>1. CASE v = w
            BY <1>8, <1>9, <2>1
      <2>2. CASE v # w
            <3>1. Told(v) /\ Bidden(v) /\ Work(v)' = Work(v)
                  BY <1>3, <2>2 DEF Tally, Work
            <3>2. Told(v)'
                  BY <1>1, <1>3, <2>2, <3>1, StillTold
            <3>3. Bidden(v)'
                  BY <1>1, <1>3, <2>2, <3>1 DEF Bidden
            <3> QED BY <3>2, <3>3
      <2> QED BY <2>1, <2>2
<1>11. \A v \in Workers : phase'[v] \in Held => phase'[v] = phase[v]
      BY <1>3, <1>6 DEF Held
<1> QED BY <1>1, <1>10, <1>11, KeptTally

(* A settled part was answered with what it last reported.                 *)
LEMMA SettleTally ==
    ASSUME Inv, Links, Tally, NEW w \in Workers, Settle(w)
    PROVE  Tally'
<1>0. PICK i \in DOMAIN calls : i = current[w]
      BY DEF Settle, Inv, Placed, Held
<1>1. /\ UNCHANGED <<queue, flagged, calls, asked, current, settled, toWorker, toPage, alive, job, done, stops, latest>>
      /\ phase[w] = "settled" /\ phase' = [phase EXCEPT ![w] = "freeing"] /\ phase \in [Workers -> Phases]
      /\ outcome' = [outcome EXCEPT ![i] = settled[w]] /\ DOMAIN outcome = Ids
      BY <1>0 DEF Settle, poolVars, workerVars, Inv, Shapes, Links, Sizes
<1>2. \A v \in Workers : phase'[v] = IF v = w THEN "freeing" ELSE phase[v]
      BY <1>1
<1>3. /\ i \in DOMAIN calls /\ i \in Ids /\ outcome[i].type = "pending" /\ calls[i].kind # "stream"
      /\ \A n \in DOMAIN queue : queue[n] # i
      /\ \A v \in Workers \ {w} : phase[v] \in Held => current[v] # i
      /\ DOMAIN latest = Ids /\ Told(w)
      BY <1>0, <1>1, InIds DEF Tally, Once, Held, Inv, Placed, Links, NoStream
<1>4. outcome'[i] = settled[w] /\ \A j \in Ids \ {i} : outcome'[j] = outcome[j]
      BY <1>1, <1>3
<1>5. outcome'[i].type = "done" => Whole(i, outcome[i])'
      <2>1. settled[w].type = "done" => Whole(i, settled[w])
            BY <1>0, <1>1, <1>3 DEF Told
      <2> QED BY <1>1, <1>4, <2>1 DEF Whole
<1>6. ASSUME NEW v \in Workers PROVE Told(v)' /\ Bidden(v)'
      <2>1. Told(v) /\ Bidden(v) /\ Work(v)' = Work(v)
            BY <1>1 DEF Tally, Work
      <2>2. phase'[v] = phase[v] \/ (phase[v] \notin Asking /\ phase'[v] \notin Asking \cup {"settled"})
            BY <1>1, <1>2 DEF Asking
      <2>3. Told(v)'
            BY <1>1, <2>1, <2>2, StillTold
      <2>4. Bidden(v)'
            BY <1>1, <2>1 DEF Bidden
      <2> QED BY <2>3, <2>4
<1>7. \A v \in Workers : phase'[v] \in Held => phase[v] \in Held
      BY <1>1, <1>2 DEF Held
<1>8. ASSUME NEW v \in Workers, phase'[v] \in Held, phase'[v] # "freeing" PROVE phase[v] # "freeing" /\ current[v] # i
      BY <1>2, <1>3, <1>8
<1> QED BY <1>1, <1>3, <1>4, <1>5, <1>6, <1>7, <1>8, OneNumber

(* The library's sum is the total.                                         *)
LEMMA SumIsTotal ==
    ASSUME NEW f, NEW S, IsFiniteSet(S)
    PROVE  MapThenSumSet(LAMBDA p : f[p], S) = Total(f, S)
<1> DEFINE Body(h) == [s \in SUBSET S |-> IF s = {} THEN 0 ELSE f[First(s)] + h[s \ {First(s)}]]
           h == CHOOSE g : Adds(g, f, S)
<1>1. Adds(h, f, S)
      BY SomeAdds
<1>2. MapThenSumSet(LAMBDA p : f[p], S) = h[S]
      BY <1>1 DEF MapThenSumSet, MapThenFoldSet, Adds, First
<1> QED BY <1>2 DEF Total

LEMMA SumOfRuns ==
    ASSUME NEW r, NEW S \in SUBSET DOMAIN r, IsFiniteSet(S)
    PROVE  MapThenSumSet(LAMBDA p : r[p].runs, S) = Total(Runs(r), S)
<1> DEFINE Sums(h) == h = [s \in SUBSET S |-> IF s = {} THEN 0 ELSE r[First(s)].runs + h[s \ {First(s)}]]
           k == CHOOSE h : Sums(h)
<1>1. ASSUME NEW h PROVE Sums(h) <=> Adds(h, Runs(r), S)
      <2> DEFINE f == [s \in SUBSET S |-> IF s = {} THEN 0 ELSE r[First(s)].runs + h[s \ {First(s)}]]
                 g == [s \in SUBSET S |-> IF s = {} THEN 0 ELSE Runs(r)[First(s)] + h[s \ {First(s)}]]
      <2>1. \A s \in SUBSET S : s # {} => Runs(r)[First(s)] = r[First(s)].runs
            BY FirstOf DEF Runs
      <2>2. \A s \in SUBSET S : f[s] = g[s]
            BY <2>1
      <2>3. f = g
            BY <2>2
      <2> QED BY <2>3 DEF Adds
<1>2. \E h : Sums(h)
      <2>1. PICK h : Adds(h, Runs(r), S)
            BY SomeAdds
      <2> HIDE DEF Sums
      <2> QED BY <1>1, <2>1
<1>3. MapThenSumSet(LAMBDA p : r[p].runs, S) = k[S]
      BY DEF MapThenSumSet, MapThenFoldSet, First
<1>4. Adds(k, Runs(r), S)
      <2>1. Sums(k)
            <3> HIDE DEF Sums
            <3> QED BY <1>2
      <2> HIDE DEF k, Sums
      <2> QED BY <1>1, <2>1
<1>5. SUFFICES k[S] = Total(Runs(r), S)
      BY <1>3
<1> HIDE DEF k
<1>6. Adds(CHOOSE g : Adds(g, Runs(r), S), Runs(r), S)
      BY SomeAdds
<1>7. k[S] = (CHOOSE g : Adds(g, Runs(r), S))[S]
      BY <1>4, <1>6, AddsAgree
<1> QED BY <1>7 DEF Total

(* The parts of a stream that are all done add up.                         *)
LEMMA MergeAddsUp ==
    ASSUME Inv, Links, Tally, NEW g \in groups, \A p \in Parts(g) : outcome[p].type = "done"
    PROVE  /\ Merge(g).runs = Total(latest, Parts(g))
           /\ ~Merge(g).stopped => Merge(g).runs = calls[g].runs
           /\ Merge(g).stopped => Parts(g) \cap asked # {}
<1> DEFINE P == Parts(g)
<1>1. /\ g \in DOMAIN calls /\ calls[g].kind = "stream" /\ DOMAIN calls \subseteq Ids /\ DOMAIN outcome = Ids
      BY InIds DEF Links, Numbers, Sizes
<1>2. /\ IsFiniteSet(P) /\ P \subseteq DOMAIN calls /\ \A p \in P : calls[p].kind = "part"
      /\ Total(Runs(calls), P) = calls[g].runs
      BY <1>1 DEF Tally, Grouped, Parts
<1>3. \A p \in P : Whole(p, outcome[p])
      BY <1>2 DEF Tally, Results
<1>4. /\ Merge(g).runs = MapThenSumSet(LAMBDA p : outcome[p].runs, P)
      /\ Merge(g).stopped = \E p \in P : outcome[p].stopped
      BY DEF Merge, Message
<1> HIDE DEF P
<1>5. Merge(g).runs = Total(Runs(outcome), P)
      <2>1. P \in SUBSET DOMAIN outcome
            BY <1>1, <1>2
      <2>2. MapThenSumSet(LAMBDA p : outcome[p].runs, P) = Total(Runs(outcome), P)
            BY <1>2, <2>1, SumOfRuns
      <2> QED BY <1>4, <2>2
<1>6. \A p \in P : Runs(outcome)[p] = outcome[p].runs /\ Runs(calls)[p] = calls[p].runs
      BY <1>1, <1>2 DEF Runs
<1>7. Merge(g).runs = Total(latest, P)
      <2>1. \A p \in P : Runs(outcome)[p] = latest[p]
            BY <1>3, <1>6 DEF Whole
      <2> QED BY <1>2, <1>5, <2>1, TotalSame
<1>8. ASSUME ~Merge(g).stopped PROVE Merge(g).runs = calls[g].runs
      <2>1. \A p \in P : Runs(outcome)[p] = Runs(calls)[p]
            BY <1>3, <1>4, <1>6, <1>8 DEF Whole
      <2>2. Total(Runs(outcome), P) = Total(Runs(calls), P)
            BY <1>2, <2>1, TotalSame
      <2> QED BY <1>2, <1>5, <2>2
<1>9. Merge(g).stopped => P \cap asked # {}
      BY <1>3, <1>4 DEF Whole
<1> QED BY <1>7, <1>8, <1>9 DEF P

LEMMA StreamEndsTally ==
    ASSUME Inv, Links, Tally, NEW g \in Ids, StreamEnds(g)
    PROVE  Tally'
<1>1. /\ UNCHANGED <<queue, flagged, calls, asked, current, phase, settled, toWorker, toPage, alive, job, done, stops, latest>>
      /\ outcome' = [outcome EXCEPT ![g] = IF \E p \in Parts(g) : outcome[p].type = "error" THEN Failure(g) ELSE Merge(g)]
      /\ g \in groups /\ Decided(g) /\ DOMAIN outcome = Ids /\ DOMAIN latest = Ids
      BY DEF StreamEnds, poolVars, sideVars, workerVars, Links, Sizes, Tally
<1>2. /\ g \in DOMAIN calls /\ calls[g].kind = "stream" /\ \A n \in DOMAIN queue : queue[n] # g
      /\ \A w \in Workers : phase[w] \in Held => current[w] # g
      BY <1>1 DEF Links, Numbers, NoStream
<1>3. /\ outcome'[g] \in {Failure(g), Merge(g)} /\ (outcome'[g] = Merge(g) \/ outcome'[g] = Failure(g))
      /\ (\E p \in Parts(g) : outcome[p].type = "error") => outcome'[g] = Failure(g)
      /\ \A j \in Ids \ {g} : outcome'[j] = outcome[j]
      BY <1>1
<1>4. ASSUME outcome'[g].type = "done"
      PROVE  /\ \A p \in Parts(g) : outcome[p].type = "done"
             /\ outcome'[g].runs = Total(latest, Parts(g))
             /\ ~outcome'[g].stopped => outcome'[g].runs = calls[g].runs
             /\ outcome'[g].stopped => Parts(g) \cap asked # {}
      <2>1. Failure(g).type = "error"
            BY DEF Failure, Message
      <2>2. outcome'[g] = Merge(g) /\ ~\E p \in Parts(g) : outcome[p].type = "error"
            BY <1>3, <1>4, <2>1
      <2>3. \A p \in Parts(g) : outcome[p].type = "done"
            BY <1>1, <2>2 DEF Decided
      <2>4. /\ Merge(g).runs = Total(latest, Parts(g))
            /\ ~Merge(g).stopped => Merge(g).runs = calls[g].runs
            /\ Merge(g).stopped => Parts(g) \cap asked # {}
            BY <1>1, <2>3, MergeAddsUp
      <2> QED BY <2>2, <2>3, <2>4
<1>5. ASSUME NEW v \in Workers PROVE Told(v)' /\ Bidden(v)'
      <2>1. Told(v) /\ Bidden(v) /\ Work(v)' = Work(v)
            BY <1>1 DEF Tally, Work
      <2>2. Told(v)'
            BY <1>1, <2>1, StillTold
      <2>3. Bidden(v)'
            BY <1>1, <2>1 DEF Bidden
      <2> QED BY <2>2, <2>3
<1>6. \A w \in Workers : phase'[w] \in Held /\ phase'[w] # "freeing" => phase[w] # "freeing" /\ current[w] # g
      BY <1>1, <1>2
<1> QED BY <1>1, <1>2, <1>3, <1>4, <1>5, <1>6, OneNumber

LEMMA CancelTally ==
    ASSUME Inv, Links, Tally, NEW id \in DOMAIN calls, Cancel(id)
    PROVE  Tally'
<1> DEFINE targets == IF id \in groups THEN Parts(id) ELSE {id}
           c(w) == Message("cancel", current[w], 0, FALSE)
<1>1. /\ UNCHANGED <<queue, calls, current, phase, outcome, latest, settled, toPage, alive, job, done, stops>>
      /\ flagged' = flagged \cup ({queue[i] : i \in DOMAIN queue} \cap targets)
      /\ asked' = asked \cup targets \cup {id} /\ flagged \subseteq asked
      BY DEF Cancel, CancelPosts, poolVars, sideVars, workerVars, callVars, Tally
<1>2. PICK reached \in SUBSET {w \in Workers : current[w] \in targets} :
          toWorker' = [w \in Workers |-> IF w \in reached THEN Append(toWorker[w], c(w)) ELSE toWorker[w]]
      BY DEF Cancel, CancelPosts
<1> HIDE DEF targets
<1>3. ASSUME NEW w \in Workers PROVE Told(w)' /\ Bidden(w)'
      <2>1. Told(w) /\ Bidden(w) /\ toWorker[w] \in Seq(Messages)
            BY Here DEF Tally
      <2>2. CASE w \notin reached
            <3>1. toWorker'[w] = toWorker[w] /\ Work(w)' = Work(w)
                  BY <1>2, <2>2 DEF Work
            <3>2. Told(w)'
                  BY <1>1, <2>1, <3>1, StillTold
            <3> QED BY <1>1, <2>1, <3>1, <3>2 DEF Bidden
      <2>3. CASE w \in reached
            <3> DEFINE s == toWorker[w]
                       t == Append(s, c(w))
            <3>1. c(w) \in Messages /\ c(w).type = "cancel" /\ c(w).of \in asked'
                  BY <1>1, <1>2, <2>3, Here DEF Messages, Message
            <3>2. toWorker'[w] = t
                  BY <1>2, <2>3
            <3> HIDE DEF c
            <3>3. /\ t \in Seq(Messages) /\ Len(t) = Len(s) + 1 /\ Len(s) \in Nat
                  /\ \A i \in 1..Len(s) : t[i] = s[i]
                  /\ t[Len(s) + 1] = c(w) /\ Of(t, "cancel") = Of(s, "cancel")
                  BY <2>1, <3>1, Sent, AppendProperties
            <3> HIDE DEF t
            <3>4. Work(w)' = Work(w)
                  BY <3>2, <3>3 DEF Work
            <3>5. \A n \in Work(w) : t[n] = s[n]
                  BY <2>1, <3>3 DEF Work, Of
            <3>6. Told(w)'
                  BY <1>1, <2>1, <3>2, <3>4, <3>5, StillTold
            <3>7. ASSUME NEW n \in DOMAIN t, t[n].type = "cancel" PROVE t[n].of \in asked'
                  <4>1. (n \in DOMAIN s /\ t[n] = s[n]) \/ t[n] = c(w)
                        <5>1. n \in 1..Len(s) \/ n = Len(s) + 1
                              BY <3>3
                        <5> QED BY <2>1, <3>3, <5>1
                  <4> QED BY <1>1, <2>1, <3>1, <3>7, <4>1 DEF Bidden
            <3> QED BY <1>1, <2>1, <3>2, <3>6, <3>7 DEF Bidden
      <2> QED BY <2>2, <2>3
<1>4. flagged' \subseteq asked' /\ asked \subseteq asked'
      BY <1>1
<1> QED BY <1>1, <1>3, <1>4, KeptTally

-----------------------------------------------------------------------------
(* Messages taken from the front.                                          *)
LEMMA Shifted ==
    ASSUME NEW s \in Seq(Messages), s # <<>>
    PROVE  /\ Head(s) \in Messages /\ Head(s) = s[1] /\ 1 \in DOMAIN s /\ Tail(s) \in Seq(Messages)
           /\ \A n \in DOMAIN Tail(s) : n \in Nat \ {0} /\ n + 1 \in DOMAIN s /\ Tail(s)[n] = s[n + 1]
           /\ \A n \in DOMAIN Tail(s) : n # 1 => n - 1 \in DOMAIN Tail(s) /\ Tail(s)[n - 1] = s[n]
           /\ Tail(s) = <<>> => s[Len(s)] = s[1]
           /\ Tail(s) # <<>> => Tail(s)[Len(Tail(s))] = s[Len(s)]
<1>1. /\ Head(s) \in Messages /\ Head(s) = s[1] /\ Tail(s) \in Seq(Messages) /\ Len(s) \in Nat /\ Len(s) > 0
      /\ Len(Tail(s)) = Len(s) - 1 /\ \A i \in 1..Len(Tail(s)) : Tail(s)[i] = s[i + 1]
      BY HeadTailProperties
<1>2. DOMAIN s = 1..Len(s) /\ DOMAIN Tail(s) = 1..(Len(s) - 1)
      BY <1>1
<1>3. \A n \in DOMAIN Tail(s) : n \in Nat \ {0} /\ n + 1 \in DOMAIN s /\ Tail(s)[n] = s[n + 1]
      BY <1>1, <1>2
<1>4. ASSUME NEW n \in DOMAIN Tail(s), n # 1 PROVE n - 1 \in DOMAIN Tail(s) /\ Tail(s)[n - 1] = s[n]
      <2>1. n \in Nat /\ n - 1 \in DOMAIN Tail(s) /\ (n - 1) + 1 = n
            BY <1>1, <1>2, <1>4
      <2>2. Tail(s)[n - 1] = s[(n - 1) + 1]
            BY <1>3, <2>1
      <2> QED BY <2>1, <2>2
<1>5. ASSUME Tail(s) = <<>> PROVE s[Len(s)] = s[1]
      <2> DEFINE t == Tail(s)
      <2>1. t = <<>> /\ Len(t) = Len(s) - 1 /\ Len(s) \in Nat
            BY <1>1, <1>5
      <2> HIDE DEF t
      <2>2. Len(s) = 1
            BY <2>1
      <2> QED BY <2>2
<1>6. ASSUME Tail(s) # <<>> PROVE Tail(s)[Len(Tail(s))] = s[Len(s)]
      <2>1. Len(Tail(s)) # 0
            BY <1>1, <1>6, EmptySeq
      <2>2. Len(Tail(s)) \in 1..Len(Tail(s)) /\ Len(Tail(s)) + 1 = Len(s)
            BY <1>1, <2>1
      <2>3. Tail(s)[Len(Tail(s))] = s[Len(Tail(s)) + 1]
            BY <1>1, <2>2
      <2> QED BY <2>2, <2>3
<1> QED BY <1>1, <1>2, <1>3, <1>4, <1>5, <1>6

LEMMA StillOrdered ==
    ASSUME NEW s \in Seq(Messages), s # <<>>, Ordered(s)
    PROVE  Ordered(Tail(s)) /\ (s[1].type # "progress" => \A n \in DOMAIN Tail(s) : Tail(s)[n].type = "crash")
<1>1. /\ 1 \in DOMAIN s /\ \A n \in DOMAIN Tail(s) : n \in Nat \ {0} /\ n + 1 \in DOMAIN s /\ Tail(s)[n] = s[n + 1]
      BY Shifted
<1>2. ASSUME NEW m \in DOMAIN Tail(s), NEW n \in DOMAIN Tail(s), m < n PROVE m + 1 < n + 1
      BY <1>1, <1>2
<1>3. \A n \in DOMAIN Tail(s) : 1 < n + 1
      BY <1>1
<1>4. Ordered(Tail(s))
      BY <1>1, <1>2 DEF Ordered
<1> QED BY <1>1, <1>3, <1>4 DEF Ordered

(* What is reported is what the next message goes on from.                 *)
LEMMA ProgressTally ==
    ASSUME Inv, Links, Tally, NEW w \in Workers, Receive(w), Head(toPage[w]).type = "progress"
    PROVE  Tally'
<1>0. PICK s \in Seq(Messages) : s = toPage[w]
      BY Here
<1> DEFINE t == Tail(s)
           m == Head(s)
<1>1. /\ UNCHANGED <<queue, flagged, calls, asked, current, phase, settled, outcome, toWorker, alive, job, done, stops>>
      /\ toPage[w] # <<>> /\ toPage' = [toPage EXCEPT ![w] = Tail(@)]
      /\ latest' = [latest EXCEPT ![m.of] = m.runs] /\ toPage \in [Workers -> Seq(Messages)]
      /\ DOMAIN latest = Ids /\ DOMAIN outcome = Ids
      BY <1>0 DEF Receive, poolVars, workerVars, Inv, Shapes, Tally, Links, Sizes
<1>2. toPage'[w] = t /\ \A v \in Workers \ {w} : toPage'[v] = toPage[v]
      BY <1>0, <1>1
<1>3. s \in Seq(Messages) /\ s # <<>> /\ Told(w) /\ m.type = "progress" /\ Bidden(w)
      BY <1>0, <1>1 DEF Tally
<1>4. /\ m \in Messages /\ m = s[1] /\ 1 \in DOMAIN s
      /\ \A n \in DOMAIN t : n \in Nat \ {0} /\ n + 1 \in DOMAIN s /\ t[n] = s[n + 1]
      /\ \A n \in DOMAIN t : n # 1 => n - 1 \in DOMAIN t /\ t[n - 1] = s[n]
      /\ t = <<>> => s[Len(s)] = s[1]
      /\ t # <<>> => t[Len(t)] = s[Len(s)]
      BY <1>3, Shifted
<1>5. Ordered(t)
      BY <1>0, <1>3, StillOrdered DEF Told
<1> HIDE DEF t, m
<1>6. phase[w] = "running" /\ m.of = current[w] /\ Says(w)
      BY <1>0, <1>3, <1>4 DEF Told, Says
<1>7. PICK i \in DOMAIN calls : i = current[w]
      BY <1>6 DEF Inv, Placed, Held
<1>8. /\ i \in Ids /\ outcome[i].type = "pending" /\ calls[i].kind # "stream"
      /\ \A n \in DOMAIN queue : queue[n] # i
      /\ \A v \in Workers : phase[v] \in Held /\ v # w => current[v] # i
      BY <1>6, <1>7, InIds DEF Tally, Once, Held, Links, NoStream
<1>9. latest'[i] = m.runs /\ (\A j \in Ids \ {i} : latest'[j] = latest[j]) /\ DOMAIN latest' = Ids
      BY <1>1, <1>6, <1>7, <1>8
<1>10. Said(t, i)' = Said(s, i)
      BY <1>3, <1>4, <1>9 DEF Said
<1>11. Says(w)'
      <2> SUFFICES ASSUME NEW n \in DOMAIN t
                   PROVE  /\ t[n].type = "progress" => phase[w] = "running" /\ t[n].of = current[w]
                          /\ t[n].type = "done" => Final(t, n, i)'
          BY <1>1, <1>2, <1>6, <1>7 DEF Says
      <2>1. n + 1 \in DOMAIN s /\ t[n] = s[n + 1] /\ n + 1 # 1 /\ (n + 1) - 1 = n
            BY <1>4
      <2>2. /\ s[n + 1].type = "progress" => phase[w] = "running" /\ s[n + 1].of = current[w]
            /\ s[n + 1].type = "done" => Final(s, n + 1, i)
            BY <1>0, <1>6, <1>7, <2>1 DEF Says
      <2>3. ASSUME Final(s, n + 1, i) PROVE Final(t, n, i)'
            <3>1. s[n + 1].runs = s[n].runs
                  BY <2>1, <2>3 DEF Final
            <3>2. n = 1 => s[n].runs = latest'[i]
                  BY <1>4, <1>9
            <3>3. n # 1 => s[n].runs = t[n - 1].runs
                  BY <1>4
            <3>4. t[n].runs = IF n = 1 THEN latest'[i] ELSE t[n - 1].runs
                  BY <2>1, <3>1, <3>2, <3>3
            <3>5. IF t[n].stopped THEN i \in asked ELSE t[n].runs = calls[i].runs
                  BY <2>1, <2>3 DEF Final
            <3> QED BY <1>1, <3>4, <3>5 DEF Final
      <2> QED BY <2>1, <2>2, <2>3
<1>12. UnderWay(w) /\ alive[w] => UnderWay(w)'
      <2> SUFFICES ASSUME UnderWay(w) PROVE UnderWay(w)'
          OBVIOUS
      <2>1. Work(w)' = Work(w) /\ Work(w) = {}
            BY <1>0, <1>1, <1>3, <1>6 DEF Work, UnderWay
      <2>2. job[w] # None => done[w] = Said(t, i)'
            BY <1>0, <1>6, <1>7, <1>10 DEF UnderWay
      <2>3. Said(toPage[w], current[w])' = Said(t, i)'
            <3>1. toPage'[w] = t /\ current'[w] = i
                  BY <1>1, <1>2, <1>7
            <3> QED BY <3>1 DEF Said
      <2> QED BY <1>1, <1>6, <2>1, <2>2, <2>3 DEF UnderWay
<1>13. Told(w)' /\ Bidden(w)'
      <2>1. Ordered(toPage[w])'
            BY <1>2, <1>5 DEF Ordered
      <2> QED BY <1>1, <1>3, <1>6, <1>11, <1>12, <2>1 DEF Told, Bidden
<1>14. ASSUME NEW v \in Workers, v # w PROVE Told(v)' /\ Bidden(v)'
      <2>1. Told(v) /\ Bidden(v) /\ Work(v)' = Work(v)
            BY <1>1 DEF Tally, Work
      <2>2. phase[v] \in {"running", "settled"} => latest'[current[v]] = latest[current[v]]
            <3>1. phase[v] \in {"running", "settled"} => current[v] \in Ids \ {i}
                  BY <1>8, <1>14, InIds DEF Inv, Placed, Held
            <3> QED BY <1>9, <3>1
      <2>3. Told(v)'
            BY <1>1, <1>2, <1>14, <2>1, <2>2, StillTold
      <2> QED BY <1>1, <2>1, <2>3 DEF Bidden
<1>15. \A v \in Workers : Told(v)' /\ Bidden(v)'
      BY <1>13, <1>14
<1>16. \A v \in Workers : phase'[v] \in Held /\ phase'[v] # "freeing" => phase[v] # "freeing" /\ outcome'[i].type = "pending"
      BY <1>1, <1>8
<1>17. \A j \in Ids \ {i} : outcome'[j] = outcome[j] /\ latest'[j] = latest[j]
      BY <1>1, <1>9
<1> QED BY <1>1, <1>8, <1>9, <1>15, <1>16, <1>17, OneNumber

(* An answer is what was last reported of the job that it answers.         *)
LEMMA AnswerTally ==
    ASSUME Inv, Links, Tally, NEW w \in Workers, Receive(w), Head(toPage[w]).type # "progress"
    PROVE  Tally'
<1>0. PICK s \in Seq(Messages) : s = toPage[w]
      BY Here
<1> DEFINE t == Tail(s)
           m == Head(s)
<1>1. /\ UNCHANGED <<queue, flagged, calls, asked, current, outcome, latest, toWorker, alive, job, done, stops>>
      /\ toPage[w] # <<>> /\ toPage' = [toPage EXCEPT ![w] = Tail(@)] /\ toPage \in [Workers -> Seq(Messages)]
      /\ phase \in [Workers -> Phases] /\ DOMAIN settled = Workers
      /\ (m.type = "crash" /\ SettleInner(w, Failure(current[w]))) \/ SettleInner(w, m)
      BY <1>0 DEF Receive, FailAll, poolVars, workerVars, Inv, Shapes, Links, Sizes
<1>2. toPage'[w] = t /\ \A v \in Workers \ {w} : toPage'[v] = toPage[v]
      BY <1>0, <1>1
<1>3. s # <<>> /\ Told(w) /\ m.type # "progress" /\ Bidden(w)
      BY <1>0, <1>1 DEF Tally
<1>4. /\ m \in Messages /\ m = s[1] /\ 1 \in DOMAIN s
      BY <1>3, Shifted
<1>5. Ordered(t) /\ \A n \in DOMAIN t : t[n].type = "crash"
      BY <1>0, <1>3, <1>4, StillOrdered DEF Told
<1> HIDE DEF t, m
<1>6. \/ /\ phase[w] = "running" /\ phase' = [phase EXCEPT ![w] = "settled"]
         /\ settled' \in {[settled EXCEPT ![w] = Failure(current[w])], [settled EXCEPT ![w] = m]}
      \/ phase[w] = "handing" /\ phase' = [phase EXCEPT ![w] = "readying"] /\ settled' = settled
      \/ phase[w] \notin {"running", "handing"} /\ phase' = phase /\ settled' = settled
      BY <1>1 DEF SettleInner
<1>7. /\ \A v \in Workers \ {w} : phase'[v] = phase[v] /\ settled'[v] = settled[v]
      /\ \/ phase[w] = "running" /\ phase'[w] = "settled" /\ settled'[w] \in {Failure(current[w]), m}
         \/ phase[w] = "handing" /\ phase'[w] = "readying" /\ settled'[w] = settled[w]
         \/ phase[w] \notin {"running", "handing"} /\ phase'[w] = phase[w] /\ settled'[w] = settled[w]
      BY <1>1, <1>6
<1>8. Ordered(toPage[w])' /\ Says(w)'
      BY <1>2, <1>5 DEF Ordered, Says
<1>9. ASSUME alive[w] PROVE UnderWay(w)'
      <2>1. 1 \in Answers(w)
            BY <1>0, <1>3, <1>4 DEF Answers, Of
      <2>2. Work(w) = {} /\ job[w] = None
            BY <1>9, <2>1, Here DEF OneThing
      <2>3. Work(w)' = {}
            BY <1>1, <2>2 DEF Work
      <2> QED BY <1>1, <1>7, <2>2, <2>3 DEF UnderWay
<1>10. ASSUME phase'[w] = "settled", settled'[w].type = "done" PROVE Whole(current[w], settled[w])'
      <2>1. CASE phase[w] = "settled"
            BY <1>1, <1>3, <1>7, <1>10, <2>1 DEF Told, Whole
      <2>2. CASE phase[w] = "running"
            <3>1. settled'[w] = m /\ m.type = "done"
                  BY <1>7, <1>10, <2>2 DEF Failure, Message
            <3>2. Final(s, 1, current[w])
                  BY <1>0, <1>3, <1>4, <2>2, <3>1 DEF Told, Says
            <3>3. Whole(current[w], m)
                  BY <1>4, <3>2 DEF Final, Whole
            <3> QED BY <1>1, <3>1, <3>3 DEF Whole
      <2> QED BY <1>7, <1>10, <2>1, <2>2
<1>11. Told(w)' /\ Bidden(w)'
      BY <1>1, <1>3, <1>8, <1>9, <1>10 DEF Told, Bidden
<1>12. ASSUME NEW v \in Workers, v # w PROVE Told(v)' /\ Bidden(v)'
      <2>1. Told(v) /\ Bidden(v) /\ Work(v)' = Work(v)
            BY <1>1 DEF Tally, Work
      <2>2. Told(v)'
            BY <1>1, <1>2, <1>7, <1>12, <2>1, StillTold
      <2> QED BY <1>1, <2>1, <2>2 DEF Bidden
<1>13. \A v \in Workers : Told(v)' /\ Bidden(v)'
      BY <1>11, <1>12
<1>14. \A v \in Workers : phase'[v] \in Held => phase'[v] = phase[v] \/ (phase[v] = "running" /\ phase'[v] = "settled")
      BY <1>7 DEF Held
<1>15. flagged' \subseteq asked' /\ asked \subseteq asked'
      BY <1>1 DEF Tally
<1> QED BY <1>1, <1>13, <1>14, <1>15, KeptTally

-----------------------------------------------------------------------------
LEMMA WorkersTally ==
    ASSUME Tally, NEW w \in Workers,
           UNCHANGED <<queue, flagged, calls, asked, current, phase, settled, outcome, latest>>,
           \A v \in Workers \ {w} : /\ toWorker'[v] = toWorker[v] /\ toPage'[v] = toPage[v] /\ job'[v] = job[v]
                                    /\ alive'[v] = alive[v] /\ done'[v] = done[v] /\ stops'[v] = stops[v],
           Told(w)', Bidden(w)'
    PROVE  Tally'
<1>1. ASSUME NEW v \in Workers, v # w PROVE Told(v)' /\ Bidden(v)'
      <2>1. Told(v) /\ Bidden(v) /\ Work(v)' = Work(v)
            BY <1>1 DEF Tally, Work
      <2>2. Told(v)'
            BY <1>1, <2>1, StillTold
      <2> QED BY <1>1, <2>1, <2>2 DEF Bidden
<1>2. \A v \in Workers : Told(v)' /\ Bidden(v)'
      BY <1>1
<1>3. flagged' \subseteq asked' /\ asked \subseteq asked'
      BY DEF Tally
<1> QED BY <1>2, <1>3, KeptTally

LEMMA TakeMessageTally ==
    ASSUME Inv, Links, Tally, NEW w \in Workers, TakeMessage(w)
    PROVE  Tally'
<1>0. PICK s \in Seq(Messages) : s = toWorker[w]
      BY Here
<1> DEFINE t == Tail(s)
           m == Head(s)
<1>1. /\ alive[w] /\ s # <<>> /\ toWorker' = [toWorker EXCEPT ![w] = Tail(@)]
      /\ toWorker \in [Workers -> Seq(Messages)] /\ toPage \in [Workers -> Seq(Messages)]
      /\ job \in [Workers -> Nat] /\ done \in [Workers -> Nat] /\ DOMAIN stops = Workers
      /\ UNCHANGED <<queue, flagged, calls, asked, current, phase, settled, outcome, latest, alive>>
      BY <1>0 DEF TakeMessage, poolVars, sideVars, callVars, Inv, Shapes, Links, Sizes
<1>2. toWorker'[w] = t /\ \A v \in Workers \ {w} : toWorker'[v] = toWorker[v]
      BY <1>0, <1>1
<1>3. /\ m \in Messages /\ m = s[1] /\ 1 \in DOMAIN s
      /\ \A n \in DOMAIN t : n \in Nat \ {0} /\ n + 1 \in DOMAIN s /\ t[n] = s[n + 1]
      BY <1>1, Shifted
<1>4. /\ OneThing(w) /\ Linked(w) /\ (phase[w] \notin Asking => Nothing(w)) /\ Told(w) /\ Bidden(w) /\ UnderWay(w)
      /\ toPage[w] \in Seq(Messages)
      BY <1>1, Here DEF Links, Tally, Told
<1>5. \/ m.type = "cancel" /\ stops' = [stops EXCEPT ![w] = @ \cup {m.of}] /\ UNCHANGED <<toPage, job, done>>
      \/ /\ m.type = "module" /\ UNCHANGED <<job, done, stops>>
         /\ Post(w, Message("done", None, 0, FALSE)) \/ Post(w, Failure(None))
      \/ /\ m.type = "job" /\ job' = [job EXCEPT ![w] = m.of] /\ done' = [done EXCEPT ![w] = 0]
         /\ UNCHANGED <<toPage, stops>>
      BY <1>0 DEF TakeMessage
<1> HIDE DEF t, m
<1>6. Work(w) = {n \in DOMAIN s : s[n].type # "cancel"} /\ Work(w)' = {n \in DOMAIN t : t[n].type # "cancel"}
      BY <1>0, <1>2 DEF Work, Of
<1>7. \A n \in Work(w)' : n + 1 \in Work(w) /\ t[n] = s[n + 1] /\ n \in Nat \ {0}
      BY <1>3, <1>6
<1>8. \A n \in DOMAIN t : t[n].type = "cancel" => t[n].of \in asked
      BY <1>0, <1>3, <1>4 DEF Bidden
<1>9. m.type # "cancel" => 1 \in Work(w) /\ Work(w)' = {}
      <2> SUFFICES ASSUME m.type # "cancel", NEW n \in Work(w)' PROVE FALSE
          BY <1>3, <1>6
      <2>1. n + 1 \in Work(w) /\ 1 \in Work(w) /\ n \in Nat \ {0}
            BY <1>3, <1>6, <1>7
      <2>2. n + 1 = 1
            BY <1>4, <2>1 DEF OneThing
      <2> QED BY <2>1, <2>2
<1>10. CASE m.type = "cancel" /\ stops' = [stops EXCEPT ![w] = @ \cup {m.of}] /\ UNCHANGED <<toPage, job, done>>
      <2>1. stops'[w] = stops[w] \cup {m.of} /\ \A v \in Workers \ {w} : stops'[v] = stops[v]
            BY <1>1, <1>10
      <2>2. m.of \in asked
            BY <1>0, <1>3, <1>4, <1>10 DEF Bidden
      <2>3. Bidden(w)'
            BY <1>1, <1>2, <1>4, <1>8, <2>1, <2>2 DEF Bidden
      <2>4. Ordered(toPage[w])' /\ Says(w)'
            BY <1>1, <1>4, <1>10 DEF Told, Ordered, Says, Final
      <2>5. UnderWay(w)'
            <3>1. phase[w] = "handing" => job[w] = None /\ \A n \in Work(w)' : t[n].type = "module"
                  BY <1>0, <1>4, <1>7 DEF UnderWay
            <3>2. phase[w] = "running" /\ Work(w)' # {} => toPage[w] = <<>> /\ latest[current[w]] = 0
                  BY <1>4, <1>7 DEF UnderWay
            <3>3. phase[w] = "running" /\ job[w] # None => done[w] = Said(toPage[w], current[w])
                  BY <1>4 DEF UnderWay
            <3>4. Said(toPage[w], current[w])' = Said(toPage[w], current[w])
                  BY <1>1, <1>10 DEF Said
            <3> QED BY <1>1, <1>2, <1>10, <3>1, <3>2, <3>3, <3>4 DEF UnderWay
      <2>6. Told(w)'
            BY <1>1, <1>4, <2>4, <2>5 DEF Told, Whole
      <2> QED BY <1>1, <1>2, <1>10, <2>1, <2>3, <2>6, WorkersTally
<1>11. CASE /\ m.type = "module" /\ UNCHANGED <<job, done, stops>>
            /\ Post(w, Message("done", None, 0, FALSE)) \/ Post(w, Failure(None))
      <2>1. PICK a \in Messages : a.type \in {"done", "error"} /\ Post(w, a)
            <3>1. Message("done", None, 0, FALSE) \in Messages /\ Failure(None) \in Messages
                  BY DEF Messages, Message, Failure, None
            <3>2. Message("done", None, 0, FALSE).type = "done" /\ Failure(None).type = "error"
                  BY DEF Message, Failure
            <3> QED BY <1>11, <3>1, <3>2
      <2>2. phase[w] = "handing"
            <3>1. 1 \in Work(w) /\ toWorker[w][1].type = "module"
                  BY <1>0, <1>3, <1>9, <1>11
            <3> QED BY <1>1, <1>4, <3>1 DEF Nothing, Asking, Linked, Own
      <2>3. toPage[w] = <<>>
            <3>1. Answers(w) = {}
                  BY <1>4, <1>9, <1>11 DEF OneThing
            <3>2. DOMAIN toPage[w] = {}
                  BY <1>4, <2>2, <3>1 DEF Told, Says, Answers, Of
            <3> QED BY <1>4, <3>2, NoneSent
      <2>4. toPage'[w] = <<a>> /\ \A v \in Workers \ {w} : toPage'[v] = toPage[v]
            <3>1. Append(<<>>, a) = <<a>>
                  OBVIOUS
            <3> QED BY <1>1, <2>1, <2>3, <3>1 DEF Post
      <2>5. Ordered(toPage[w])' /\ Says(w)'
            <3>1. \A n \in DOMAIN <<a>> : n = 1 /\ <<a>>[n] = a
                  OBVIOUS
            <3> QED BY <1>1, <2>1, <2>2, <2>4, <3>1 DEF Ordered, Says
      <2>6. Told(w)'
            BY <1>1, <1>4, <1>9, <1>11, <2>2, <2>5 DEF Told, UnderWay
      <2>7. Bidden(w)'
            BY <1>1, <1>2, <1>4, <1>8, <1>11 DEF Bidden
      <2> QED BY <1>1, <1>2, <1>11, <2>4, <2>6, <2>7, WorkersTally
<1>12. CASE /\ m.type = "job" /\ job' = [job EXCEPT ![w] = m.of] /\ done' = [done EXCEPT ![w] = 0]
            /\ UNCHANGED <<toPage, stops>>
      <2>1. /\ done'[w] = 0 /\ \A v \in Workers \ {w} : job'[v] = job[v] /\ done'[v] = done[v]
            BY <1>1, <1>12
      <2>2. phase[w] = "running" /\ toPage[w] = <<>> /\ latest[current[w]] = 0
            <3>1. 1 \in Work(w) /\ toWorker[w][1].type = "job"
                  BY <1>0, <1>3, <1>9, <1>12
            <3> QED BY <1>1, <1>4, <3>1 DEF Nothing, Asking, UnderWay
      <2>3. Said(toPage[w], current[w])' = 0
            BY <1>1, <1>12, <2>2 DEF Said
      <2>4. Ordered(toPage[w])' /\ Says(w)'
            BY <1>1, <1>4, <1>12 DEF Told, Ordered, Says, Final
      <2>5. Told(w)'
            BY <1>1, <1>9, <1>12, <2>1, <2>2, <2>3, <2>4 DEF Told, UnderWay
      <2>6. Bidden(w)'
            BY <1>1, <1>2, <1>4, <1>8, <1>12 DEF Bidden
      <2> QED BY <1>1, <1>2, <1>12, <2>1, <2>5, <2>6, WorkersTally
<1> QED BY <1>5, <1>10, <1>11, <1>12

(* A message put at the end.                                               *)
LEMMA Added ==
    ASSUME NEW s \in Seq(Messages), NEW m \in Messages, NEW t, t = Append(s, m), NEW k, k = Len(s) + 1
    PROVE  /\ k \in DOMAIN t /\ t[k] = m /\ t # <<>> /\ Len(t) = k
           /\ \A n \in DOMAIN t : n \in DOMAIN s \/ n = k
           /\ \A n \in DOMAIN s : n \in DOMAIN t /\ t[n] = s[n] /\ n < k /\ n \in Nat /\ n # k /\ (n # 1 => n - 1 \in DOMAIN s)
           /\ \A i : (IF k = 1 THEN latest[i] ELSE t[k - 1].runs) = Said(s, i)
<1>1. /\ t \in Seq(Messages) /\ Len(t) = Len(s) + 1 /\ Len(s) \in Nat
      /\ \A n \in 1..Len(s) : t[n] = s[n]
      /\ t[Len(s) + 1] = m
      BY AppendProperties
<1>2. DOMAIN s = 1..Len(s) /\ DOMAIN t = 1..(Len(s) + 1)
      BY <1>1
<1>3. t # <<>>
      BY <1>1, <1>2
<1>4. ASSUME NEW i PROVE (IF k = 1 THEN latest[i] ELSE t[k - 1].runs) = Said(s, i)
      <2>1. CASE s = <<>>
            <3>1. Len(s) = 0
                  BY <2>1
            <3> QED BY <2>1, <3>1 DEF Said
      <2>2. CASE s # <<>>
            <3>1. Len(s) # 0
                  BY <2>2, EmptySeq
            <3>2. t[Len(s)] = s[Len(s)] /\ k # 1 /\ k - 1 = Len(s)
                  BY <1>1, <3>1
            <3> QED BY <2>2, <3>2 DEF Said
      <2> QED BY <2>1, <2>2
<1>5. \A n \in DOMAIN s : n \in DOMAIN t /\ t[n] = s[n] /\ n < k /\ n \in Nat /\ n # k /\ (n # 1 => n - 1 \in DOMAIN s)
      BY <1>1, <1>2
<1>6. k \in DOMAIN t /\ t[k] = m /\ Len(t) = k /\ \A n \in DOMAIN t : n \in DOMAIN s \/ n = k
      BY <1>1, <1>2
<1> QED BY <1>3, <1>4, <1>5, <1>6

(* A worker that runs a job has said nothing but how far it is.            *)
LEMMA AtWork ==
    ASSUME Inv, Links, Tally, NEW w \in Workers, alive[w], job[w] # None
    PROVE  /\ phase[w] = "running" /\ job[w] = current[w] /\ Work(w) = {} /\ done[w] = Said(toPage[w], current[w])
           /\ \A n \in DOMAIN toPage[w] : toPage[w][n].type = "progress"
<1>1. /\ OneThing(w) /\ (phase[w] \notin Asking => Nothing(w)) /\ UnderWay(w) /\ Linked(w)
      BY Here DEF Tally, Told, Links
<1>2. phase[w] = "running"
      BY <1>1 DEF Asking, UnderWay, Nothing
<1> QED BY <1>1, <1>2 DEF OneThing, Answers, Of, UnderWay, Linked, Own

LEMMA RunChunkTally ==
    ASSUME Inv, Links, Tally, NEW w \in Workers, RunChunk(w)
    PROVE  Tally'
<1>0. PICK s \in Seq(Messages) : s = toPage[w]
      BY Here
<1>1. PICK m \in Messages : m.type = "progress" /\ m.of = current[w] /\ m.runs = done[w] + 1 /\ Post(w, m)
      <2> DEFINE m == Message("progress", job[w], done[w] + 1, FALSE)
      <2>1. m \in Messages /\ m.type = "progress" /\ m.of = job[w] /\ m.runs = done[w] + 1 /\ Post(w, m)
            BY Here DEF RunChunk, Messages, Message
      <2>2. job[w] = current[w]
            BY AtWork DEF RunChunk
      <2> QED BY <2>1, <2>2
<1>t. PICK t : t = Append(s, m)
      OBVIOUS
<1>k. PICK k : k = Len(s) + 1
      OBVIOUS
<1>2. /\ UNCHANGED <<queue, flagged, calls, asked, current, phase, settled, outcome, latest, toWorker, job, alive, stops>>
      /\ done' = [done EXCEPT ![w] = @ + 1] /\ done \in [Workers -> Nat] /\ toPage \in [Workers -> Seq(Messages)]
      /\ alive[w] /\ job[w] # None /\ Told(w) /\ Bidden(w)
      BY DEF RunChunk, poolVars, sideVars, callVars, Inv, Shapes, Tally
<1>3. /\ toPage'[w] = t /\ done'[w] = done[w] + 1
      /\ \A v \in Workers \ {w} : toPage'[v] = toPage[v] /\ done'[v] = done[v]
      BY <1>0, <1>1, <1>2, <1>t DEF Post
<1>4. /\ phase[w] = "running" /\ Work(w) = {} /\ Work(w)' = Work(w)
      /\ \A n \in DOMAIN s : s[n].type = "progress" /\ s[n].of = current[w]
      BY <1>0, <1>2, AtWork DEF Work, Told, Says
<1>5. /\ k \in DOMAIN t /\ t[k] = m /\ t # <<>> /\ Len(t) = k
      /\ \A n \in DOMAIN t : n \in DOMAIN s \/ n = k
      /\ \A n \in DOMAIN s : n \in DOMAIN t /\ t[n] = s[n]
      BY <1>t, <1>k, Added
<1>6. \A n \in DOMAIN t : t[n].type = "progress" /\ t[n].of = current[w]
      BY <1>1, <1>4, <1>5
<1>7. Ordered(toPage[w])' /\ Says(w)'
      BY <1>2, <1>3, <1>4, <1>6 DEF Ordered, Says
<1>8. Said(toPage[w], current[w])' = done'[w]
      <2>1. toPage'[w] # <<>> /\ toPage'[w][Len(toPage'[w])].runs = done'[w]
            BY <1>1, <1>3, <1>5
      <2> QED BY <2>1 DEF Said
<1>9. Told(w)'
      BY <1>2, <1>4, <1>7, <1>8 DEF Told, UnderWay
<1>10. Bidden(w)'
      BY <1>2 DEF Bidden
<1> QED BY <1>2, <1>3, <1>9, <1>10, WorkersTally

LEMMA EndsTally ==
    ASSUME Inv, Links, Tally, NEW w \in Workers, job[w] # None, NEW m \in Messages, m.type \in {"done", "error"},
           m.type = "done" => m.runs = done[w] /\ IF m.stopped THEN job[w] \in asked ELSE m.runs = calls[job[w]].runs,
           Ends(w, m)
    PROVE  Tally'
<1>0. PICK s \in Seq(Messages) : s = toPage[w]
      BY Here
<1>1. PICK i \in Nat : i = current[w]
      BY Here
<1>t. PICK t : t = Append(s, m)
      OBVIOUS
<1>k. PICK k : k = Len(s) + 1
      OBVIOUS
<1>2. /\ UNCHANGED <<queue, flagged, calls, asked, current, phase, settled, outcome, latest, toWorker, alive, done>>
      /\ job' = [job EXCEPT ![w] = None] /\ job \in [Workers -> Nat] /\ toPage \in [Workers -> Seq(Messages)]
      /\ stops' = [stops EXCEPT ![w] = @ \ {job[w]}] /\ DOMAIN stops = Workers
      /\ alive[w] /\ Told(w) /\ Bidden(w) /\ Post(w, m)
      BY DEF Ends, poolVars, sideVars, callVars, Inv, Shapes, Tally, Links, Sizes
<1>3. /\ toPage'[w] = t /\ job'[w] = None /\ stops'[w] = stops[w] \ {job[w]}
      /\ \A v \in Workers \ {w} : toPage'[v] = toPage[v] /\ job'[v] = job[v] /\ stops'[v] = stops[v]
      BY <1>0, <1>2, <1>t DEF Post
<1>4. /\ phase[w] = "running" /\ job[w] = i /\ Work(w) = {} /\ Work(w)' = Work(w) /\ done[w] = Said(s, i)
      /\ \A n \in DOMAIN s : s[n].type = "progress" /\ s[n].of = i
      BY <1>0, <1>1, <1>2, AtWork DEF Work, Told, Says
<1>5. /\ k \in DOMAIN t /\ t[k] = m
      /\ \A n \in DOMAIN t : n \in DOMAIN s \/ n = k
      /\ \A n \in DOMAIN s : n \in DOMAIN t /\ t[n] = s[n] /\ n < k /\ n \in Nat
      /\ (IF k = 1 THEN latest[i] ELSE t[k - 1].runs) = Said(s, i)
      /\ k \in Nat
      BY <1>t, <1>k, Added
<1>6. Ordered(t)
      <2> SUFFICES ASSUME NEW x \in DOMAIN t, NEW y \in DOMAIN t, x < y PROVE t[x].type = "progress"
          BY DEF Ordered
      <2>1. x \in DOMAIN s
            BY <1>5
      <2> QED BY <1>4, <1>5, <2>1
<1>7. Says(w)'
      <2>1. m.type = "done" => Final(t, k, i)
            BY <1>4, <1>5 DEF Final
      <2>2. \A n \in DOMAIN t : t[n].type = "progress" => t[n].of = i
            BY <1>4, <1>5
      <2>3. \A n \in DOMAIN t : t[n].type = "done" => Final(t, n, i)
            BY <1>4, <1>5, <2>1
      <2>4. \A n : Final(t, n, i)' = Final(t, n, i)
            BY <1>2 DEF Final
      <2> QED BY <1>1, <1>2, <1>3, <1>4, <2>2, <2>3, <2>4 DEF Says
<1>8. Told(w)'
      BY <1>2, <1>3, <1>4, <1>6, <1>7 DEF Told, UnderWay, Ordered
<1>9. Bidden(w)'
      BY <1>2, <1>3 DEF Bidden
<1> QED BY <1>2, <1>3, <1>8, <1>9, WorkersTally

LEMMA RunTally ==
    ASSUME Inv, Links, Tally, NEW w \in Workers, Run(w)
    PROVE  Tally'
<1>1. CASE RunChunk(w)
      BY <1>1, RunChunkTally
<1>2. CASE Return(w)
      <2> DEFINE m == Message("done", job[w], done[w], Stopped(w))
      <2>1. /\ m \in Messages /\ m.type = "done" /\ m.runs = done[w] /\ m.stopped = Stopped(w)
            BY Here DEF Messages, Message, Stopped
      <2>2. job[w] # None /\ Ends(w, m) /\ (Stopped(w) \/ done[w] = calls[job[w]].runs)
            BY <1>2 DEF Return
      <2>3. Stopped(w) => job[w] \in asked
            BY DEF Stopped, Tally, Bidden
      <2> HIDE DEF m
      <2> QED BY <2>1, <2>2, <2>3, EndsTally
<1>3. CASE Raise(w)
      <2>1. Failure(job[w]) \in Messages /\ Failure(job[w]).type = "error"
            BY Here DEF Messages, Message, Failure
      <2>2. job[w] # None /\ Ends(w, Failure(job[w]))
            BY <1>3 DEF Raise
      <2> QED BY <2>1, <2>2, EndsTally
<1> QED BY <1>1, <1>2, <1>3 DEF Run

LEMMA CrashTally ==
    ASSUME Inv, Links, Tally, NEW w \in Workers, Crash(w)
    PROVE  Tally'
<1>0. PICK s \in Seq(Messages) : s = toPage[w]
      BY Here
<1>1. PICK m \in Messages : m.type = "crash" /\ Post(w, m)
      <2>1. Message("crash", None, 0, FALSE) \in Messages /\ Message("crash", None, 0, FALSE).type = "crash"
            BY DEF Messages, Message, None
      <2> QED BY <2>1 DEF Crash
<1>2. PICK t : t = Append(s, m)
      OBVIOUS
<1>3. PICK k : k = Len(s) + 1
      OBVIOUS
<1>4. /\ UNCHANGED <<queue, flagged, calls, asked, current, phase, settled, outcome, latest, toWorker, job, done, stops>>
      /\ alive' = [alive EXCEPT ![w] = FALSE] /\ alive \in [Workers -> BOOLEAN] /\ toPage \in [Workers -> Seq(Messages)]
      /\ alive[w] /\ Told(w) /\ Bidden(w) /\ Silent(w)
      BY DEF Crash, poolVars, sideVars, callVars, Inv, Shapes, Tally, Links, Linked
<1>5. /\ toPage'[w] = t /\ ~alive'[w]
      /\ \A v \in Workers \ {w} : toPage'[v] = toPage[v] /\ alive'[v] = alive[v]
      BY <1>0, <1>1, <1>2, <1>4 DEF Post
<1>6. /\ t[k] = m /\ k \in Nat /\ \A n \in DOMAIN t : n \in DOMAIN s \/ n = k
      /\ \A n \in DOMAIN s : t[n] = s[n] /\ n < k /\ n \in Nat /\ (n # 1 => n - 1 \in DOMAIN s)
      BY <1>2, <1>3, Added
<1>7. Ordered(t)
      <2> SUFFICES ASSUME NEW x \in DOMAIN t, NEW y \in DOMAIN t, x < y
                   PROVE  t[x].type # "crash" /\ (t[x].type = "progress" \/ t[y].type = "crash")
          BY DEF Ordered
      <2>1. x \in DOMAIN s /\ t[x] = s[x] /\ s[x].type # "crash"
            BY <1>0, <1>4, <1>6 DEF Silent
      <2>2. CASE y = k
            BY <1>1, <1>6, <2>1, <2>2
      <2>3. CASE y \in DOMAIN s
            BY <1>0, <1>4, <1>6, <2>1, <2>3 DEF Told, Ordered
      <2> QED BY <1>6, <2>2, <2>3
<1>8. Says(w)'
      <2>1. ASSUME NEW n \in DOMAIN t
            PROVE  /\ t[n].type = "progress" => phase[w] = "running" /\ t[n].of = current[w]
                   /\ t[n].type = "done" => phase[w] = "handing" \/ (phase[w] = "running" /\ Final(t, n, current[w]))
            <3>1. CASE n = k
                  BY <1>1, <1>6, <3>1
            <3>2. CASE n \in DOMAIN s
                  <4>1. t[n] = s[n] /\ (n # 1 => t[n - 1] = s[n - 1])
                        BY <1>6, <3>2
                  <4>2. Final(s, n, current[w]) => Final(t, n, current[w])
                        BY <4>1 DEF Final
                  <4> QED BY <1>0, <1>4, <3>2, <4>1, <4>2 DEF Told, Says
            <3> QED BY <1>6, <3>1, <3>2
      <2>2. \A n : Final(t, n, current[w])' = Final(t, n, current[w])
            BY <1>4 DEF Final
      <2> QED BY <1>4, <1>5, <2>1, <2>2 DEF Says
<1>9. Told(w)' /\ Bidden(w)'
      BY <1>4, <1>5, <1>7, <1>8 DEF Told, Whole, Ordered, Bidden
<1> QED BY <1>4, <1>5, <1>9, WorkersTally

LEMMA StillTally ==
    ASSUME Tally,
           UNCHANGED <<queue, flagged, calls, asked, current, phase, settled, outcome, latest, toWorker, toPage,
                       alive, job, done, stops>>
    PROVE  Tally'
<1>1. ASSUME NEW v \in Workers PROVE Told(v)' /\ Bidden(v)'
      <2>1. Told(v) /\ Bidden(v) /\ Work(v)' = Work(v)
            BY DEF Tally, Work
      <2>2. Told(v)'
            BY <2>1, StillTold
      <2> QED BY <2>1, <2>2 DEF Bidden
<1>2. flagged' \subseteq asked' /\ asked \subseteq asked'
      BY DEF Tally
<1> QED BY <1>1, <1>2, KeptTally

-----------------------------------------------------------------------------
LEMMA InitTally ==
    Init => Tally
<1> SUFFICES ASSUME Init PROVE Tally
    OBVIOUS
<1>1. Once(queue, phase, current, calls)
      BY DEF Init, Once, Held, Fresh, Pending, Message
<1>2. Results /\ Grouped(calls) /\ Merged
      BY DEF Init, Results, Grouped, Merged
<1>3. ASSUME NEW w \in Workers PROVE Told(w) /\ Bidden(w)
      BY DEF Init, Told, Ordered, Says, UnderWay, Bidden
<1> QED BY <1>1, <1>2, <1>3 DEF Init, Tally

LEMMA NextTally ==
    ASSUME Inv, Links, Tally, [Next]_vars
    PROVE  Tally'
<1>1. CASE Use
      BY <1>1, JobTally, StreamTally, CancelTally DEF Use
<1>2. ASSUME NEW w \in Workers, Microtask(w) PROVE Tally'
      BY <1>2, HandModuleTally, MadeReadyTally, SettleTally, FreeTally DEF Microtask
<1>3. ASSUME NEW w \in Workers, Receive(w) \/ TakeMessage(w) \/ Run(w) \/ Crash(w) PROVE Tally'
      BY <1>3, ProgressTally, AnswerTally, TakeMessageTally, RunTally, CrashTally
<1>4. ASSUME NEW g \in Ids, StreamEnds(g) PROVE Tally'
      BY <1>4, StreamEndsTally
<1>5. CASE ModuleSettles
      BY <1>5, StillTally DEF ModuleSettles, poolVars, sideVars, workerVars, callVars
<1>6. CASE Rest \/ UNCHANGED vars
      BY <1>6, StillTally DEF Rest, vars, poolVars, sideVars, workerVars, callVars
<1> QED BY <1>1, <1>2, <1>3, <1>4, <1>5, <1>6 DEF Next

(* stream and mergeStreamResults (js/pool.js): what a stream resolves to   *)
(* is the sum of what its parts last reported, all that was asked for      *)
(* unless it says that it was stopped, and it says so only if a part of it *)
(* was cancelled.                                                          *)
THEOREM ShotsAreAddedUp ==
    Spec => []ShotsAddUp
<1>1. Inv /\ Links /\ Tally => ShotsAddUp
      <2> SUFFICES ASSUME Inv, Links, Tally, NEW g \in DOMAIN calls, calls[g].kind = "stream", outcome[g].type = "done"
                   PROVE  /\ outcome[g].runs = MapThenSumSet(LAMBDA p : latest[p], Parts(g))
                          /\ ~outcome[g].stopped => outcome[g].runs = calls[g].runs
                          /\ outcome[g].stopped => Parts(g) \cap asked # {}
          BY DEF ShotsAddUp
      <2>1. IsFiniteSet(Parts(g))
            BY DEF Tally, Grouped, Parts
      <2>2. MapThenSumSet(LAMBDA p : latest[p], Parts(g)) = Total(latest, Parts(g))
            BY <2>1, SumIsTotal
      <2> QED BY <2>2 DEF Tally, Merged
<1> QED BY <1>1, InitInv, NextInv, InitLinks, NextLinks, InitTally, NextTally, PTL DEF Spec
=============================================================================

--------------------------- MODULE CircuitEditor ----------------------------
(***************************************************************************)
(* The page's circuit editor: class EditorModel (js/editor.js), the clicks  *)
(* and buttons that change it (js/sections/editor.js) and the Crumble URL   *)
(* it is written to and read from (js/crumble-format.js).                  *)
(*                                                                         *)
(* A circuit is layers of operations.  A measurement makes records, which   *)
(* detectors, observables and controlled gates name by counting back from   *)
(* where they stand, so nearly every edit changes how the others must be   *)
(* written.  Each record has an id and each lookback the id of the record   *)
(* it was written for; no definition looks at an id but the properties.    *)
(*                                                                         *)
(* Gates stand for their kinds: H and S for the one-qubit Cliffords, CX for *)
(* the two-qubit ones and for feedback, M, MX and MR for measurements, MZZ   *)
(* for those of pairs, MPP for a product of Zs.  Text is its instructions.  *)
(***************************************************************************)
EXTENDS Integers, Sequences, FiniteSets, SequencesExt

CONSTANTS
    Examples,     \* circuits that can be picked, as sequences of instructions
    Urls,         \* Crumble URLs from elsewhere, as sequences of items
    Tools,        \* the one-qubit gates of the palette that are placed
    MarkTools,    \* the Paulis that are placed as markers
    MaxQubit,     \* bound: the highest qubit an added one may have
    MaxLayers,    \* bound: the layers that are added to
    MaxEdits      \* bound: the edits after a circuit is picked

VARIABLES
    layers,    \* sequences of operations
    coords,    \* the qubits with coordinates
    markers,   \* Paulis placed before layers
    layer,     \* the layer that is shown
    pendingQubit,  \* the first qubit of a two-qubit gate, or NoQubit
    fresh,     \* the next id
    edits      \* the edits so far

editorVars == <<layers, coords, markers, layer, pendingQubit, fresh, edits>>

NoQubit == -1
Gone == -1

OnQubit(q, id)  == [back |-> FALSE, n |-> q, id |-> id]
Lookback(k, id) == [back |-> TRUE, n |-> k, id |-> id]

(* The sequence itself: TLC evaluates a concatenation at once.             *)
Built(s) == <<>> \o s

Op(name, targets) == [name |-> name, targets |-> Built(targets)]
TickOp == Op("TICK", <<>>)
Mark(pauli, q) == [name |-> "MARK", pauli |-> pauli, qubit |-> q]

OneQubit == {"H", "S", "M", "MX", "MR", "R"}
Paired   == {"CX", "MZZ"}
Measures == {"M", "MX", "MR"}
Annotations == {"DETECTOR", "OBSERVABLE_INCLUDE"}
OnlyWhole == Annotations \cup {"MPP"}

-----------------------------------------------------------------------------
(***************************************************************************)
(* Records: recordsMade, _recordStarts.                                    *)
(***************************************************************************)
(* The ids of the records that an operation makes, in order.               *)
RecordIds(op) ==
    CASE op.name \in Measures -> [j \in DOMAIN op.targets |-> op.targets[j].id]
      [] op.name = "MZZ"      -> [j \in 1 .. Len(op.targets) \div 2 |-> op.targets[2 * j - 1].id]
      [] op.name = "MPP"      -> <<op.targets[1].id>>
      [] OTHER                -> <<>>

RecordsMade(op) == Len(RecordIds(op))

RecordsOf(ops) == FlattenSeq([i \in DOMAIN ops |-> RecordIds(ops[i])])
Records(ls) == RecordsOf(FlattenSeq(ls))
Numbers(ls) == 0 .. Len(Records(ls)) - 1

(* The records made before the i-th operation of layer L.                  *)
Start(ls, L, i) == Len(Records(SubSeq(ls, 1, L - 1))) + Len(RecordsOf(SubSeq(ls[L], 1, i - 1)))

ActsOn(op, q) == \E j \in DOMAIN op.targets : ~op.targets[j].back /\ op.targets[j].n = q

(***************************************************************************)
(* _recordRefs and _rewriteRecordRefs: the lookbacks as the records they    *)
(* name, numbered from the start, and back again through an edit's map     *)
(* from old numbers to new ones.  A pair that lost its record goes, and an  *)
(* operation with nothing left.                                            *)
(***************************************************************************)
Absolute(ls) ==
    Built([L \in DOMAIN ls |-> Built([i \in DOMAIN ls[L] |->
        LET op == ls[L][i]
            at == Start(ls, L, i)
        IN  Op(op.name, [j \in DOMAIN op.targets |->
                LET t == op.targets[j] IN IF t.back THEN Lookback(at - t.n, t.id) ELSE t])])])

Replaced(s, i, e) == InsertAt(RemoveAt(s, i), i, e)

Pairs(targets) == [j \in 1 .. Len(targets) \div 2 |-> <<targets[2 * j - 1], targets[2 * j]>>]

Rewritten(op, at, remap) ==
    LET Alive(t) == t.back => remap[t.n] # Gone
        Kept == IF op.name = "CX"
                  THEN FlattenSeq(SelectSeq(Pairs(op.targets), LAMBDA p : Alive(p[1]) /\ Alive(p[2])))
                  ELSE SelectSeq(op.targets, Alive)
    IN  Op(op.name, [j \in DOMAIN Kept |->
            LET t == Kept[j] IN IF t.back THEN Lookback(at - remap[t.n], t.id) ELSE t])

Relative(ls, remap) ==
    Built([L \in DOMAIN ls |->
        SelectSeq([i \in DOMAIN ls[L] |-> Rewritten(ls[L][i], Start(ls, L, i), remap)],
                  LAMBDA op : op.targets # <<>>)])

-----------------------------------------------------------------------------
(***************************************************************************)
(* removeOn: what an operation keeps when everything on q goes.  Products   *)
(* and annotations go as a whole, the others lose their pairs or targets.  *)
(***************************************************************************)
KeptTargets(op, q) ==
    CASE op.name \in OnlyWhole -> <<>>
      [] op.name \in Paired ->
            FlattenSeq(SelectSeq(Pairs(op.targets),
                LAMBDA p : \A t \in {p[1], p[2]} : t.back \/ t.n # q))
      [] OTHER -> SelectSeq(op.targets, LAMBDA t : t.back \/ t.n # q)

(* Mutant of LostRecords: one target that goes takes all the records.      *)
LostAll(op, q) == IF ActsOn(op, q) THEN 0 .. RecordsMade(op) - 1 ELSE {}

(* The records it loses, counted among its own from 0.                     *)
LostRecords(op, q) ==
    CASE op.name = "MPP" -> {0}
      [] op.name = "MZZ" -> {j \in 0 .. Len(op.targets) \div 2 - 1 :
                                q \in {op.targets[2 * j + 1].n, op.targets[2 * j + 2].n}}
      [] op.name \in Measures -> {j \in 0 .. Len(op.targets) - 1 : op.targets[j + 1].n = q}
      [] OTHER -> {}

RemoveFrom(ls, L, i, q) ==
    LET abs  == Absolute(ls)
        op   == abs[L][i]
        kept == KeptTargets(op, q)
        base == Start(ls, L, i)
        lost == LostRecords(op, q)
        remap == [a \in Numbers(ls) |->
            IF a < base THEN a
            ELSE IF a < base + RecordsMade(op)
                   THEN IF a - base \in lost THEN Gone
                        ELSE a - Cardinality({j \in lost : j < a - base})
                   ELSE a - Cardinality(lost)]
    IN  IF ~ActsOn(op, q) THEN ls
        ELSE Relative(IF kept = <<>> THEN Replaced(abs, L, RemoveAt(abs[L], i))
                                     ELSE Replaced(abs, L, Replaced(abs[L], i, Op(op.name, kept))),
                      remap)

RemoveOn(ls, L, q) ==
    FoldLeft(LAMBDA s, i : RemoveFrom(s, L, i, q), ls, Reverse([i \in DOMAIN ls[L] |-> i]))

(***************************************************************************)
(* place: the gate replaces what its qubits had; it joins an operation of   *)
(* its name, or goes before the layer's annotations.                       *)
(***************************************************************************)
Inserted(ls, L) ==
    LET i == SelectInSeq(ls[L], LAMBDA o : o.name \in Annotations)
    IN  IF i = 0 THEN Len(ls[L]) + 1 ELSE i

(* Mutant of Later: the record that is now number at does not move.        *)
LaterButOne(a, at, made) == IF a <= at THEN a ELSE a + made

(* The new number of the record a once made more are made from number at.   *)
Later(a, at, made) == IF a < at THEN a ELSE a + made

Place(ls, L, name, targets) ==
    LET cleared == FoldLeft(LAMBDA s, t : RemoveOn(s, L, t.n), ls, targets)
        abs     == Absolute(cleared)
        same    == SelectInSeq(abs[L], LAMBDA op : op.name = name /\ name \notin Paired)
        i       == IF same # 0 THEN same ELSE Inserted(cleared, L)
        from    == Start(cleared, L, i) + IF same # 0 THEN RecordsMade(abs[L][i]) ELSE 0
        made    == RecordsMade(Op(name, targets))
        moved   == [a \in Numbers(cleared) |-> Later(a, from, made)]
    IN  Relative(IF same # 0 THEN Replaced(abs, L, Replaced(abs[L], i, Op(name, abs[L][i].targets \o targets)))
                             ELSE Replaced(abs, L, InsertAt(abs[L], i, Op(name, targets))),
                 moved)

DeleteLayer(ls, L) ==
    LET at      == Start(ls, L, 1)
        removed == Len(RecordsOf(ls[L]))
        remap == [a \in Numbers(ls) |-> IF a < at THEN a ELSE IF a < at + removed THEN Gone ELSE a - removed]
    IN  IF Len(ls) <= 1 THEN <<<<>>>>
        ELSE Relative(RemoveAt(Absolute(ls), L), remap)

-----------------------------------------------------------------------------
(***************************************************************************)
(* propagate: a marker moves forward through the gates as a Pauli on each   *)
(* qubit, flips the records that anticommute with it, and passes through    *)
(* feedback on a record it flipped.                                        *)
(***************************************************************************)
Axes  == {"x", "z"}
FrameCells == (0 .. MaxQubit) \X Axes
I == {}
X == {"x"}
Z == {"z"}
Times(p, r) == {c \in p \cup r : ~(c \in p /\ c \in r)}
Anticommute(p, r) == ("x" \in p /\ "z" \in r) # ("z" \in p /\ "x" \in r)
IsOdd(S) == Cardinality(S) % 2 = 1

(* A frame is the cells of its qubits' Paulis.                             *)
PauliOn(frame, q) == {a \in Axes : <<q, a>> \in frame}

Basis(name) == IF name = "MX" THEN X ELSE Z

(* A Clifford's image of a Pauli, without its sign.                        *)
Image(name, p) ==
    CASE name = "H" -> {IF a = "x" THEN "z" ELSE "x" : a \in p}
      [] name = "S" -> IF "x" \in p THEN Times(p, Z) ELSE p
      [] OTHER      -> p

CxImage(frame, a, b) ==
    Times(frame, ({b} \X (PauliOn(frame, a) \cap X)) \cup ({a} \X (PauliOn(frame, b) \cap Z)))

QubitsOf(ls, cs) ==
    cs \cup {t.n : t \in UNION {ToSet(op.targets) : op \in ToSet(FlattenSeq(ls))}
                        \cap [back : {FALSE}, n : 0 .. MaxQubit, id : Nat]}

(* One gate: s is the frame, the records flipped and the records made.     *)
Through(s, op) ==
    LET T == op.targets
        Local(q) ==
            IF ~ActsOn(op, q) THEN PauliOn(s.frame, q)
            ELSE IF op.name \in {"R", "MR"} THEN I ELSE Image(op.name, PauliOn(s.frame, q))
        Flipped(k) ==
            LET Seen(j) == Anticommute(PauliOn(s.frame, T[j].n), Basis(op.name))
            IN  CASE op.name = "MZZ" -> Seen(2 * k - 1) # Seen(2 * k)
                  [] op.name = "MPP" -> IsOdd({j \in DOMAIN T : Seen(j)})
                  [] OTHER           -> Seen(k)
        Linked(f, p) ==
            IF ~p[1].back THEN CxImage(f, p[1].n, p[2].n)
            ELSE IF s.made - p[1].n \in s.flips THEN Times(f, {p[2].n} \X X) ELSE f
    IN  [frame |-> IF op.name = "CX" THEN FoldLeft(Linked, s.frame, Pairs(T)) ELSE {c \in FrameCells : c[2] \in Local(c[1])},
         flips |-> s.flips \cup {s.made + k - 1 : k \in {k \in 1 .. RecordsMade(op) : Flipped(k)}},
         made  |-> s.made + RecordsMade(op)]

(* What the marker m flips: it stands before its layer's gates.            *)
Flips(ls, m) ==
    FoldLeft(Through,
             [frame |-> {m.qubit} \X m.pauli, flips |-> {},
              made |-> Len(Records(SubSeq(ls, 1, m.layer - 1)))],
             FlattenSeq(SubSeq(ls, m.layer, Len(ls)))).flips

(* annotationsOf: an annotation is the set of records it names.            *)
NamedBy(op) == {op.targets[j].n : j \in DOMAIN op.targets}
Annotation(ls, name) ==
    LET ops == FlattenSeq(Absolute(ls)) IN SelectSeq(ops, LAMBDA op : op.name = name)

(* The detectors that m flips, and whether it flips the observable: that is *)
(* the parity of all its includes.                                         *)
DetFlips(ls, m) ==
    LET f == Flips(ls, m)
        D == Annotation(ls, "DETECTOR")
    IN  {j \in DOMAIN D : IsOdd(NamedBy(D[j]) \cap f)}

(* Mutant of ObsFlipped: each flipped include flips the observable.        *)
ObsFlippedByAny(ls, m) ==
    \E op \in ToSet(Annotation(ls, "OBSERVABLE_INCLUDE")) : IsOdd(NamedBy(op) \cap Flips(ls, m))

ObsFlipped(ls, m) ==
    LET f == Flips(ls, m)
        O == Annotation(ls, "OBSERVABLE_INCLUDE")
    IN  IsOdd({j \in DOMAIN O : IsOdd(NamedBy(O[j]) \cap f)})

-----------------------------------------------------------------------------
(***************************************************************************)
(* Text and URLs: circuitOf and layersOf, toCrumbleUrl and parseCrumbleUrl. *)
(* The coordinates are instructions of their own, before the rest.         *)
(***************************************************************************)
CircuitOf(ls) ==
    FlattenSeq([L \in DOMAIN ls |-> (IF L > 1 THEN <<TickOp>> ELSE <<>>) \o ls[L]])

(* The layers between the TICKs; an empty one at the end is dropped.       *)
LayersOf(ops) ==
    LET cuts  == <<0>> \o SelectSeq([i \in DOMAIN ops |-> i], LAMBDA i : ops[i] = TickOp)
                       \o <<Len(ops) + 1>>
        split == [L \in 1 .. Len(cuts) - 1 |-> SubSeq(ops, cuts[L] + 1, cuts[L + 1] - 1)]
    IN  IF Len(split) > 1 /\ Last(split) = <<>> THEN Front(split) ELSE split

(* A marker goes before its layer's first instruction, which in an empty    *)
(* layer is the TICK that closes it; or at the end.                        *)
Anchor(ops, L) ==
    LET at == {i \in DOMAIN ops : Cardinality({j \in 1 .. i - 1 : ops[j] = TickOp}) = L - 1}
    IN  IF at = {} THEN Len(ops) + 1 ELSE CHOOSE i \in at : \A j \in at : i <= j

(* The markers are written between two TICKs of their own.                 *)
ToCrumbleUrl(ls, ms) ==
    LET ops == CircuitOf(ls)
        MarksAt(i) == LET here == {m \in ms : Anchor(ops, m.layer) = i}
                      IN  IF here = {} THEN <<>>
                          ELSE <<TickOp>> \o SetToSeq({Mark(m.pauli, m.qubit) : m \in here}) \o <<TickOp>>
    IN  FlattenSeq([i \in DOMAIN ops |-> Append(MarksAt(i), ops[i])]) \o MarksAt(Len(ops) + 1)

IsMark(item) == item.name = "MARK"

(* parseCrumbleUrl: the instructions, and each marker with the instruction  *)
(* it stands before.                                                       *)
ParsedOps(items) == SelectSeq(items, LAMBDA item : ~IsMark(item))
ParsedMarks(items) ==
    {[pauli |-> items[i].pauli, qubit |-> items[i].qubit,
      before |-> Len(ParsedOps(SubSeq(items, 1, i))) + 1] : i \in {i \in DOMAIN items : IsMark(items[i])}}

(* Mutant of StripMarkTicks: the TICKs around marks stay.                  *)
KeepMarkTicks(ops, marks) == [ops |-> ops, marks |-> marks]

(* stripMarkTicks: two TICKs with marks between them go.                   *)
StripMarkTicks(ops, marks) ==
    LET Opens(k) == /\ k \in 1 .. Len(ops) - 1
                    /\ ops[k] = TickOp /\ ops[k + 1] = TickOp
                    /\ \E m \in marks : m.before = k + 1
        \* a TICK that closes a pair opens no other
        opening == FoldLeft(LAMBDA S, k : IF Opens(k) /\ k - 1 \notin S THEN S \cup {k} ELSE S,
                            {}, [k \in DOMAIN ops |-> k])
        stripped == {k \in DOMAIN ops : k \in opening \/ k - 1 \in opening}
        NewIndex(k) == k - Cardinality({j \in stripped : j < k})
    IN  [ops |-> LET left == SelectSeq([k \in DOMAIN ops |-> k], LAMBDA k : k \notin stripped)
                 IN  [n \in DOMAIN left |-> ops[left[n]]],
         marks |-> {[m EXCEPT !.before = NewIndex(@)] : m \in marks}]

(* fromCrumbleUrl: a mark inside a layer splits it; one before a TICK comes *)
(* after that layer's gates, one at the end after everything, and in both  *)
(* cases no later than the last layer there is.                            *)
Splits(ops, marks) ==
    FoldLeft(LAMBDA s, i :
               LET tick == ops[i] = TickOp
                   cut  == ~tick /\ s.count > 0 /\ \E m \in marks : m.before = i
                   L    == IF cut THEN s.L + 1 ELSE s.L
               IN  [ops     |-> s.ops \o (IF cut THEN <<TickOp>> ELSE <<>>) \o <<ops[i]>>,
                    layerAt |-> Append(s.layerAt, IF tick /\ s.count > 0 THEN L + 1 ELSE L),
                    L       |-> IF tick THEN L + 1 ELSE L,
                    count   |-> IF tick THEN 0 ELSE IF cut THEN 1 ELSE s.count + 1],
             [ops |-> <<>>, layerAt |-> <<>>, L |-> 1, count |-> 0],
             [i \in DOMAIN ops |-> i])

Placed(marks, layerAt, last) ==
    {[pauli |-> m.pauli, qubit |-> m.qubit,
      layer |-> IF layerAt[m.before] > last THEN last ELSE layerAt[m.before]] : m \in marks}

FromCrumbleUrl(items) ==
    LET read == StripMarkTicks(ParsedOps(items), ParsedMarks(items))
        s    == Splits(read.ops, read.marks)
        ls   == LayersOf(s.ops)
        end  == IF s.count > 0 THEN s.L + 1 ELSE s.L
    IN  [layers |-> ls, markers |-> Placed(read.marks, Append(s.layerAt, end), Len(ls))]

-----------------------------------------------------------------------------
(***************************************************************************)
(* The buttons and clicks.  render() after each keeps the shown layer among *)
(* those there are; the text and the URL are always the circuit's.         *)
(***************************************************************************)
Show(ls, L) == layer' = IF L > Len(ls) THEN Len(ls) ELSE L

EditorInit ==
    /\ \E e \in Examples : layers = LayersOf(e.ops) /\ coords = e.coords
    /\ markers = {}
    /\ layer = 1
    /\ pendingQubit = NoQubit
    /\ fresh = 100
    /\ edits = 0

(* An edit of the circuit, of which ls is the result.                      *)
Edit(ls) ==
    /\ edits < MaxEdits
    /\ edits' = edits + 1
    /\ layers' = ls
    /\ Show(ls, layer)

OnGrid(q) == q \in QubitsOf(layers, coords)

Erase(q) ==
    /\ OnGrid(q)
    /\ Edit(RemoveOn(layers, layer, q))
    /\ markers' = {m \in markers : ~(m.qubit = q /\ m.layer = layer)}
    /\ pendingQubit' = NoQubit
    /\ UNCHANGED <<coords, fresh>>

PlaceOne(q, name) ==
    /\ OnGrid(q)
    /\ Edit(Place(layers, layer, name, <<OnQubit(q, fresh)>>))
    /\ pendingQubit' = NoQubit
    /\ fresh' = fresh + 1
    /\ UNCHANGED <<coords, markers>>

FirstOfPair(q) ==
    /\ OnGrid(q)
    /\ pendingQubit = NoQubit
    /\ pendingQubit' = q
    /\ UNCHANGED <<layers, coords, markers, layer, fresh, edits>>

SecondOfPair(q) ==
    /\ OnGrid(q)
    /\ pendingQubit # NoQubit
    /\ IF q = pendingQubit THEN UNCHANGED <<layers, layer, edits>>
       ELSE Edit(Place(layers, layer, "CX", <<OnQubit(pendingQubit, fresh), OnQubit(q, fresh)>>))
    /\ pendingQubit' = NoQubit
    /\ UNCHANGED <<coords, markers, fresh>>

(* Choosing a tool, or a layer.                                            *)
LetGo(L) ==
    /\ layer' = L
    /\ pendingQubit' = NoQubit
    /\ UNCHANGED <<layers, coords, markers, fresh, edits>>

(* toggleMarker: the same Pauli again takes it away, another replaces it.   *)
ToggleMarker(q, pauli) ==
    LET here == {m \in markers : m.qubit = q /\ m.layer = layer}
        new  == [pauli |-> pauli, qubit |-> q, layer |-> layer]
    IN  /\ OnGrid(q)
        /\ markers' = (markers \ here) \cup (IF new \in markers THEN {} ELSE {new})
        /\ edits < MaxEdits
        /\ edits' = edits + 1
        /\ pendingQubit' = NoQubit
        /\ UNCHANGED <<layers, coords, layer, fresh>>

(* recordsIn: the newest record of this layer that is on q, counted back    *)
(* from the layer's end.                                                   *)
RecordsOn(op, q) ==
    CASE op.name \in Measures -> {op.targets[j].id : j \in {j \in DOMAIN op.targets : op.targets[j].n = q}}
      [] op.name = "MZZ" -> {p[1].id : p \in {p \in ToSet(Pairs(op.targets)) : p[1].n = q}}
      [] op.name = "MPP" -> IF op.targets[1].n = q THEN {op.targets[1].id} ELSE {}
      [] OTHER -> {}

NewestOn(q) ==
    LET ids == UNION {RecordsOn(layers[layer][i], q) : i \in DOMAIN layers[layer]}
    IN  SelectLastInSeq(RecordsOf(layers[layer]), LAMBDA id : id \in ids)

(* addDetector: at the layer's end, naming that record.                    *)
Annotate(q, name) ==
    LET i    == NewestOn(q)
        made == RecordsOf(layers[layer])
    IN  /\ OnGrid(q)
        /\ i # 0
        /\ Edit([layers EXCEPT ![layer] = Append(@, Op(name, <<Lookback(Len(made) + 1 - i, made[i])>>))])
        /\ pendingQubit' = NoQubit
        /\ UNCHANGED <<coords, markers, fresh>>

AddLayer ==
    /\ Len(layers) < MaxLayers
    /\ edits < MaxEdits
    /\ edits' = edits + 1
    /\ layers' = InsertAt(layers, layer + 1, <<>>)
    /\ markers' = {IF m.layer > layer THEN [m EXCEPT !.layer = @ + 1] ELSE m : m \in markers}
    /\ layer' = layer + 1
    /\ UNCHANGED <<coords, pendingQubit, fresh>>

(* deleteLayer: a marker of the layer goes to the next one, or goes.       *)
DelLayer ==
    LET ls    == DeleteLayer(layers, layer)
        moved == {IF m.layer > layer THEN [m EXCEPT !.layer = @ - 1] ELSE m : m \in markers}
    IN  /\ Edit(ls)
        /\ markers' = IF Len(layers) <= 1 THEN markers ELSE {m \in moved : m.layer <= Len(ls)}
        /\ UNCHANGED <<coords, pendingQubit, fresh>>

AddQubit ==
    LET q == Max(QubitsOf(layers, coords) \cup {-1}) + 1
    IN  /\ q <= MaxQubit
        /\ coords' = coords \cup {q}
        /\ UNCHANGED <<layers, markers, layer, pendingQubit, fresh, edits>>

ClearMarks ==
    /\ markers' = {}
    /\ UNCHANGED <<layers, coords, layer, pendingQubit, fresh, edits>>

(* Load: what the text says, which has no markers.                         *)
LoadText ==
    /\ layers' = LayersOf(CircuitOf(layers))
    /\ markers' = {}
    /\ Show(layers', layer)
    /\ pendingQubit' = NoQubit
    /\ UNCHANGED <<coords, fresh, edits>>

LoadUrl(items) ==
    LET m == FromCrumbleUrl(items)
    IN  /\ layers' = m.layers
        /\ markers' = m.markers
        /\ layer' = 1
        /\ pendingQubit' = NoQubit
        /\ UNCHANGED <<coords, fresh, edits>>

Pick(e) ==
    /\ layers' = LayersOf(e.ops)
    /\ coords' = e.coords
    /\ markers' = {}
    /\ layer' = 1
    /\ pendingQubit' = NoQubit
    /\ UNCHANGED <<fresh, edits>>

EditorNext ==
    \/ \E q \in 0 .. MaxQubit :
          \/ Erase(q) \/ FirstOfPair(q) \/ SecondOfPair(q)
          \/ \E name \in Tools : PlaceOne(q, name)
          \/ \E pauli \in MarkTools : ToggleMarker(q, pauli)
          \/ \E name \in Annotations : Annotate(q, name)
    \/ \E L \in DOMAIN layers : LetGo(L)
    \/ AddLayer \/ DelLayer \/ AddQubit \/ ClearMarks \/ LoadText
    \/ \E items \in Urls \cup {ToCrumbleUrl(layers, markers)} : LoadUrl(items)
    \/ \E e \in Examples : Pick(e)

EditorSpec == EditorInit /\ [][EditorNext]_editorVars

-----------------------------------------------------------------------------
(* Whatever is placed, erased, inserted, deleted or loaded, each rec[-k]    *)
(* counts back to the measurement that it was written for.                 *)
NamesItsRecord ==
    LET made == Records(layers)
    IN  \A L \in DOMAIN layers : \A i \in DOMAIN layers[L] :
            \A t \in ToSet(layers[L][i].targets) : t.back =>
                LET at == Start(layers, L, i) - t.n + 1 IN at > 0 /\ made[at] = t.id

(* What each detector and observable names, in order.                      *)
Named(ls) ==
    LET ops == SelectSeq(FlattenSeq(ls), LAMBDA op : op.name \in Annotations)
    IN  [i \in DOMAIN ops |-> {t.id : t \in ToSet(ops[i].targets)}]

(* An edit takes from a detector or an observable the records that it       *)
(* removes and nothing else: what is left of each is still there, unless    *)
(* its layer is deleted.                                                   *)
LosesOnlyTheGone ==
    LET left == ToSet(Records(layers'))
        Survives(ls) == \A i \in DOMAIN Named(ls) :
                            Named(ls)[i] \cap left \in ToSet(Named(layers')) \cup {{}}
    IN  IF Len(layers') < Len(layers) THEN \E L \in DOMAIN layers : Survives(RemoveAt(layers, L))
        ELSE Survives(layers)

EditsKeepNames == [][edits' # edits => LosesOnlyTheGone]_editorVars

(* Crumble's detecting regions: what reaches a detector's records, followed *)
(* backwards from the end.  A Pauli flips the detector where it does not    *)
(* commute with the region.                                                *)
Backwards(op, s) ==
    LET T == op.targets
        base == s.made - RecordsMade(op)
        Seen(q) == IsOdd({k \in 1 .. RecordsMade(op) : base + k - 1 \in s.recs /\
                          CASE op.name = "MZZ" -> q \in {T[2 * k - 1].n, T[2 * k].n}
                            [] op.name = "MPP" -> ActsOn(op, q)
                            [] OTHER -> T[k].n = q})
        Local(q) ==
            LET before == IF ~ActsOn(op, q) THEN PauliOn(s.frame, q)
                          ELSE IF op.name \in {"R", "MR"} THEN I ELSE Image(op.name, PauliOn(s.frame, q))
            IN  IF Seen(q) THEN Times(before, Basis(op.name)) ELSE before
        Linked(r, p) ==
            IF ~p[1].back THEN [r EXCEPT !.frame = CxImage(@, p[1].n, p[2].n)]
            ELSE IF "z" \in PauliOn(r.frame, p[2].n)
                   THEN [r EXCEPT !.recs = Times(@, {s.made - p[1].n})] ELSE r
    IN  IF op.name = "CX" THEN FoldRight(LAMBDA p, r : Linked(r, p), Pairs(T), s)
        ELSE [frame |-> {c \in FrameCells : c[2] \in Local(c[1])}, recs  |-> s.recs, made  |-> base]

Region(ls, recs, L) ==
    FoldRight(Backwards, FlattenSeq(SubSeq(ls, L, Len(ls))),
              [frame |-> {}, recs |-> recs, made |-> Len(Records(ls))]).frame

Hit(ls, recs, m) == Anticommute(m.pauli, PauliOn(Region(ls, recs, m.layer), m.qubit))

FlipsAreRegions ==
    LET D == Annotation(layers, "DETECTOR")
        O == Annotation(layers, "OBSERVABLE_INCLUDE")
        observable == {r \in UNION {NamedBy(O[j]) : j \in DOMAIN O} :
                           IsOdd({j \in DOMAIN O : r \in NamedBy(O[j])})}
    IN  \A m \in markers :
          /\ DetFlips(layers, m) = {j \in DOMAIN D : Hit(layers, NamedBy(D[j]), m)}
          /\ ObsFlipped(layers, m) <=> Hit(layers, observable, m)

(* The circuit's URL, read back, is the same circuit with the same markers, *)
(* but for an empty layer at the end and the markers on it.                *)
UrlReadsBack ==
    LET back  == FromCrumbleUrl(ToCrumbleUrl(layers, markers))
        empty == Len(layers) > 1 /\ Last(layers) = <<>>
        inner == {m \in markers : empty => m.layer < Len(layers)}
    IN  /\ back.layers = (IF empty THEN Front(layers) ELSE layers)
        /\ inner \subseteq back.markers
        /\ inner = markers => back.markers = markers
=============================================================================

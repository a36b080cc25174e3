------------------------- MODULE TableUpdatesProofs -------------------------
(***************************************************************************)
(* Invariance proofs for TableUpdates, for any tables, any size of the     *)
(* batches and of the chunks they are drawn in, and every environment.     *)
(***************************************************************************)
EXTENDS TableUpdates, FiniteSetTheorems, TLAPS

-----------------------------------------------------------------------------
(* Chunks, and sequences of cells *)

\* The first chunk and the rest are what there was to draw.
LEMMA ChunkAndRest ==
    ASSUME NEW S, NEW refs \in Seq(S)
    PROVE  /\ Chunk(refs) \in Seq(S) /\ Rest(refs) \in Seq(S)
           /\ Range(refs) \subseteq Range(Chunk(refs)) \cup Range(Rest(refs))
           /\ Range(Chunk(refs)) \subseteq S
  <1> DEFINE n == Len(refs)
             B == BatchSize
  <1>1. n \in Nat /\ B \in Nat /\ B > 0 /\ DOMAIN refs = 1..n
    BY TableAssumption
  <1>2. CASE n <= B
    <2>1. Chunk(refs) = refs
      BY <1>2 DEF Chunk
    <2>2. Rest(refs) = <<>>
      BY <1>1, <1>2 DEF Rest
    <2>3. QED BY <2>1, <2>2 DEF Range
  <1>3. CASE n > B
    <2>1. Chunk(refs) = SubSeq(refs, 1, B)
      BY <1>1, <1>3 DEF Chunk
    <2>2. /\ Chunk(refs) \in Seq(S) /\ DOMAIN Chunk(refs) = 1..B
          /\ \A k \in 1..B : Chunk(refs)[k] = refs[k]
      BY <1>1, <1>3, <2>1
    <2>3. /\ Rest(refs) \in Seq(S) /\ DOMAIN Rest(refs) = 1..(n - B)
          /\ \A k \in 1..(n - B) : Rest(refs)[k] = refs[B + k]
      BY <1>1, <1>3 DEF Rest
    <2>4. ASSUME NEW k \in 1..n
          PROVE  refs[k] \in Range(Chunk(refs)) \cup Range(Rest(refs))
      <3>1. CASE k <= B
        <4>1. k \in DOMAIN Chunk(refs) /\ Chunk(refs)[k] = refs[k]
          BY <1>1, <2>2, <3>1
        <4>2. QED BY <4>1 DEF Range
      <3>2. CASE k > B
        <4>1. k - B \in DOMAIN Rest(refs) /\ Rest(refs)[k - B] = refs[k]
          BY <1>1, <2>3, <3>2
        <4>2. QED BY <4>1 DEF Range
      <3>3. QED BY <1>1, <3>1, <3>2
    <2>5. Range(refs) \subseteq Range(Chunk(refs)) \cup Range(Rest(refs))
      <3> SUFFICES ASSUME NEW e \in Range(refs)
                   PROVE  e \in Range(Chunk(refs)) \cup Range(Rest(refs))
        OBVIOUS
      <3>1. PICK k \in 1..n : refs[k] = e
        BY <1>1 DEF Range
      <3>2. QED BY <2>4, <3>1
    <2>6. Range(Chunk(refs)) \subseteq S
      BY <1>1, <1>3, <2>2 DEF Range
    <2>7. QED BY <2>2, <2>3, <2>5, <2>6
  <1>4. QED BY <1>1, <1>2, <1>3

\* The cells of a table are finitely many.
LEMMA CellsFinite ==
    ASSUME NEW t \in Tables
    PROVE  IsFiniteSet(Cells(t))
  <1>1. ASSUME NEW S, NEW s \in Seq(S)
        PROVE  IsFiniteSet(Range(s))
    <2>1. DOMAIN s = 1..Len(s) /\ Len(s) \in Nat /\ s \in [1..Len(s) -> Range(s)]
      BY <1>1 DEF Range
    <2>2. IsFiniteSet(1..Len(s))
      BY <2>1, FS_Interval
    <2>3. s \in Surjection(1..Len(s), Range(s))
      BY <2>1 DEF Surjection, Range
    <2>4. QED BY <2>1, <2>3, FS_NatSurjection DEF ExistsSurjection
  <1>2. IsFiniteSet(Range(t.rows)) /\ IsFiniteSet(Range(t.cols))
    BY <1>1, TableAssumption
  <1>3. QED BY <1>2, FS_Product DEF Cells

\* All cells of a table in one batch, as DataTableController pushes them.
LEMMA AllCells ==
    ASSUME NEW t \in Tables
    PROVE  SetToSeq(Cells(t)) \in Seq(Cells(t))
  <1> DEFINE S == Cells(t)
             n == Cardinality(S)
  <1>1. n \in Nat /\ ExistsBijection(1..n, S)
    BY CellsFinite, FS_CardinalityType
  <1>2. PICK f : f \in Bijection(1..n, S)
    BY <1>1 DEF ExistsBijection
  <1>3. f \in [1..n -> S] /\ IsInjective(f)
    BY <1>2 DEF Bijection, Injection
  <1> HIDE DEF S, n
  <1>4. (CHOOSE g \in [1..n -> S] : IsInjective(g)) \in [1..n -> S]
    BY <1>3
  <1>5. SetToSeq(S) \in [1..n -> S]
    BY <1>4 DEF SetToSeq, n
  <1>6. QED BY <1>1, <1>5 DEF S

\* When the td elements are those of the table, every cell of it has one.
LEMMA EveryCellHasElement ==
    ASSUME TypeOK, drawn = table, NEW c \in Cells(table)
    PROVE  HasElement(c)
  <1> DEFINE i == CHOOSE i \in DOMAIN table.rows : table.rows[i] = c[1]
             j == CHOOSE j \in DOMAIN table.cols : table.cols[j] = c[2]
             R == Len(table.rows)
             L == Len(table.cols)
  <1>1. /\ table.rows \in Seq(Range(table.rows)) /\ table.cols \in Seq(Range(table.cols))
        /\ c[1] \in Range(table.rows) /\ c[2] \in Range(table.cols)
    BY TableAssumption DEF TypeOK, Cells
  <1>2. R \in Nat /\ L \in Nat /\ DOMAIN table.rows = 1..R /\ DOMAIN table.cols = 1..L
    BY <1>1
  <1>3. i \in 1..R /\ j \in 1..L
    BY <1>1, <1>2 DEF Range
  <1>4. Position(table, c) = i * L + j - L
    BY DEF Position
  <1> HIDE DEF i, j, R, L
  <1>5. i * L <= R * L
    BY <1>2, <1>3
  <1>6. i * L + j - L <= R * L
    <2>1. i * L \in Int /\ R * L \in Int
      BY <1>2, <1>3
    <2>2. QED BY <1>2, <1>3, <1>5, <2>1
  <1>7. QED BY <1>4, <1>6 DEF HasElement, R, L

-----------------------------------------------------------------------------
(* The inductive invariant *)

Entries == [is : {"null", "pending", "cell"}, value : Values \cup {None}, updating : BOOLEAN]
Shows == [value : Values \cup {None}, updating : BOOLEAN]

\* No placeholder is among the data.
NoPlaceholder == \A c \in Cells(table) : data[c].is # "pending"

\* Marks, and the placeholders they leave, are there only where cells are
\* marked, and not while a new table waits to be rendered.
MarksInv ==
    /\ "mark" \notin env => marks = <<>> /\ NoPlaceholder
    /\ rerender => inDOM /\ marks = <<>> /\ NoPlaceholder

\* Where the view stays in the document, or no cells are marked, the elements
\* that marks are left for are those of the current rendering.
MarksAttached == ~({"mark", "remove"} \subseteq env) => \A i \in DOMAIN marks : marks[i].dom

\* The elements are those of the table unless a rerender is scheduled.
DrawnInv ==
    /\ "remove" \notin env => inDOM
    /\ inDOM /\ ~rerender => drawn = table

\* What is not loaded has no value.
ValuesLoaded == \A c \in Cells(table) : data[c].is # "cell" => data[c].value = None

UpdateInv == NoCellForgotten /\ MarksInv /\ MarksAttached /\ DrawnInv /\ ValuesLoaded

\* The tables have no row in common.
Disjoint == \A t, u \in Tables : t # u => Range(t.rows) \cap Range(u.rows) = {}

\* What an element shows for an entry has its type; a placeholder looks like a
\* cell that was never loaded.
LEMMA DisplayType ==
    ASSUME NEW d \in Entries
    PROVE  Display(d) \in Shows
  BY DEF Display, Entries, Shows

\* Nothing is loaded at first.
LEMMA NullEntry ==
    Null \in Entries /\ Null.is = "null" /\ Null.value = None /\ Display(Null) \in Shows
  BY DisplayType DEF Null, Entries

\* A table that has just been rendered is in order.
LEMMA InitUpdate == Init => UpdateInv
  <1> SUFFICES ASSUME Init PROVE UpdateInv
    OBVIOUS
  <1>1. /\ table \in Tables /\ drawn = table
        /\ data = [c \in Cells(table) |-> Null]
        /\ shown = [c \in Cells(table) |-> Display(Null)]
        /\ dirty = <<>> /\ update = [refs |-> <<>>, dom |-> FALSE] /\ marks = <<>>
    BY DEF Init, NoUpdate
  <1>2. /\ inDOM = TRUE /\ rerender = FALSE /\ error = FALSE
        /\ inDOM \in BOOLEAN /\ rerender \in BOOLEAN /\ error \in BOOLEAN
    BY Zenon DEF Init
  <1>3. TypeOK
    BY <1>1, <1>2, NullEntry DEF TypeOK, Entries, Shows
  <1>4. \A c \in Cells(table) : data[c] = Null /\ shown[c] = Display(Null)
    BY <1>1
  <1>5. NoPlaceholder
    BY <1>4, NullEntry DEF NoPlaceholder
  <1>6. NoCellForgotten
    BY <1>2, <1>3, <1>4, Zenon DEF NoCellForgotten, NoError, StaleIsScheduled
  <1>7. MarksInv /\ MarksAttached /\ DrawnInv /\ ValuesLoaded
    BY <1>1, <1>2, <1>4, <1>5, NullEntry DEF MarksInv, MarksAttached, DrawnInv, ValuesLoaded
  <1>8. QED BY <1>6, <1>7 DEF UpdateInv

-----------------------------------------------------------------------------
(* Drawing *)

\* The type invariant, with names for the types.
Batch == [refs : Seq(Cells(table)), dom : BOOLEAN]
Typed ==
    /\ table \in Tables /\ drawn \in Tables
    /\ data \in [Cells(table) -> Entries] /\ shown \in [Cells(table) -> Shows]
    /\ dirty \in Seq(Cells(table)) /\ update \in Batch /\ marks \in Seq(Batch)
    /\ inDOM \in BOOLEAN /\ rerender \in BOOLEAN /\ error \in BOOLEAN

\* It says the same.
LEMMA TypedIsTypeOK == (TypeOK <=> Typed) /\ (TypeOK' <=> Typed')
  BY DEF TypeOK, Typed, Entries, Shows, Batch

\* It is part of the invariant.
LEMMA UpdateTyped ==
    ASSUME UpdateInv
    PROVE  Typed
  BY TypedIsTypeOK DEF UpdateInv, NoCellForgotten, NoError

\* New data for some cells, made dirty in one batch: each of them is drawn at
\* once or scheduled, provided that no batch before it was left unfinished.
LEMMA ChangeKeeps ==
    ASSUME UpdateInv, NEW refs \in Seq(Cells(table)), NEW new \in [Cells(table) -> Entries],
           data' = new, CellsDidChange(refs, new),
           "impatient" \in env \/ update.refs = <<>>,
           \A c \in Cells(table) :
              new[c] = data[c] \/ (c \in Range(refs) /\ new[c].is = "cell"),
           UNCHANGED <<table, inDOM, rerender, drawn, marks, error, env>>
    PROVE  UpdateInv'
  <1>0. Typed
    BY UpdateTyped
  <1> DEFINE b == ~rerender
  <1>1. /\ Chunk(refs) \in Seq(Cells(table)) /\ Rest(refs) \in Seq(Cells(table))
        /\ Range(refs) \subseteq Range(Chunk(refs)) \cup Range(Rest(refs))
    BY ChunkAndRest
  <1>2. b \in BOOLEAN
    BY <1>0 DEF Typed
  <1> HIDE DEF b
  <1>3. /\ Redrawn(Chunk(refs), b, new) \in [Cells(table) -> Shows]
        /\ \A c \in Cells(table) :
              Redrawn(Chunk(refs), b, new)[c] =
                 IF b /\ c \in Range(Chunk(refs)) THEN Display(new[c]) ELSE shown[c]
    <2>1. shown \in [Cells(table) -> Shows] /\ \A c \in Cells(table) : Display(new[c]) \in Shows
      BY <1>0, DisplayType DEF Typed
    <2>2. QED BY <1>2, <2>1 DEF Redrawn
  <1>4. /\ inDOM => /\ dirty' = <<>> /\ shown' = Redrawn(Chunk(refs), b, new)
                    /\ update' = [refs |-> Rest(refs), dom |-> b]
        /\ ~inDOM => dirty' = refs /\ shown' = shown /\ update' = [refs |-> <<>>, dom |-> FALSE]
    BY DEF CellsDidChange, NoUpdate, b
  <1>5. /\ dirty' \in Seq(Cells(table)) /\ shown' \in [Cells(table) -> Shows]
        /\ update' \in Batch
    <2>1. CASE inDOM
      <3>1. dirty' \in Seq(Cells(table)) /\ shown' \in [Cells(table) -> Shows]
        BY <1>3, <1>4, <2>1
      <3>2. update' \in Batch
        BY <1>1, <1>2, <1>4, <2>1 DEF Batch
      <3>3. QED BY <3>1, <3>2
    <2>2. CASE ~inDOM
      <3>1. dirty' \in Seq(Cells(table)) /\ shown' \in [Cells(table) -> Shows]
        BY <1>0, <1>4, <2>2 DEF Typed
      <3>2. update' = [refs |-> <<>>, dom |-> FALSE]
        BY <1>4, <2>2
      <3>3. [refs |-> <<>>, dom |-> FALSE] \in Batch
        BY DEF Batch
      <3>4. QED BY <3>1, <3>2, <3>3
    <2>3. QED BY <2>1, <2>2
  <1>6. Typed'
    BY <1>0, <1>5 DEF Typed, Batch
  <1>7. NoError'
    BY <1>6, TypedIsTypeOK DEF UpdateInv, NoCellForgotten, NoError
  <1>8. StaleIsScheduled'
    <2> SUFFICES ASSUME Patient, inDOM, ~rerender, ~error, NEW c \in Cells(table),
                        shown'[c] # Display(new[c])
                 PROVE  update'.dom /\ c \in Range(update'.refs)
      BY DEF StaleIsScheduled, Patient
    <2>1. update.refs = <<>>
      BY DEF Patient
    <2>2. \A x \in Cells(table) : shown[x] = Display(data[x])
      BY <2>1 DEF UpdateInv, NoCellForgotten, StaleIsScheduled, Range
    <2>3. b = TRUE /\ update' = [refs |-> Rest(refs), dom |-> b]
      BY <1>4 DEF b
    <2>4. shown'[c] = IF c \in Range(Chunk(refs)) THEN Display(new[c]) ELSE shown[c]
      BY <1>3, <1>4, <2>3
    <2>5. c \notin Range(Chunk(refs)) /\ shown[c] # Display(new[c])
      BY <2>4
    <2>6. c \in Range(refs)
      BY <2>2, <2>5
    <2>7. c \in Range(Rest(refs))
      BY <1>1, <2>5, <2>6
    <2>8. QED BY <2>3, <2>7
  <1>9. NoPlaceholder => NoPlaceholder'
    BY DEF NoPlaceholder
  <1>10. MarksInv' /\ MarksAttached' /\ DrawnInv' /\ ValuesLoaded'
    BY <1>9 DEF UpdateInv, MarksInv, MarksAttached, DrawnInv, ValuesLoaded
  <1>11. QED BY <1>7, <1>8, <1>10 DEF UpdateInv, NoCellForgotten

\* A later chunk of the current batch.
LEMMA NextUpdateKeeps ==
    ASSUME UpdateInv, NextUpdate
    PROVE  UpdateInv'
  <1>0. Typed
    BY UpdateTyped
  <1> DEFINE refs == update.refs
  <1>1. refs \in Seq(Cells(table)) /\ update.dom \in BOOLEAN
    BY <1>0 DEF Typed, Batch
  <1>2. /\ Chunk(refs) \in Seq(Cells(table)) /\ Rest(refs) \in Seq(Cells(table))
        /\ Range(refs) \subseteq Range(Chunk(refs)) \cup Range(Rest(refs))
    BY <1>1, ChunkAndRest
  <1> HIDE DEF refs
  <1>3. /\ shown' \in [Cells(table) -> Shows]
        /\ \A c \in Cells(table) :
              shown'[c] = IF update.dom /\ c \in Range(Chunk(refs)) THEN Display(data[c])
                                                                   ELSE shown[c]
    <2>1. shown' = Redrawn(Chunk(refs), update.dom, data)
      BY DEF NextUpdate, refs
    <2>2. shown \in [Cells(table) -> Shows] /\ \A c \in Cells(table) : Display(data[c]) \in Shows
      BY <1>0, DisplayType DEF Typed
    <2>3. QED BY <1>1, <2>1, <2>2 DEF Redrawn
  <1>4. update' = [update EXCEPT !.refs = Rest(refs)]
    BY DEF NextUpdate, refs
  <1>5. /\ update' \in Batch
        /\ update'.refs = Rest(refs) /\ update'.dom = update.dom
    BY <1>0, <1>2, <1>4 DEF Typed, Batch
  <1>6. UNCHANGED <<table, data, dirty, inDOM, rerender, drawn, marks, error, env>>
    BY DEF NextUpdate
  <1>7. Typed'
    BY <1>0, <1>3, <1>5, <1>6 DEF Typed, Batch
  <1>8. NoError'
    BY <1>6, <1>7, TypedIsTypeOK DEF UpdateInv, NoCellForgotten, NoError
  <1>9. StaleIsScheduled'
    <2> SUFFICES ASSUME Patient, inDOM, ~rerender, ~error, NEW c \in Cells(table),
                        shown'[c] # Display(data[c])
                 PROVE  update.dom /\ c \in Range(Rest(refs))
      BY <1>5, <1>6 DEF StaleIsScheduled, Patient
    <2>1. ~ (update.dom /\ c \in Range(Chunk(refs))) /\ shown[c] # Display(data[c])
      BY <1>3
    <2>2. update.dom /\ c \in Range(refs)
      BY <2>1 DEF UpdateInv, NoCellForgotten, StaleIsScheduled, refs
    <2>3. QED BY <1>2, <2>1, <2>2
  <1>10. MarksInv' /\ MarksAttached' /\ DrawnInv' /\ ValuesLoaded'
    BY <1>6 DEF UpdateInv, MarksInv, MarksAttached, DrawnInv, NoPlaceholder, ValuesLoaded
  <1>11. QED BY <1>8, <1>9, <1>10 DEF UpdateInv, NoCellForgotten

-----------------------------------------------------------------------------
(* Pushed and edited cells *)

\* A cell that arrives takes over the mark of its placeholder.
LEMMA LoadedType ==
    ASSUME NEW d \in Entries, NEW v \in Values
    PROVE  Loaded(d, v) \in Entries /\ Loaded(d, v).is = "cell"
  <1>1. (d.is = "pending" /\ d.updating) \in BOOLEAN
    BY DEF Entries
  <1>2. Loaded(d, v) = [is |-> "cell", value |-> v, updating |-> d.is = "pending" /\ d.updating]
    BY DEF Loaded, Cell
  <1>3. QED BY <1>1, <1>2 DEF Entries

\* A batch from the server: of this table it is drawn, of another it is refused
\* or, where tables share rows, makes the loop throw.
LEMMA PushKeeps ==
    ASSUME UpdateInv, NEW refs \in Batches(MaxPush), NEW v \in Values, PushDataBatch(refs, v)
    PROVE  UpdateInv'
  <1>0. Typed
    BY UpdateTyped
  <1>1. PICK k \in 1..MaxPush, t \in Tables : refs \in [1..k -> Cells(t)]
    BY DEF Batches
  <1>2. k \in Nat /\ k >= 1 /\ DOMAIN refs = 1..k /\ refs \in Seq(Cells(t)) /\ Len(refs) = k
    <2>1. MaxPush \in Nat
      BY TableAssumption
    <2>2. k \in Nat /\ k >= 1
      BY <2>1
    <2>3. DOMAIN refs = 1..k /\ refs \in Seq(Cells(t))
      BY <1>1, <2>2
    <2>4. Len(refs) = k
      BY <2>2, <2>3
    <2> QED
      BY <2>2, <2>3, <2>4
  <1> DEFINE known == {i \in DOMAIN refs : \A j \in 1..i : refs[j] \in Cells(table)}
             new == [c \in Cells(table) |->
                       IF \E i \in known : refs[i] = c THEN Loaded(data[c], v) ELSE data[c]]
  <1>3. /\ "impatient" \in env \/ update.refs = <<>>
        /\ IsForCurrentTable(refs)
        /\ data' = new
        /\ UNCHANGED <<table, inDOM, rerender, drawn, marks, env>>
    BY DEF PushDataBatch
  <1>4. new \in [Cells(table) -> Entries]
    <2>1. \A c \in Cells(table) : data[c] \in Entries /\ Loaded(data[c], v) \in Entries
      BY <1>0, LoadedType DEF Typed
    <2>2. QED BY <2>1
  <1>5. \A c \in Cells(table) :
           \/ new[c] = data[c]
           \/ (\E i \in known : refs[i] = c) /\ new[c].is = "cell"
    BY <1>0, LoadedType DEF Typed
  <1>6. CASE known = DOMAIN refs
    <2>1. CellsDidChange(dirty \o refs, new) /\ UNCHANGED error
      BY <1>6 DEF PushDataBatch
    <2>2. \A i \in 1..k : refs[i] \in Cells(table)
      <3>1. ASSUME NEW i \in 1..k
            PROVE  refs[i] \in Cells(table)
        <4>1. i \in 1..i
          BY <1>2
        <4>2. i \in known
          BY <1>2, <1>6
        <4>3. QED BY <4>1, <4>2
      <3>2. QED BY <3>1
    <2>3. dirty \o refs \in Seq(Cells(table))
      <3> HIDE DEF known, new
      <3>1. refs \in [1..k -> Cells(table)]
        BY <1>1, <2>2
      <3>2. refs \in Seq(Cells(table)) /\ dirty \in Seq(Cells(table))
        BY <1>0, <1>2, <3>1 DEF Typed
      <3>3. QED BY <3>2
    <2>4. \A i \in 1..k : refs[i] \in Range(dirty \o refs)
      <3>1. dirty \in Seq(Cells(table)) /\ Len(dirty) \in Nat
        BY <1>0 DEF Typed
      <3>2. ASSUME NEW i \in 1..k
            PROVE  Len(dirty) + i \in DOMAIN (dirty \o refs) /\ (dirty \o refs)[Len(dirty) + i] = refs[i]
        BY <1>2, <2>2, <3>1
      <3>3. QED BY <3>2 DEF Range
    <2>5. \A c \in Cells(table) :
             new[c] = data[c] \/ (c \in Range(dirty \o refs) /\ new[c].is = "cell")
      BY <1>2, <1>5, <2>4
    <2> HIDE DEF new, known
    <2>6. QED BY <1>3, <1>4, <2>1, <2>3, <2>5, ChangeKeeps
  <1>7. CASE known # DOMAIN refs
    <2>1. error' = TRUE /\ error' \in BOOLEAN
      BY <1>7, Zenon DEF PushDataBatch
    <2>2. UNCHANGED <<dirty, shown, update>>
      BY <1>7 DEF PushDataBatch
    <2>3. ~ Disjoint
      <3> SUFFICES ASSUME Disjoint PROVE FALSE
        OBVIOUS
      <3>1. refs[1] \in Cells(t) /\ refs[1][1] \in Range(table.rows)
        BY <1>1, <1>2, <1>3 DEF IsForCurrentTable
      <3>2. refs[1][1] \in Range(t.rows)
        BY <3>1 DEF Cells
      <3>3. t = table
        BY <1>0, <3>1, <3>2 DEF Disjoint, Typed
      <3>4. \A i \in DOMAIN refs : \A j \in 1..i : refs[j] \in Cells(table)
        BY <1>1, <1>2, <3>3
      <3>5. QED BY <1>7, <3>4
    <2>4. Typed'
      <3> HIDE DEF new
      <3>1. QED BY <1>0, <1>3, <1>4, <2>1, <2>2 DEF Typed, Batch
    <2>5. NoError'
      BY <2>3, <2>4, TypedIsTypeOK DEF NoError, Disjoint
    <2>6. StaleIsScheduled'
      BY <2>1, Zenon DEF StaleIsScheduled
    <2>7. NoPlaceholder => NoPlaceholder'
      BY <1>3, <1>5 DEF NoPlaceholder
    <2>8. MarksInv' /\ MarksAttached' /\ DrawnInv'
      BY <1>3, <2>7 DEF UpdateInv, MarksInv, MarksAttached, DrawnInv
    <2>10. ValuesLoaded'
      BY <1>3, <1>5 DEF UpdateInv, ValuesLoaded
    <2>9. QED BY <2>5, <2>6, <2>8, <2>10 DEF UpdateInv, NoCellForgotten
  <1>8. QED BY <1>6, <1>7

\* An edited cell is drawn in the same call.
LEMMA EditKeeps ==
    ASSUME UpdateInv, NEW c \in Cells(table), NEW v \in Values, Edit(c, v)
    PROVE  UpdateInv'
  <1>0. Typed
    BY UpdateTyped
  <1> DEFINE new == [data EXCEPT ![c].value = v]
  <1>1. /\ "impatient" \in env \/ update.refs = <<>>
        /\ data[c].is = "cell" /\ data' = new
        /\ CellsDidChange(Append(dirty, c), new)
        /\ UNCHANGED <<table, inDOM, rerender, drawn, marks, error, env>>
    BY DEF Edit
  <1>2. data \in [Cells(table) -> Entries]
    BY <1>0 DEF Typed
  <1>3. [data[c] EXCEPT !.value = v] \in Entries /\ [data[c] EXCEPT !.value = v].is = "cell"
    BY <1>1, <1>2 DEF Entries
  <1>4. /\ new \in [Cells(table) -> Entries] /\ new[c].is = "cell"
        /\ \A x \in Cells(table) \ {c} : new[x] = data[x]
    BY <1>2, <1>3
  <1>5. Append(dirty, c) \in Seq(Cells(table)) /\ c \in Range(Append(dirty, c))
    <2>1. dirty \in Seq(Cells(table)) /\ Len(dirty) \in Nat
      BY <1>0 DEF Typed
    <2>2. /\ Append(dirty, c) \in Seq(Cells(table))
          /\ Len(dirty) + 1 \in DOMAIN Append(dirty, c) /\ Append(dirty, c)[Len(dirty) + 1] = c
      BY <2>1
    <2>3. QED BY <2>2 DEF Range
  <1> HIDE DEF new
  <1>6. QED BY <1>1, <1>4, <1>5, ChangeKeeps

-----------------------------------------------------------------------------
(* Marks *)

\* A chunk of marks, drawn or not: data and elements keep their types, no cell
\* that was up to date is stale afterwards.
LEMMA MarkingKeeps ==
    ASSUME UpdateInv, NEW refs \in Seq(Cells(table)), NEW dom,
           "mark" \in env, ~rerender, ~({"mark", "remove"} \subseteq env) => dom,
           data' = Marked(refs), shown' = ShownMarked(refs, dom),
           marks' \in Seq(Batch), MarksAttached',
           UNCHANGED <<table, dirty, inDOM, rerender, drawn, update, error, env>>
    PROVE  UpdateInv'
  <1>0. Typed
    BY UpdateTyped
  <1>1. data \in [Cells(table) -> Entries] /\ shown \in [Cells(table) -> Shows]
    BY <1>0 DEF Typed
  <1>2. \A c \in Cells(table) : HasElement(c) \in BOOLEAN
    BY DEF HasElement
  <1>3. ASSUME NEW c \in Cells(table)
        PROVE  /\ Placeholder(HasElement(c)) \in Entries
               /\ [data[c] EXCEPT !.updating = @ \/ HasElement(c)] \in Entries
               /\ [shown[c] EXCEPT !.updating = TRUE] \in Shows
    <2>1. (data[c].updating \/ HasElement(c)) \in BOOLEAN
      BY <1>1, <1>2 DEF Entries
    <2>2. Placeholder(HasElement(c)) \in Entries
      BY <1>2 DEF Placeholder, Entries
    <2>3. [data[c] EXCEPT !.updating = @ \/ HasElement(c)] \in Entries
      <3> DEFINE b == data[c].updating \/ HasElement(c)
      <3>1. b \in BOOLEAN /\ data[c] \in Entries
        BY <1>1, <2>1
      <3> HIDE DEF b
      <3>2. [data[c] EXCEPT !.updating = b] \in Entries
        BY <3>1 DEF Entries
      <3>3. QED BY <3>2 DEF b
    <2>4. [shown[c] EXCEPT !.updating = TRUE] \in Shows
      BY <1>1 DEF Shows
    <2>5. QED BY <2>2, <2>3, <2>4
  <1>4. /\ data' \in [Cells(table) -> Entries]
        /\ \A c \in Cells(table) : data'[c] =
              IF c \notin Range(refs) THEN data[c]
              ELSE IF data[c].is = "null" THEN Placeholder(HasElement(c))
              ELSE [data[c] EXCEPT !.updating = @ \/ HasElement(c)]
    BY <1>1, <1>3 DEF Marked
  <1>5. /\ shown' \in [Cells(table) -> Shows]
        /\ \A c \in Cells(table) : shown'[c] =
              IF dom /\ c \in Range(refs) /\ data[c].is = "cell"
              THEN [shown[c] EXCEPT !.updating = TRUE] ELSE shown[c]
    BY <1>1, <1>3 DEF ShownMarked
  <1>6. Typed'
    BY <1>0, <1>4, <1>5 DEF Typed, Batch
  <1>7. NoError'
    BY <1>6, TypedIsTypeOK DEF UpdateInv, NoCellForgotten, NoError
  <1>8. StaleIsScheduled'
    <2> SUFFICES ASSUME Patient, inDOM, ~error, NEW c \in Cells(table),
                        shown'[c] # Display(data'[c])
                 PROVE  shown[c] # Display(data[c])
      BY DEF StaleIsScheduled, Patient, UpdateInv, NoCellForgotten
    <2>1. dom
      BY DEF Patient
    <2>2. HasElement(c)
      <3>1. TypeOK /\ drawn = table
        BY <1>0, TypedIsTypeOK DEF UpdateInv, DrawnInv
      <3>2. QED BY <3>1, EveryCellHasElement
    <2>3. CASE c \notin Range(refs)
      BY <1>4, <1>5, <2>3
    <2>4. CASE c \in Range(refs) /\ data[c].is = "null"
      <3>1. data'[c] = Placeholder(HasElement(c)) /\ shown'[c] = shown[c]
        BY <1>4, <1>5, <2>4
      <3>2. data'[c].is = "pending" /\ data'[c].value = None /\ data[c].value = None
        BY <2>4, <3>1 DEF Placeholder, UpdateInv, ValuesLoaded
      <3>3. QED BY <2>4, <3>1, <3>2 DEF Display
    <2>5. CASE c \in Range(refs) /\ data[c].is = "pending"
      <3>1. data'[c] = [data[c] EXCEPT !.updating = @ \/ HasElement(c)] /\ shown'[c] = shown[c]
        BY <1>4, <1>5, <2>5
      <3>2. data'[c].is = "pending" /\ data'[c].value = data[c].value
        BY <1>1, <3>1, <2>5 DEF Entries
      <3>3. QED BY <3>1, <3>2, <2>5 DEF Display
    <2>6. CASE c \in Range(refs) /\ data[c].is = "cell"
      <3>1. /\ data'[c] = [data[c] EXCEPT !.updating = @ \/ HasElement(c)]
            /\ shown'[c] = [shown[c] EXCEPT !.updating = TRUE]
        BY <1>4, <1>5, <2>1, <2>6
      <3>2. data'[c].is = "cell" /\ data'[c].value = data[c].value
        BY <1>1, <3>1, <2>6 DEF Entries
      <3>7. data'[c].updating = TRUE
        <4> DEFINE b == data[c].updating \/ HasElement(c)
        <4>1. data'[c] = [data[c] EXCEPT !.updating = b]
          BY <3>1
        <4>2. b = TRUE
          BY <2>2, Zenon
        <4> HIDE DEF b
        <4>3. data'[c].updating = b
          BY <1>1, <4>1 DEF Entries
        <4>4. QED BY <4>2, <4>3
      <3>3. Display(data'[c]) = [value |-> data[c].value, updating |-> TRUE]
        <4>1. (data'[c].is = "cell" /\ data'[c].updating) = TRUE
          BY <3>2, <3>7, Zenon
        <4>2. QED BY <3>2, <4>1, Zenon DEF Display
      <3>4. [shown[c] EXCEPT !.updating = TRUE] = [value |-> shown[c].value, updating |-> TRUE]
        <4>1. ASSUME NEW s \in Shows, NEW u \in BOOLEAN
              PROVE  [s EXCEPT !.updating = u] = [value |-> s.value, updating |-> u]
          BY DEF Shows
        <4>2. shown[c] \in Shows /\ TRUE \in BOOLEAN
          BY <1>1
        <4>3. QED BY <4>1, <4>2, Zenon
      <3>5. shown[c].value # data[c].value
        <4> DEFINE Lit(v) == [value |-> v, updating |-> TRUE]
        <4>1. shown'[c] = Lit(shown[c].value) /\ Display(data'[c]) = Lit(data[c].value)
          BY <3>1, <3>3, <3>4, Zenon
        <4> HIDE DEF Lit
        <4>2. QED BY <4>1
      <3>6. QED BY <3>5 DEF Display
    <2>7. QED BY <1>1, <2>3, <2>4, <2>5, <2>6 DEF Entries
  <1>9. MarksInv' /\ DrawnInv'
    BY DEF UpdateInv, MarksInv, DrawnInv
  <1>11. ValuesLoaded'
    <2> SUFFICES ASSUME NEW c \in Cells(table), data'[c].is # "cell"
                 PROVE  data'[c].value = None
      BY DEF ValuesLoaded
    <2>1. data[c].is # "cell" => data[c].value = None
      BY DEF UpdateInv, ValuesLoaded
    <2>2. CASE c \in Range(refs) /\ data[c].is = "null"
      BY <1>4, <2>2 DEF Placeholder
    <2>3. CASE c \in Range(refs) /\ data[c].is # "null"
      <3>1. data'[c] = [data[c] EXCEPT !.updating = @ \/ HasElement(c)]
        BY <1>4, <2>3
      <3>2. data'[c].is = data[c].is /\ data'[c].value = data[c].value
        BY <1>1, <3>1 DEF Entries
      <3>3. QED BY <2>1, <3>2
    <2>4. CASE c \notin Range(refs)
      BY <1>4, <2>1, <2>4
    <2>5. QED BY <2>2, <2>3, <2>4
  <1>10. QED BY <1>7, <1>8, <1>9, <1>11 DEF UpdateInv, NoCellForgotten

\* Marks are set.
LEMMA MarkForUpdateKeeps ==
    ASSUME UpdateInv, NEW refs \in Batches(MaxPush), Range(refs) \subseteq Cells(table),
           MarkForUpdate(refs)
    PROVE  UpdateInv'
  <1>0. Typed
    BY UpdateTyped
  <1>1. refs \in Seq(Cells(table))
    <2>1. PICK k \in 1..MaxPush, t \in Tables : refs \in [1..k -> Cells(t)]
      BY DEF Batches
    <2>2. k \in Nat /\ DOMAIN refs = 1..k
      BY <2>1, TableAssumption
    <2>3. refs \in [1..k -> Cells(table)]
      BY <2>1, <2>2 DEF Range
    <2>4. QED BY <2>2, <2>3
  <1>2. Chunk(refs) \in Seq(Cells(table)) /\ Rest(refs) \in Seq(Cells(table))
    BY <1>1, ChunkAndRest
  <1> DEFINE new == [refs |-> Rest(refs), dom |-> TRUE]
  <1>3. new \in Batch /\ new.dom
    BY <1>2 DEF Batch
  <1> HIDE DEF new
  <1>4. /\ "mark" \in env /\ ~rerender
        /\ data' = Marked(Chunk(refs)) /\ shown' = ShownMarked(Chunk(refs), TRUE)
        /\ marks' = marks \/ marks' = Append(marks, new)
        /\ UNCHANGED <<table, dirty, inDOM, rerender, drawn, update, error, env>>
    BY DEF MarkForUpdate, new
  <1>5. marks \in Seq(Batch)
    BY <1>0 DEF Typed
  <1>6. marks' \in Seq(Batch)
    BY <1>3, <1>4, <1>5
  <1>7. MarksAttached'
    <2> SUFFICES ASSUME ~({"mark", "remove"} \subseteq env), NEW i \in DOMAIN marks'
                 PROVE  marks'[i].dom
      BY <1>4 DEF MarksAttached
    <2>1. \A j \in DOMAIN marks : marks[j].dom
      BY DEF UpdateInv, MarksAttached
    <2>2. (i \in DOMAIN marks /\ marks'[i] = marks[i]) \/ marks'[i] = new
      BY <1>3, <1>4, <1>5
    <2>3. QED BY <1>3, <2>1, <2>2
  <1>8. QED BY <1>2, <1>4, <1>6, <1>7, MarkingKeeps

\* A later chunk of marks.
LEMMA NextMarksKeeps ==
    ASSUME UpdateInv, NextMarks
    PROVE  UpdateInv'
  <1>0. Typed
    BY UpdateTyped
  <1> DEFINE b == Head(marks)
             left == [b EXCEPT !.refs = Rest(b.refs)]
  <1>1. marks \in Seq(Batch) /\ marks # <<>>
    BY <1>0 DEF Typed, NextMarks
  <1>2. b \in Batch /\ b.refs \in Seq(Cells(table)) /\ b = marks[1] /\ 1 \in DOMAIN marks
    <2>1. 1 \in DOMAIN marks /\ b = marks[1] /\ marks[1] \in Batch
      BY <1>1
    <2>2. QED BY <2>1 DEF Batch
  <1> HIDE DEF b
  <1>3. Chunk(b.refs) \in Seq(Cells(table)) /\ Rest(b.refs) \in Seq(Cells(table))
    BY <1>2, ChunkAndRest
  <1>4. left \in Batch /\ left.dom = b.dom
    BY <1>2, <1>3 DEF Batch
  <1>5. /\ ~rerender
        /\ data' = Marked(Chunk(b.refs)) /\ shown' = ShownMarked(Chunk(b.refs), b.dom)
        /\ marks' = Tail(marks) \/ marks' = Append(Tail(marks), left)
        /\ UNCHANGED <<table, dirty, inDOM, rerender, drawn, update, error, env>>
    BY DEF NextMarks, b
  <1> HIDE DEF left
  <1>6. "mark" \in env
    BY <1>1 DEF UpdateInv, MarksInv
  <1>7. Tail(marks) \in Seq(Batch)
    BY <1>1
  <1>8. marks' \in Seq(Batch)
    BY <1>4, <1>5, <1>7
  <1>9. ASSUME ~({"mark", "remove"} \subseteq env)
        PROVE  b.dom
    <2>1. \A j \in DOMAIN marks : marks[j].dom
      BY <1>9 DEF UpdateInv, MarksAttached
    <2>2. QED BY <1>2, <2>1
  <1>10. MarksAttached'
    <2> SUFFICES ASSUME ~({"mark", "remove"} \subseteq env), NEW i \in DOMAIN marks'
                 PROVE  marks'[i].dom
      BY <1>5 DEF MarksAttached
    <2>1. \A j \in DOMAIN marks : marks[j].dom
      BY DEF UpdateInv, MarksAttached
    <2>2. ASSUME NEW j \in DOMAIN Tail(marks)
          PROVE  Tail(marks)[j].dom
      <3>1. j + 1 \in DOMAIN marks /\ Tail(marks)[j] = marks[j + 1]
        BY <1>1, <2>2
      <3>2. QED BY <2>1, <3>1
    <2>3. (i \in DOMAIN Tail(marks) /\ marks'[i] = Tail(marks)[i]) \/ marks'[i] = left
      BY <1>4, <1>5, <1>7
    <2>4. left.dom
      BY <1>4, <1>9
    <2>5. QED BY <2>2, <2>3, <2>4
  <1>11. QED BY <1>3, <1>5, <1>6, <1>8, <1>9, <1>10, MarkingKeeps

-----------------------------------------------------------------------------
(* Rendering, and new tables *)

\* What is left to do, detached from the elements it was meant for.
LEMMA DetachedType ==
    ASSUME Typed
    PROVE  /\ Detached(update) \in Batch
           /\ [i \in DOMAIN marks |-> Detached(marks[i])] \in Seq(Batch)
           /\ marks = <<>> => [i \in DOMAIN marks |-> Detached(marks[i])] = <<>>
  <1>1. ASSUME NEW u \in Batch PROVE Detached(u) \in Batch
    BY DEF Detached, Batch
  <1>2. update \in Batch /\ marks \in Seq(Batch)
    BY DEF Typed
  <1>3. DOMAIN marks = 1..Len(marks) /\ Len(marks) \in Nat /\ \A i \in 1..Len(marks) : marks[i] \in Batch
    BY <1>2
  <1>4. [i \in DOMAIN marks |-> Detached(marks[i])] \in [1..Len(marks) -> Batch]
    BY <1>1, <1>3
  <1>5. QED BY <1>1, <1>2, <1>3, <1>4

\* New elements show the data they are made from.
LEMMA RenderKeeps ==
    ASSUME UpdateInv, Rerender \/ InsertView
    PROVE  UpdateInv'
  <1>0. Typed
    BY UpdateTyped
  <1>1. /\ inDOM' = TRUE /\ rerender' = FALSE /\ error' = (\E c \in Cells(table) : data[c].is = "pending")
        /\ inDOM' \in BOOLEAN /\ rerender' \in BOOLEAN /\ error' \in BOOLEAN
    BY Zenon DEF Rerender, InsertView, Render
  <1>2. /\ drawn' = table /\ shown' = [c \in Cells(table) |-> Display(data[c])]
        /\ update' = Detached(update)
        /\ marks' = [i \in DOMAIN marks |-> Detached(marks[i])]
        /\ UNCHANGED <<table, data, dirty, env>>
    BY DEF Rerender, InsertView, Render
  <1>3. ~({"mark", "remove"} \subseteq env) => marks = <<>> /\ NoPlaceholder
    <2>1. CASE rerender
      BY <2>1 DEF UpdateInv, MarksInv
    <2>2. CASE InsertView
      BY <2>2 DEF InsertView, UpdateInv, MarksInv, DrawnInv
    <2>3. QED BY <2>1, <2>2 DEF Rerender
  <1>4. update' \in Batch /\ marks' \in Seq(Batch) /\ (marks = <<>> => marks' = <<>>)
    BY <1>0, <1>2, DetachedType
  <1>5. /\ shown' \in [Cells(table) -> Shows]
        /\ \A c \in Cells(table) : shown'[c] = Display(data[c])
    BY <1>0, <1>2, DisplayType DEF Typed
  <1>6. Typed'
    BY <1>0, <1>1, <1>2, <1>4, <1>5 DEF Typed, Batch
  <1>7. NoError'
    <2>1. ~({"mark", "remove"} \subseteq env) => ~error'
      BY <1>1, <1>3 DEF NoPlaceholder
    <2>2. QED BY <1>2, <1>6, <2>1, TypedIsTypeOK DEF NoError
  <1>8. StaleIsScheduled'
    BY <1>2, <1>5 DEF StaleIsScheduled
  <1>9. MarksAttached'
    BY <1>2, <1>3, <1>4 DEF MarksAttached
  <1>10. MarksInv'
    BY <1>1, <1>2, <1>4 DEF UpdateInv, MarksInv, NoPlaceholder
  <1>11. DrawnInv' /\ ValuesLoaded'
    BY <1>1, <1>2 DEF UpdateInv, DrawnInv, ValuesLoaded
  <1>12. QED BY <1>7, <1>8, <1>9, <1>10, <1>11 DEF UpdateInv, NoCellForgotten

\* A table taken out of the document is not drawn.
LEMMA RemoveKeeps ==
    ASSUME UpdateInv, RemoveView
    PROVE  UpdateInv'
  <1>0. Typed
    BY UpdateTyped
  <1>1. inDOM' = FALSE /\ inDOM' \in BOOLEAN
    BY Zenon DEF RemoveView
  <1>2. /\ "remove" \in env /\ ~rerender
        /\ update' = Detached(update)
        /\ marks' = [i \in DOMAIN marks |-> Detached(marks[i])]
        /\ UNCHANGED <<table, data, dirty, rerender, drawn, shown, error, env>>
    BY DEF RemoveView
  <1>3. update' \in Batch /\ marks' \in Seq(Batch) /\ (marks = <<>> => marks' = <<>>)
    BY <1>0, <1>2, DetachedType
  <1>4. Typed'
    BY <1>0, <1>1, <1>2, <1>3 DEF Typed, Batch
  <1>5. NoError'
    BY <1>2, <1>4, TypedIsTypeOK DEF UpdateInv, NoCellForgotten, NoError
  <1>6. StaleIsScheduled'
    BY <1>1, Zenon DEF StaleIsScheduled
  <1>7. MarksAttached'
    BY <1>2, <1>3 DEF UpdateInv, MarksInv, MarksAttached
  <1>8. MarksInv'
    BY <1>2, <1>3 DEF UpdateInv, MarksInv, NoPlaceholder
  <1>9. DrawnInv' /\ ValuesLoaded'
    BY <1>1, <1>2 DEF UpdateInv, DrawnInv, ValuesLoaded
  <1>10. QED BY <1>5, <1>6, <1>7, <1>8, <1>9 DEF UpdateInv, NoCellForgotten

\* A new table, with no data yet or with all of them.
LEMMA NewTableKeeps ==
    ASSUME UpdateInv, NEW t \in Tables,
           SetHeaders(t) \/ \E v \in Values : SetHeadersAndData(t, v)
    PROVE  UpdateInv'
  <1>0. Typed
    BY UpdateTyped
  <1> DEFINE all == SetToSeq(Cells(t))
  <1>1. /\ table' = t /\ marks' = <<>> /\ rerender' = inDOM
        /\ shown' = [c \in Cells(t) |-> Display(Null)]
        /\ UNCHANGED <<inDOM, drawn, error, env>>
    BY DEF SetHeaders, SetHeadersAndData
  <1>2. /\ data' \in [Cells(t) -> Entries]
        /\ \A c \in Cells(t) : data'[c] = Null \/ data'[c].is = "cell"
    <2>1. CASE SetHeaders(t)
      BY <2>1, NullEntry DEF SetHeaders
    <2>2. ASSUME NEW v \in Values, SetHeadersAndData(t, v)
          PROVE  <1>2!1 /\ <1>2!2
      <3>1. Cell(v, FALSE) \in Entries /\ Cell(v, FALSE).is = "cell"
        BY DEF Cell, Entries
      <3>2. QED BY <2>2, <3>1 DEF SetHeadersAndData
    <2>3. QED BY <2>1, <2>2
  <1>3. all \in Seq(Cells(t)) /\ Rest(all) \in Seq(Cells(t))
    BY AllCells, ChunkAndRest
  <1> HIDE DEF all
  <1>4. dirty' \in Seq(Cells(t)) /\ update' \in [refs : Seq(Cells(t)), dom : BOOLEAN]
    <2>1. dirty' = <<>> \/ dirty' = all
      BY DEF SetHeaders, SetHeadersAndData, all
    <2>2. update' = [refs |-> <<>>, dom |-> FALSE] \/ update' = [refs |-> Rest(all), dom |-> FALSE]
      BY Zenon DEF SetHeaders, SetHeadersAndData, NoUpdate, all
    <2>3. /\ [refs |-> <<>>, dom |-> FALSE] \in [refs : Seq(Cells(t)), dom : BOOLEAN]
          /\ [refs |-> Rest(all), dom |-> FALSE] \in [refs : Seq(Cells(t)), dom : BOOLEAN]
      BY <1>3
    <2>4. QED BY <1>3, <2>1, <2>2, <2>3
  <1>5. Typed'
    BY <1>0, <1>1, <1>2, <1>4, NullEntry DEF Typed, Batch
  <1>6. NoError'
    BY <1>1, <1>5, TypedIsTypeOK DEF UpdateInv, NoCellForgotten, NoError
  <1>7. StaleIsScheduled'
    BY <1>1 DEF StaleIsScheduled
  <1>8. NoPlaceholder' /\ ValuesLoaded'
    BY <1>1, <1>2, NullEntry DEF NoPlaceholder, ValuesLoaded
  <1>9. MarksInv' /\ MarksAttached' /\ DrawnInv'
    BY <1>1, <1>8 DEF UpdateInv, MarksInv, MarksAttached, DrawnInv
  <1>10. QED BY <1>6, <1>7, <1>8, <1>9 DEF UpdateInv, NoCellForgotten

-----------------------------------------------------------------------------

\* Every step keeps the invariant.
LEMMA StepUpdate == UpdateInv /\ [Next]_vars => UpdateInv'
  <1> SUFFICES ASSUME UpdateInv, [Next]_vars PROVE UpdateInv'
    OBVIOUS
  <1>1. CASE UNCHANGED vars
    BY <1>1 DEF vars, UpdateInv, NoCellForgotten, NoError, TypeOK, StaleIsScheduled, Patient,
             MarksInv, MarksAttached, DrawnInv, ValuesLoaded, NoPlaceholder
  <1>2. CASE NextUpdate
    BY <1>2, NextUpdateKeeps
  <1>3. CASE NextMarks
    BY <1>3, NextMarksKeeps
  <1>4. CASE Rerender \/ InsertView
    BY <1>4, RenderKeeps
  <1>5. CASE RemoveView
    BY <1>5, RemoveKeeps
  <1>6. ASSUME NEW t \in Tables, SetHeaders(t) PROVE UpdateInv'
    BY <1>6, NewTableKeeps
  <1>7. ASSUME NEW t \in Tables, NEW v \in Values, SetHeadersAndData(t, v) PROVE UpdateInv'
    BY <1>7, NewTableKeeps
  <1>8. ASSUME NEW refs \in Batches(MaxPush), NEW v \in Values, PushDataBatch(refs, v)
        PROVE  UpdateInv'
    BY <1>8, PushKeeps
  <1>9. ASSUME NEW c \in Cells(table), NEW v \in Values, Edit(c, v) PROVE UpdateInv'
    BY <1>9, EditKeeps
  <1>10. ASSUME NEW refs \in {r \in Batches(MaxPush) : Range(r) \subseteq Cells(table)},
                MarkForUpdate(refs)
         PROVE  UpdateInv'
    BY <1>10, MarkForUpdateKeeps
  <1>11. QED BY <1>1, <1>2, <1>3, <1>4, <1>5, <1>6, <1>7, <1>8, <1>9, <1>10 DEF Next

\* A late, superseded or unfinished batch neither breaks the table nor makes the
\* data view forget a cell: where batches are awaited and marks are not left for
\* elements that are replaced, an element that does not show its cell's data is
\* among those the current batch has yet to draw; and no exception is thrown
\* where tables have no row in common.
THEOREM UpdatesCorrect == Spec => []NoCellForgotten
  <1>1. UpdateInv => NoCellForgotten
    BY DEF UpdateInv
  <1>2. QED BY <1>1, InitUpdate, StepUpdate, PTL DEF Spec
=============================================================================

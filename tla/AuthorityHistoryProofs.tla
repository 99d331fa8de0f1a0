----------------------- MODULE AuthorityHistoryProofs -----------------------
(***************************************************************************)
(* Lemmas about the insert-only authority table, for every table: what the *)
(* read of the current row returns, and what one append preserves.  The    *)
(* invariants of the components built on AuthorityHistory rest on them.    *)
(***************************************************************************)
EXTENDS RepositoryValidator, Sequences, FiniteSetTheorems, TLAPS

\* The number of records of a scope in a finite table is a natural number.
LEMMA HeightType ==
    ASSUME NEW table, IsFiniteSet(table), NEW scope
    PROVE  Height(table, scope) \in Nat
<1>1. RowsOf(table, scope) \in SUBSET table
  BY DEF RowsOf
<1>2. IsFiniteSet(RowsOf(table, scope))
  BY <1>1, FS_Subset
<1> QED
  BY <1>2, FS_CardinalityType DEF Height

\* The query for the current row (ORDER BY sequence DESC LIMIT 1) returns
\* nothing only if the scope has no record, and otherwise its last record.
LEMMA CurrentIsLast ==
    ASSUME NEW table, IsFiniteSet(table), NEW scope, Contiguous(table, scope),
           NEW current \in CurrentAnswers(table, scope)
    PROVE  /\ current.sequence + 1 = Height(table, scope)
           /\ current # NoRow => current \in table /\ current.scope = scope
<1> DEFINE h == Height(table, scope)
<1>1. h \in Nat
  BY HeightType
<1>2. \A row \in RowsOf(table, scope) : row.sequence \in 0 .. h - 1
  BY DEF Contiguous
<1>3. \A n \in 0 .. h - 1 : \E row \in RowsOf(table, scope) : row.sequence = n
  BY DEF Contiguous
<1> HIDE DEF h
<1>4. CASE h = 0
  <2>1. RowsOf(table, scope) = {}
    BY <1>2, <1>4
  <2>2. current = NoRow
    BY <2>1 DEF CurrentAnswers, Newest
  <2> QED
    BY <2>2, <1>4 DEF NoRow, h
<1>5. CASE h # 0
  <2>1. PICK last \in RowsOf(table, scope) : last.sequence = h - 1
    <3>1. h - 1 \in 0 .. h - 1
      BY <1>1, <1>5
    <3> QED
      BY <3>1, <1>3
  <2>2. \A row \in RowsOf(table, scope) : row.sequence \in Int /\ row.sequence <= h - 1
    BY <1>1, <1>2
  <2>3. last \in Newest(table, scope)
    BY <2>1, <2>2 DEF Newest
  <2>4. current \in Newest(table, scope)
    BY <2>3 DEF CurrentAnswers
  <2>5. current \in RowsOf(table, scope) /\ last.sequence <= current.sequence
    BY <2>1, <2>4 DEF Newest
  <2>6. current.sequence = h - 1
    BY <1>1, <2>1, <2>2, <2>5
  <2> QED
    BY <1>1, <2>5, <2>6 DEF RowsOf, h
<1> QED
  BY <1>4, <1>5

\* Inserting a new record adds one to the height of its own scope, and leaves
\* the records of every other scope alone.
LEMMA InsertAddsOne ==
    ASSUME NEW table, IsFiniteSet(table), NEW row, row \notin table
    PROVE  /\ IsFiniteSet(table \union {row})
           /\ RowsOf(table \union {row}, row.scope)
                = RowsOf(table, row.scope) \union {row}
           /\ Height(table \union {row}, row.scope) = Height(table, row.scope) + 1
           /\ \A scope : scope # row.scope =>
                 /\ RowsOf(table \union {row}, scope) = RowsOf(table, scope)
                 /\ Height(table \union {row}, scope) = Height(table, scope)
<1>1. IsFiniteSet(table \union {row})
  BY FS_AddElement
<1>2. RowsOf(table \union {row}, row.scope) = RowsOf(table, row.scope) \union {row}
  BY DEF RowsOf
<1>3. RowsOf(table, row.scope) \in SUBSET table
  BY DEF RowsOf
<1>4. IsFiniteSet(RowsOf(table, row.scope))
  BY <1>3, FS_Subset
<1>5. row \notin RowsOf(table, row.scope)
  BY <1>3
<1>6. Height(table \union {row}, row.scope) = Height(table, row.scope) + 1
  BY <1>2, <1>4, <1>5, FS_AddElement DEF Height
<1>7. \A scope : scope # row.scope =>
          RowsOf(table \union {row}, scope) = RowsOf(table, scope)
  BY DEF RowsOf
<1> QED
  BY <1>1, <1>2, <1>6, <1>7 DEF Height

\* An insert that passes the UNIQUE (scope, sequence) check, with a sequence
\* no greater than the height, takes exactly the next free sequence: the
\* history stays without gaps, whichever row the writer had read as current.
LEMMA AppendKeepsContiguous ==
    ASSUME NEW table, IsFiniteSet(table), NEW row, row.sequence \in Nat,
           Contiguous(table, row.scope),
           row.sequence <= Height(table, row.scope),
           ~SlotTaken(table, row)
    PROVE  /\ row.sequence = Height(table, row.scope)
           /\ Contiguous(table \union {row}, row.scope)
<1> DEFINE h == Height(table, row.scope)
           new == table \union {row}
<1>1. h \in Nat
  BY HeightType
<1>2. row \notin table
  BY DEF SlotTaken
<1>3. /\ RowsOf(new, row.scope) = RowsOf(table, row.scope) \union {row}
      /\ Height(new, row.scope) = h + 1
  BY <1>2, InsertAddsOne
<1>4. \A old \in RowsOf(table, row.scope) : old.sequence \in 0 .. h - 1
  BY DEF Contiguous
<1>5. \A n \in 0 .. h - 1 : \E old \in RowsOf(table, row.scope) : old.sequence = n
  BY DEF Contiguous
<1>6. \A old \in RowsOf(table, row.scope) : old.sequence # row.sequence
  BY DEF RowsOf, SlotTaken
<1>7. row.sequence \notin 0 .. h - 1
  BY <1>5, <1>6
<1>8. row.sequence = h
  BY <1>1, <1>7
<1> HIDE DEF h
<1>9. \A old \in RowsOf(table, row.scope) \union {row} : old.sequence \in 0 .. (h + 1) - 1
  BY <1>1, <1>4, <1>8
<1>10. ASSUME NEW n \in 0 .. (h + 1) - 1
       PROVE  \E old \in RowsOf(table, row.scope) \union {row} : old.sequence = n
  <2>1. n = h \/ n \in 0 .. h - 1
    BY <1>1
  <2> QED
    BY <2>1, <1>5, <1>8
<1>11. Contiguous(new, row.scope)
  BY <1>3, <1>9, <1>10 DEF Contiguous
<1> QED
  BY <1>8, <1>11 DEF h

\* What every table a command reads from satisfies.
History(table) ==
    /\ IsFiniteSet(table)
    /\ \A row \in table : row.sequence \in Nat
    /\ Chained(table)
    /\ NeverRepeats(table)

\* A record built on a row of its own scope, or on none, keeps every history
\* of the table a chain whenever its slot is free.
LEMMA AppendKeepsChained ==
    ASSUME NEW table, Chained(table), \A row \in table : row.sequence \in Nat,
           NEW current, NEW scope, NEW target, NEW note,
           current = NoRow \/ (current \in table /\ current.scope = scope),
           ~SlotTaken(table, Successor(current, scope, target, note))
    PROVE  /\ Chained(table \union {Successor(current, scope, target, note)})
           /\ Successor(current, scope, target, note).sequence \in Nat
<1> DEFINE new == Successor(current, scope, target, note)
           all == table \union {new}
<1>1. /\ new.scope = scope
      /\ new.target = target
      /\ new.sequence = current.sequence + 1
      /\ new.previous = IF current = NoRow THEN NoIdentity ELSE Identity(current)
  BY DEF Successor
<1>2. \A old \in table : old.scope = new.scope => old.sequence # new.sequence
  BY DEF SlotTaken
<1>3. \A row \in table : row.sequence \in Nat
  OBVIOUS
<1>4. NoRow.sequence = -1
  BY DEF NoRow
<1>5. new.sequence \in Nat
  BY <1>1, <1>3, <1>4
<1>6. \A row, other \in table :
          row.scope = other.scope /\ row.sequence = other.sequence => row = other
  BY DEF Chained
<1> DEFINE Linked(row, rows) ==
             IF row.sequence = 0
             THEN row.previous = NoIdentity
             ELSE \E old \in rows : /\ old.scope = row.scope
                                    /\ old.sequence = row.sequence - 1
                                    /\ row.previous = Identity(old)
<1>7. \A row \in table : Linked(row, table)
  BY DEF Chained
<1> HIDE DEF new
<1>8. \A row, other \in all :
          row.scope = other.scope /\ row.sequence = other.sequence => row = other
  BY <1>2, <1>6
<1>9. Linked(new, all)
  <2>1. CASE current = NoRow
    BY <2>1, <1>1, <1>4
  <2>2. CASE current # NoRow
    <3>1. current \in table /\ current.scope = new.scope /\ current.sequence \in Nat
      BY <2>2, <1>1, <1>3
    <3>2. new.sequence # 0 /\ current.sequence = new.sequence - 1
      BY <3>1, <1>1
    <3>3. new.previous = Identity(current)
      BY <2>2, <1>1
    <3> QED
      BY <3>1, <3>2, <3>3
  <2> QED
    BY <2>1, <2>2
<1>10. \A row \in all : Linked(row, all)
  <2>1. \A row \in table : Linked(row, all)
    BY <1>7
  <2> QED
    BY <2>1, <1>9
<1> QED
  BY <1>5, <1>8, <1>10 DEF Chained, new

\* If it also chooses another target than the row it is built on, the history
\* goes on changing its target with every record.
LEMMA AppendKeepsHistory ==
    ASSUME NEW table, History(table),
           NEW current, NEW scope, NEW target, NEW note,
           current = NoRow \/ (current \in table /\ current.scope = scope),
           current.target # target,
           ~SlotTaken(table, Successor(current, scope, target, note))
    PROVE  /\ History(table \union {Successor(current, scope, target, note)})
           /\ Successor(current, scope, target, note).sequence \in Nat
<1> DEFINE new == Successor(current, scope, target, note)
           all == table \union {new}
<1>1. /\ new.scope = scope
      /\ new.target = target
      /\ new.sequence = current.sequence + 1
  BY DEF Successor
<1>2. \A old \in table : old.scope = new.scope => old.sequence # new.sequence
  BY DEF SlotTaken
<1>3. \A row \in table : row.sequence \in Nat
  BY DEF History
<1>4. NoRow.sequence = -1
  BY DEF NoRow
<1>5. new.sequence \in Nat /\ Chained(all)
  BY <1>3, AppendKeepsChained DEF History
<1>6. \A row, other \in table :
          row.scope = other.scope /\ row.sequence = other.sequence => row = other
  BY DEF History, Chained
<1>7. \A row \in table : row.sequence # 0 =>
          \E old \in table : old.scope = row.scope /\ old.sequence = row.sequence - 1
  BY DEF History, Chained
<1> HIDE DEF new
<1>8. ASSUME NEW row \in all, NEW old \in all,
              row.scope = old.scope, row.sequence = old.sequence + 1
       PROVE  row.target # old.target
  <2>1. CASE row \in table /\ old \in table
    BY <2>1, <1>8 DEF History, NeverRepeats
  <2>2. CASE row = new /\ old = new
    BY <2>2, <1>8, <1>5
  <2>3. CASE row = new /\ old \in table
    <3>1. old.sequence \in Nat /\ old.sequence = current.sequence
      <4>1. current.sequence \in Int
        BY <1>3, <1>4
      <4> QED
        BY <4>1, <2>3, <1>1, <1>3, <1>8
    <3>2. current # NoRow
      BY <3>1, <1>4
    <3>3. old = current
      BY <3>1, <3>2, <2>3, <1>1, <1>6, <1>8
    <3> QED
      BY <3>3, <2>3, <1>1
  <2>4. CASE row \in table /\ old = new
    <3>1. row.sequence \in Nat /\ row.sequence # 0 /\ row.sequence - 1 = new.sequence
      BY <2>4, <1>3, <1>5, <1>8
    <3>2. \E earlier \in table : earlier.scope = row.scope
                                   /\ earlier.sequence = row.sequence - 1
      BY <3>1, <2>4, <1>7
    <3> QED
      BY <3>1, <3>2, <2>4, <1>2, <1>8
  <2> QED
    BY <2>1, <2>2, <2>3, <2>4
<1>9. NeverRepeats(all)
  BY <1>8 DEF NeverRepeats
<1>10. IsFiniteSet(all)
  BY FS_AddElement DEF History
<1>11. \A row \in all : row.sequence \in Nat
  BY <1>3, <1>5
<1> QED
  BY <1>5, <1>9, <1>10, <1>11 DEF History, new

\* The record at a given place of a history is unique, so its target is what
\* TargetsOf lists there.
LEMMA TargetAt ==
    ASSUME NEW table, Chained(table), NEW row \in table, row.sequence \in Nat,
           row.sequence < Height(table, row.scope), Height(table, row.scope) \in Nat
    PROVE  /\ row.sequence + 1 \in DOMAIN TargetsOf(table, row.scope)
           /\ TargetsOf(table, row.scope)[row.sequence + 1] = row.target
<1> DEFINE n == row.sequence + 1
           place == CHOOSE old \in RowsOf(table, row.scope) : old.sequence = n - 1
<1>1. row \in RowsOf(table, row.scope) /\ row.sequence = n - 1
  BY DEF RowsOf
<1> HIDE DEF n
<1>2. place \in RowsOf(table, row.scope) /\ place.sequence = n - 1
  BY <1>1
<1>3. place = row
  BY <1>1, <1>2 DEF Chained, RowsOf
<1>4. n \in 1 .. Height(table, row.scope)
  BY DEF n
<1> QED
  BY <1>3, <1>4 DEF TargetsOf, TargetsIn, Height, n

\* Appending a record appends its target to the history of its scope, and
\* changes the history of no other scope.
LEMMA AppendExtendsTargets ==
    ASSUME NEW table, History(table), NEW row, row \notin table,
           Contiguous(table, row.scope),
           row.sequence = Height(table, row.scope),
           History(table \union {row})
    PROVE  /\ TargetsOf(table \union {row}, row.scope)
                = Append(TargetsOf(table, row.scope), row.target)
           /\ \A scope : scope # row.scope =>
                TargetsOf(table \union {row}, scope) = TargetsOf(table, scope)
<1> DEFINE h == Height(table, row.scope)
           new == table \union {row}
           old == TargetsOf(table, row.scope)
           ext == TargetsOf(new, row.scope)
<1>1. h \in Nat
  BY HeightType DEF History
<1>2. Height(new, row.scope) = h + 1
  BY InsertAddsOne DEF History
<1>3. /\ DOMAIN old = 1 .. h
      /\ ext = [n \in 1 .. h + 1 |-> ext[n]]
      /\ old = [n \in 1 .. h |-> old[n]]
  BY <1>2 DEF TargetsOf, TargetsIn, Height
<1>4. ext[h + 1] = row.target
  BY <1>1, <1>2, TargetAt DEF History
<1>5. ASSUME NEW n \in 1 .. h
      PROVE  ext[n] = old[n]
  <2>1. n - 1 \in 0 .. h - 1
    BY <1>1
  <2>2. PICK at \in RowsOf(table, row.scope) : at.sequence = n - 1
    BY <2>1 DEF Contiguous
  <2>3. at \in table /\ at.scope = row.scope
    BY DEF RowsOf
  <2>4. old[n] = at.target
    BY <1>1, <2>1, <2>2, <2>3, TargetAt DEF History
  <2>5. ext[n] = at.target
    BY <1>1, <1>2, <2>1, <2>2, <2>3, TargetAt DEF History
  <2> QED
    BY <2>4, <2>5
<1>6. Len(old) = h
  BY <1>1, <1>3
<1>7. \A scope : scope # row.scope => TargetsOf(new, scope) = TargetsOf(table, scope)
  BY InsertAddsOne DEF TargetsOf, History
<1> HIDE DEF old, ext, h
<1>8. Append(old, row.target) = [n \in 1 .. h + 1 |-> IF n = h + 1 THEN row.target ELSE old[n]]
  BY <1>1, <1>3, <1>6
<1>9. ext = Append(old, row.target)
  <2>1. \A n \in 1 .. h + 1 : ext[n] = (IF n = h + 1 THEN row.target ELSE old[n])
    <3>1. \A n \in 1 .. h + 1 : n = h + 1 \/ n \in 1 .. h
      BY <1>1
    <3> QED
      BY <1>4, <1>5, <3>1
  <2>2. [n \in 1 .. h + 1 |-> ext[n]]
          = [n \in 1 .. h + 1 |-> IF n = h + 1 THEN row.target ELSE old[n]]
    BY <2>1
  <2> QED
    BY <1>3, <1>8, <2>2
<1> QED
  BY <1>7, <1>9 DEF old, ext

\* A scope without records has the empty history.
LEMMA EmptyTargets ==
    ASSUME NEW table, NEW scope, RowsOf(table, scope) = {}
    PROVE  TargetsOf(table, scope) = <<>>
<1>1. Cardinality({}) = 0
  BY FS_EmptySet
<1>2. DOMAIN TargetsOf(table, scope) = 1 .. 0
  BY <1>1 DEF TargetsOf, TargetsIn
<1>3. 1 .. 0 = {}
  OBVIOUS
<1>4. TargetsOf(table, scope) \in Seq({})
  BY <1>1 DEF TargetsOf, TargetsIn
<1> QED
  BY <1>1, <1>2, <1>3, <1>4

\* The history of a scope is as long as the scope has records.
LEMMA TargetsLength ==
    ASSUME NEW table, IsFiniteSet(table), NEW scope
    PROVE  Len(TargetsOf(table, scope)) = Height(table, scope)
<1>1. Height(table, scope) \in Nat
  BY HeightType
<1>2. DOMAIN TargetsOf(table, scope) = 1 .. Height(table, scope)
  BY DEF TargetsOf, TargetsIn, Height
<1> QED
  BY <1>1, <1>2

(***************************************************************************)
(* The pattern of every authority command: read the current row, and some  *)
(* time later append the successor of what was read if its slot is free.   *)
(***************************************************************************)

\* What a command that is about to append has read may be stale, but it was a
\* record of its own scope, for another target, and not above the top of the
\* history.
Usable(table, current, scope, target) ==
    /\ current = NoRow \/ (current \in table /\ current.scope = scope)
    /\ current.target # target
    /\ current.sequence + 1 <= Height(table, scope)

\* A row just read is usable unless it already has the target asked for.
LEMMA FreshReadIsUsable ==
    ASSUME NEW table, IsFiniteSet(table), NEW scope, Contiguous(table, scope),
           NEW target, target # None,
           NEW current \in CurrentAnswers(table, scope),
           current = NoRow \/ current.target # target
    PROVE  Usable(table, current, scope, target)
<1>1. /\ current.sequence + 1 = Height(table, scope)
      /\ current # NoRow => current \in table /\ current.scope = scope
  BY CurrentIsLast
<1>2. Height(table, scope) \in Nat
  BY HeightType
<1>3. NoRow.target = None
  BY DEF NoRow
<1> QED
  BY <1>1, <1>2, <1>3 DEF Usable

\* A table that only grows never gets lower.
LEMMA HeightGrows ==
    ASSUME NEW old, NEW new, IsFiniteSet(new), old \subseteq new, NEW scope
    PROVE  /\ Height(old, scope) \in Nat /\ Height(new, scope) \in Nat
           /\ Height(old, scope) <= Height(new, scope)
<1>1. IsFiniteSet(old)
  BY FS_Subset
<1>2. RowsOf(new, scope) \in SUBSET new /\ RowsOf(old, scope) \in SUBSET RowsOf(new, scope)
  BY DEF RowsOf
<1>3. IsFiniteSet(RowsOf(new, scope))
  BY <1>2, FS_Subset
<1>4. Cardinality(RowsOf(old, scope)) <= Cardinality(RowsOf(new, scope))
  BY <1>2, <1>3, FS_Subset
<1> QED
  BY <1>1, <1>4, HeightType DEF Height

\* What was usable stays usable while other commands append.
LEMMA UsableStays ==
    ASSUME NEW old, NEW new, IsFiniteSet(new), old \subseteq new,
           \A row \in old : row.sequence \in Int,
           NEW current, NEW scope, NEW target,
           Usable(old, current, scope, target)
    PROVE  Usable(new, current, scope, target)
<1>1. /\ Height(old, scope) \in Nat /\ Height(new, scope) \in Nat
      /\ Height(old, scope) <= Height(new, scope)
  BY HeightGrows
<1>2. current.sequence \in Int
  BY DEF Usable, NoRow
<1> QED
  BY <1>1, <1>2 DEF Usable

\* An append of the successor of a usable row, in a free slot, takes the top
\* of the history and keeps every history of the table well formed.
LEMMA AppendKeepsTable ==
    ASSUME NEW table, History(table), NEW current, NEW scope, NEW target, NEW note,
           Contiguous(table, scope), Usable(table, current, scope, target),
           NEW new, new = Successor(current, scope, target, note),
           ~SlotTaken(table, new)
    PROVE  /\ new \notin table
           /\ new.scope = scope /\ new.target = target /\ new.note = note
           /\ new.sequence \in Nat
           /\ new.sequence = current.sequence + 1
           /\ new.sequence = Height(table, scope)
           /\ Height(table \union {new}, scope) = Height(table, scope) + 1
           /\ History(table \union {new})
           /\ Contiguous(table \union {new}, scope)
           /\ \A other : other # scope =>
                /\ Height(table \union {new}, other) = Height(table, other)
                /\ Contiguous(table, other) => Contiguous(table \union {new}, other)
<1> DEFINE all == table \union {new}
<1>1. /\ new.scope = scope /\ new.target = target /\ new.note = note
      /\ new.sequence = current.sequence + 1
  BY DEF Successor
<1>2. History(all) /\ new.sequence \in Nat
  BY AppendKeepsHistory DEF Usable
<1>3. IsFiniteSet(table)
  BY DEF History
<1>4. ~SlotTaken(table, new) /\ new.sequence <= Height(table, scope)
  BY <1>1 DEF Usable
<1>5. new \notin table
  BY <1>4 DEF SlotTaken
<1>6. new.sequence = Height(table, scope) /\ Contiguous(all, scope)
  BY <1>1, <1>2, <1>3, <1>4, AppendKeepsContiguous
<1>7. /\ Height(all, scope) = Height(table, scope) + 1
      /\ \A other : other # scope => /\ RowsOf(all, other) = RowsOf(table, other)
                                     /\ Height(all, other) = Height(table, other)
  <2>1. /\ Height(all, new.scope) = Height(table, new.scope) + 1
        /\ \A other : other # new.scope => /\ RowsOf(all, other) = RowsOf(table, other)
                                           /\ Height(all, other) = Height(table, other)
    BY <1>3, <1>5, InsertAddsOne
  <2> QED
    BY <1>1, <2>1
<1>8. \A other : other # scope => (Contiguous(table, other) => Contiguous(all, other))
  BY <1>7 DEF Contiguous
<1> QED
  BY <1>1, <1>2, <1>5, <1>6, <1>7, <1>8

\* A step from one table to another that extends the log of one scope by a
\* target the log does not end with, and no other log.
Takes(old, new, scope, target) ==
    /\ TargetsOf(old, scope) # <<>> =>
          TargetsOf(old, scope)[Len(TargetsOf(old, scope))] # target
    /\ TargetsOf(new, scope) = Append(TargetsOf(old, scope), target)
    /\ \A other : other # scope => TargetsOf(new, other) = TargetsOf(old, other)

\* Such an append is a step of the abstract register.
LEMMA AppendTakes ==
    ASSUME NEW table, History(table), NEW current, NEW scope, NEW target, NEW note,
           Contiguous(table, scope), Usable(table, current, scope, target),
           NEW new, new = Successor(current, scope, target, note),
           ~SlotTaken(table, new)
    PROVE  Takes(table, table \union {new}, scope, target)
<1> DEFINE log == TargetsOf(table, scope)
           h == Height(table, scope)
<1>1. /\ new \notin table /\ new.scope = scope /\ new.target = target
      /\ new.sequence = current.sequence + 1 /\ new.sequence = h
      /\ History(table \union {new})
  BY AppendKeepsTable
<1>2. /\ TargetsOf(table \union {new}, scope) = Append(log, target)
      /\ \A other : other # scope =>
             TargetsOf(table \union {new}, other) = TargetsOf(table, other)
  <2>1. Contiguous(table, new.scope) /\ new.sequence = Height(table, new.scope)
    BY <1>1
  <2>2. /\ TargetsOf(table \union {new}, new.scope)
             = Append(TargetsOf(table, new.scope), new.target)
        /\ \A other : other # new.scope =>
               TargetsOf(table \union {new}, other) = TargetsOf(table, other)
    BY <1>1, <2>1, AppendExtendsTargets, ZenonT(60)
  <2> QED
    BY <1>1, <2>2
<1>3. h \in Nat /\ Len(log) = h
  BY HeightType, TargetsLength DEF History
<1>4. CASE current = NoRow
  <2>1. h = 0
    BY <1>1, <1>4 DEF NoRow
  <2>2. RowsOf(table, scope) = {}
    BY <2>1 DEF Contiguous
  <2> QED
    BY <1>2, <2>2, EmptyTargets DEF Takes
<1>5. CASE current # NoRow
  <2>1. current \in table /\ current.scope = scope /\ current.target # target
    BY <1>5 DEF Usable
  <2>2. current.sequence \in Nat /\ current.sequence + 1 = h
    BY <1>1, <2>1 DEF History
  <2>3. log[h] = current.target
    BY <1>3, <2>1, <2>2, TargetAt DEF History
  <2> QED
    BY <1>2, <1>3, <2>1, <2>3 DEF Takes
<1> QED
  BY <1>4, <1>5

\* The empty table is a well-formed history of every scope.
LEMMA EmptyHistory ==
    /\ History({})
    /\ \A scope : /\ Contiguous({}, scope) /\ Height({}, scope) = 0
                  /\ TargetsOf({}, scope) = <<>>
<1>1. \A scope : RowsOf({}, scope) = {} /\ Height({}, scope) = 0
  BY FS_EmptySet DEF RowsOf, Height
<1>2. History({})
  BY FS_EmptySet DEF History, Chained, NeverRepeats
<1>3. \A scope : Contiguous({}, scope)
  BY <1>1 DEF Contiguous
<1> QED
  BY <1>1, <1>2, <1>3, EmptyTargets

\* A gapless history passes the validator's comparison of its sequences.
LEMMA GaplessIsContiguous ==
    ASSUME NEW table, IsFiniteSet(table), \A row \in table : Contiguous(table, row.scope)
    PROVE  NoncontiguousSequences(table) = {}
<1> SUFFICES ASSUME NEW scope \in Scopes(table)
             PROVE  /\ Cardinality(Sequences(table, scope)) = Height(table, scope)
                    /\ Sequences(table, scope) = 0 .. Height(table, scope) - 1
  BY DEF NoncontiguousSequences
<1> DEFINE h == Height(table, scope)
<1>1. Contiguous(table, scope) /\ h \in Nat
  BY HeightType DEF Scopes
<1>2. Sequences(table, scope) = 0 .. h - 1
  BY <1>1 DEF Contiguous, Sequences
<1> HIDE DEF h
<1>3. Cardinality(0 .. h - 1) = h
  BY <1>1, FS_Interval
<1> QED
  BY <1>2, <1>3 DEF h

\* The validator has nothing to say against a well-formed history.
LEMMA ValidatorAgrees ==
    ASSUME NEW table, History(table), \A row \in table : Contiguous(table, row.scope)
    PROVE  HistoryIsValid(table)
<1>1. BrokenSupersessions(table) = {}
  <2> SUFFICES ASSUME NEW row \in table, row.previous # NoIdentity
               PROVE  \E old \in table : /\ Identity(old) = row.previous
                                         /\ old.scope = row.scope
                                         /\ old.sequence = row.sequence - 1
    BY DEF BrokenSupersessions
  <2> QED
    BY DEF History, Chained
<1>2. NoncontiguousSequences(table) = {}
  BY GaplessIsContiguous DEF History
<1> QED
  BY <1>1, <1>2 DEF HistoryIsValid
=============================================================================

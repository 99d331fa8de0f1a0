-------------------------- MODULE AuthorityHistory --------------------------
(***************************************************************************)
(* The insert-only authority table: the representation that Raw Transcript *)
(* Selection (v33), Correction Candidate Decision (v35), Corrected         *)
(* Revision Selection (v37) and SRT Publication (v46) all use for "who is  *)
(* current now".  A table is a set of rows                                 *)
(*                                                                         *)
(*     [scope, target, sequence, previous, note]                           *)
(*                                                                         *)
(* scope is what the authority is about (an intake, a candidate), target   *)
(* is what was chosen, previous is the identity of the row it supersedes,  *)
(* and note is provenance that is not part of the identity.  A row is      *)
(* never updated or deleted; the current row of a scope is the one of      *)
(* highest sequence.                                                       *)
(***************************************************************************)
EXTENDS Integers, FiniteSets

CONSTANT None                      \* the absent value (SQL NULL, Python None)

\* The identity digest covers scope, target and sequence and nothing else.
Identity(row) == <<row.scope, row.target, row.sequence>>
NoIdentity == <<>>

\* What a query returns when it finds no row.  Its sequence makes "0 if
\* current is None else current.sequence + 1" a single expression.
NoRow == [scope |-> None, target |-> None, sequence |-> -1,
          previous |-> NoIdentity, note |-> None]

RowsOf(table, scope) == {row \in table : row.scope = scope}

\* SELECT ... WHERE scope = ? ORDER BY sequence DESC LIMIT 1: the rows that
\* query may return (one row while the UNIQUE constraint holds).
Newest(table, scope) ==
    {row \in RowsOf(table, scope) :
        \A other \in RowsOf(table, scope) : other.sequence <= row.sequence}

CurrentAnswers(table, scope) ==
    IF Newest(table, scope) = {} THEN {NoRow} ELSE Newest(table, scope)

\* The record a command builds on the row it read as current.
Successor(current, scope, target, note) ==
    [scope    |-> scope,
     target   |-> target,
     sequence |-> current.sequence + 1,
     previous |-> IF current = NoRow THEN NoIdentity ELSE Identity(current),
     note     |-> note]

\* The three checks of the insert transaction.
IdentityExists(table, row) == \E old \in table : Identity(old) = Identity(row)

\* Mutant: UNIQUE (scope, sequence, target).
SlotTakenByTarget(table, row) ==
    \E old \in table : /\ old.scope = row.scope /\ old.sequence = row.sequence
                       /\ old.target = row.target

SlotTaken(table, row) ==           \* UNIQUE (scope, sequence)
    \E old \in table : old.scope = row.scope /\ old.sequence = row.sequence

ValidSupersession(table, row) ==
    \/ row.previous = NoIdentity
    \/ \E old \in table : /\ Identity(old) = row.previous
                          /\ old.scope = row.scope
                          /\ old.sequence = row.sequence - 1

(***************************************************************************)
(* What a well-formed history looks like.                                  *)
(***************************************************************************)

\* Sequence numbers of a scope start at 0, have no gap and no duplicate, and
\* every row names exactly the row before it.
Chained(table) ==
    /\ \A row, other \in table :
          row.scope = other.scope /\ row.sequence = other.sequence => row = other
    /\ \A row \in table :
          IF row.sequence = 0
          THEN row.previous = NoIdentity
          ELSE \E old \in table : /\ old.scope = row.scope
                                  /\ old.sequence = row.sequence - 1
                                  /\ row.previous = Identity(old)

\* A row always changes the target of the row it supersedes.
NeverRepeats(table) ==
    \A row, old \in table :
        row.scope = old.scope /\ row.sequence = old.sequence + 1
            => row.target # old.target

\* The number of records of a scope; while the history is well formed, the
\* sequence that the next one will take.
Height(table, scope) == Cardinality(RowsOf(table, scope))

\* The sequence numbers of a scope are exactly 0 .. Height - 1.
Contiguous(table, scope) ==
    /\ \A row \in RowsOf(table, scope) : row.sequence \in 0 .. Height(table, scope) - 1
    /\ \A n \in 0 .. Height(table, scope) - 1 :
          \E row \in RowsOf(table, scope) : row.sequence = n

\* The history of a scope as a sequence of targets, oldest first.
TargetsIn(rows) ==
    [n \in 1 .. Cardinality(rows) |-> (CHOOSE row \in rows : row.sequence = n - 1).target]

TargetsOf(table, scope) == TargetsIn(RowsOf(table, scope))
=============================================================================

------------------------- MODULE RepositoryValidator -------------------------
(***************************************************************************)
(* The read-only repository validator, as far as it looks at authority     *)
(* tables.  It repeats the same two SELECTs for each of them; each modelled *)
(* component adds the checks of its own lineage.  A check is a set of      *)
(* complaints, and a valid repository gives rise to none.                  *)
(***************************************************************************)
EXTENDS AuthorityHistory

Scopes(table) == {row.scope : row \in table}
Sequences(table, scope) == {row.sequence : row \in RowsOf(table, scope)}

\* GROUP BY scope HAVING COUNT(*) <> MAX(sequence) + 1 OR MIN(sequence) <> 0
\* OR COUNT(DISTINCT sequence) <> COUNT(*).
NoncontiguousSequences(table) ==
    {scope \in Scopes(table) :
        \/ Cardinality(Sequences(table, scope)) # Height(table, scope)
        \/ Sequences(table, scope) # 0 .. Height(table, scope) - 1}

\* A row that names a previous row names the one just before it in its scope.
BrokenSupersessions(table) ==
    {row \in table :
        /\ row.previous # NoIdentity
        /\ ~\E old \in table : /\ Identity(old) = row.previous
                               /\ old.scope = row.scope
                               /\ old.sequence = row.sequence - 1}

HistoryIsValid(table) ==
    NoncontiguousSequences(table) = {} /\ BrokenSupersessions(table) = {}
=============================================================================

----------------------- MODULE CandidateDecisionProofs -----------------------
(***************************************************************************)
(* Proofs about CandidateDecision, for any candidates, reviewers, commands *)
(* and queries.  One inductive invariant covers the table, what each       *)
(* command has read and reports, and what each query has counted; what a   *)
(* command relies on is stated so that the growth of the table, all that   *)
(* other commands can do to it, keeps it true.                             *)
(***************************************************************************)
EXTENDS CandidateDecision, AuthorityHistoryProofs

DecisionRow ==
    [scope : Candidate, target : Decidable, sequence : Nat,
     previous : {NoIdentity} \union (Candidate \X Decidable \X Nat), note : Note]

MaybeRow == DecisionRow \union {NoRow}

CommandState ==
    [pc : Running \union {"idle", "returned", "killed"},
     candidate : Candidate \union {None}, kind : Kind \union {None},
     note : Note \union {None}, current : MaybeRow,
     outcome : Outcomes \union {None}, decision : MaybeRow]

ReaderState ==
    [pc : {"idle", "history", "current", "returned"},
     candidate : Admitted \union {None}, count : Nat, current : MaybeRow]

TypeInv ==
    /\ decisions \subseteq DecisionRow /\ IsFiniteSet(decisions)
    /\ command \in [Command -> CommandState]
    /\ reader \in [Reader -> ReaderState]
    /\ heightAtStart \in [Reader -> Nat]

\* Every recorded decision was asked for by a command that is still known.
Requested(row) ==
    \E d \in Command : /\ command[d].candidate = row.scope
                       /\ command[d].kind = row.target
                       /\ command[d].note = row.note

TableInv ==
    /\ History(decisions)
    /\ \A k \in Candidate : Contiguous(decisions, k)
    /\ \A row \in decisions : Requested(row)

\* Somebody's different judgment of c's candidate is on record.
Contradicted(c) ==
    \E row \in decisions : /\ row.scope = command[c].candidate
                           /\ <<row.target, row.note>> # <<command[c].kind, command[c].note>>

Deciding == {"lookup", "persist", "resolve"}

\* The bookkeeping of one command: its arguments; what it has read and builds
\* on; that a collision it resolves is with a recorded decision; that a
\* decision it reports carries its provenance; and what refused it.
CallInv(c) ==
    /\ command[c].pc = "idle" => command[c] = NotStarted
    /\ command[c].pc # "idle" =>
          /\ command[c].candidate \in Candidate
          /\ command[c].kind \in Kind
          /\ command[c].note \in Note
    /\ command[c].pc # "returned" => command[c].outcome = None
    /\ command[c].pc \in Deciding =>
          /\ WellFormed(c)
          /\ Usable(decisions, command[c].current, command[c].candidate, command[c].kind)
    /\ command[c].pc = "resolve" => SlotTaken(decisions, NewDecision(c))
    /\ command[c].outcome \in {"recorded", "changed"} =>
          command[c].decision.note = command[c].note
    /\ command[c].outcome \in {"collision", "conflict"} => Contradicted(c)

\* The bookkeeping of one query: the height it started from is still there,
\* and its count is between that height and the present one.
QueryInv(r) ==
    LET k == reader[r].candidate
    IN  /\ reader[r].pc # "idle" => k \in Candidate
        /\ reader[r].pc = "history" => heightAtStart[r] <= Height(decisions, k)
        /\ reader[r].pc = "current" => /\ heightAtStart[r] <= reader[r].count
                                       /\ reader[r].count <= Height(decisions, k)
        /\ reader[r].pc = "returned" => /\ heightAtStart[r] <= reader[r].count
                                        /\ reader[r].count <= reader[r].current.sequence + 1

Inv ==
    /\ TypeInv
    /\ TableInv
    /\ \A c \in Command : CallInv(c)
    /\ \A r \in Reader : QueryInv(r)

-----------------------------------------------------------------------------
(* What the steps do to a command's local state. *)

\* What a query for the current decision may return is a typed row or none.
LEMMA AnswerType ==
    ASSUME TypeInv, NEW k, NEW current \in CurrentAnswers(decisions, k)
    PROVE  current \in MaybeRow
BY DEF TypeInv, CurrentAnswers, Newest, RowsOf, MaybeRow

\* A return keeps the arguments and what was read.
LEMMA ReturnEffect ==
    ASSUME TypeInv, NEW c \in Command, NEW outcome \in Outcomes, NEW row \in MaybeRow,
           Return(c, outcome, row)
    PROVE  /\ command' \in [Command -> CommandState]
           /\ \A d \in Command \ {c} : command'[d] = command[d]
           /\ command'[c].pc = "returned"
           /\ command'[c].outcome = outcome /\ command'[c].decision = row
           /\ command'[c].candidate = command[c].candidate
           /\ command'[c].kind = command[c].kind
           /\ command'[c].note = command[c].note
<1>1. command \in [Command -> CommandState] /\ command[c] \in CommandState
  BY DEF TypeInv
<1>2. command'[c] = [command[c] EXCEPT !.pc = "returned", !.outcome = outcome,
                                       !.decision = row]
  BY <1>1 DEF Return, CommandState
<1>3. /\ command'[c] \in CommandState
      /\ command'[c].pc = "returned"
      /\ command'[c].outcome = outcome /\ command'[c].decision = row
      /\ command'[c].candidate = command[c].candidate
      /\ command'[c].kind = command[c].kind
      /\ command'[c].note = command[c].note
  BY <1>1, <1>2 DEF CommandState
<1> QED
  BY <1>1, <1>3 DEF Return

\* A step that goes on changes the place, and perhaps what was read.
GoesOn(c, pc, current) == command' = [command EXCEPT ![c].pc = pc, ![c].current = current]

LEMMA GoOnEffect ==
    ASSUME TypeInv, NEW c \in Command, NEW pc \in Running \union {"killed"},
           NEW current \in MaybeRow, GoesOn(c, pc, current)
    PROVE  /\ command' \in [Command -> CommandState]
           /\ \A d \in Command \ {c} : command'[d] = command[d]
           /\ command'[c].pc = pc /\ command'[c].current = current
           /\ command'[c].outcome = command[c].outcome
           /\ command'[c].decision = command[c].decision
           /\ command'[c].candidate = command[c].candidate
           /\ command'[c].kind = command[c].kind
           /\ command'[c].note = command[c].note
<1>1. command \in [Command -> CommandState] /\ command[c] \in CommandState
  BY DEF TypeInv
<1>2. command'[c] = [command[c] EXCEPT !.pc = pc, !.current = current]
  BY <1>1 DEF CommandState, GoesOn
<1>3. /\ command'[c] \in CommandState
      /\ command'[c].pc = pc /\ command'[c].current = current
      /\ command'[c].outcome = command[c].outcome
      /\ command'[c].decision = command[c].decision
      /\ command'[c].candidate = command[c].candidate
      /\ command'[c].kind = command[c].kind
      /\ command'[c].note = command[c].note
  BY <1>1, <1>2 DEF CommandState
<1> QED
  BY <1>1, <1>3 DEF GoesOn

LEMMA GotoEffect ==
    ASSUME TypeInv, NEW c \in Command, NEW pc, command' = [command EXCEPT ![c].pc = pc]
    PROVE  GoesOn(c, pc, command[c].current)
BY DEF TypeInv, CommandState, GoesOn

-----------------------------------------------------------------------------
(* Steps of one command seen from the rest of the system. *)

\* The table only grows, so a command that does not move stays right.
LEMMA CallKept ==
    ASSUME TypeInv, TypeInv', decisions \subseteq decisions',
           NEW d \in Command, CallInv(d), command'[d] = command[d]
    PROVE  CallInv(d)'
<1>1. \A row \in decisions : row.sequence \in Int
  BY DEF TypeInv, DecisionRow
<1>2. command[d].pc \in Deciding =>
          Usable(decisions', command[d].current, command[d].candidate, command[d].kind)
  BY <1>1, UsableStays DEF CallInv, TypeInv
<1>3. Contradicted(d) => Contradicted(d)'
  BY DEF Contradicted
<1>4. NewDecision(d)' = NewDecision(d)
  BY DEF NewDecision
<1>5. SlotTaken(decisions, NewDecision(d)) => SlotTaken(decisions', NewDecision(d)')
  BY <1>4 DEF SlotTaken
<1>6. WellFormed(d) => WellFormed(d)'
  BY DEF WellFormed
<1> QED
  BY <1>2, <1>3, <1>5, <1>6 DEF CallInv

\* So does a query.
LEMMA QueryKept ==
    ASSUME TypeInv, TypeInv', decisions \subseteq decisions',
           NEW r \in Reader, QueryInv(r),
           reader'[r] = reader[r], heightAtStart'[r] = heightAtStart[r]
    PROVE  QueryInv(r)'
<1> DEFINE k == reader[r].candidate
<1>1. /\ Height(decisions, k) \in Nat /\ Height(decisions', k) \in Nat
      /\ Height(decisions, k) <= Height(decisions', k)
  BY HeightGrows DEF TypeInv
<1>2. heightAtStart[r] \in Nat /\ reader[r].count \in Nat
  BY DEF TypeInv, ReaderState
<1> QED
  BY <1>1, <1>2 DEF QueryInv

\* A command that has recorded something keeps its request.
LEMMA RequestsStay ==
    ASSUME Inv, NEW c \in Command,
           \A d \in Command \ {c} : command'[d] = command[d],
           \/ /\ command'[c].candidate = command[c].candidate
              /\ command'[c].kind = command[c].kind
              /\ command'[c].note = command[c].note
           \/ command[c].candidate = None
    PROVE  \A row \in decisions : Requested(row)'
<1> SUFFICES ASSUME NEW row \in decisions PROVE Requested(row)'
  OBVIOUS
<1>1. PICK d \in Command : /\ command[d].candidate = row.scope
                           /\ command[d].kind = row.target
                           /\ command[d].note = row.note
  BY DEF Inv, TableInv, Requested
<1>2. row.scope # None
  BY NoneAssumption DEF Inv, TypeInv, DecisionRow
<1> QED
  BY <1>1, <1>2 DEF Requested

\* A command's step that leaves the table alone has only its own bookkeeping
\* to keep right.
LEMMA LocalStep ==
    ASSUME Inv, NEW c \in Command,
           command' \in [Command -> CommandState],
           \A d \in Command \ {c} : command'[d] = command[d],
           \/ /\ command'[c].candidate = command[c].candidate
              /\ command'[c].kind = command[c].kind
              /\ command'[c].note = command[c].note
           \/ command[c].candidate = None,
           UNCHANGED <<decisions, reader, heightAtStart>>,
           CallInv(c)'
    PROVE  Inv'
<1>1. TypeInv'
  BY DEF Inv, TypeInv
<1>2. TableInv'
  BY RequestsStay DEF Inv, TableInv
<1>3. \A d \in Command : CallInv(d)'
  BY <1>1, CallKept DEF Inv
<1>4. \A r \in Reader : QueryInv(r)'
  BY <1>1, QueryKept DEF Inv
<1> QED
  BY <1>1, <1>2, <1>3, <1>4 DEF Inv

-----------------------------------------------------------------------------
(* The steps of a command. *)

LEMMA InvokeKeeps ==
    ASSUME Inv, NEW c \in Command, NEW k \in Candidate, NEW kind \in Kind,
           NEW note \in Note, Invoke(c, k, kind, note)
    PROVE  Inv'
<1>1. command[c] = NotStarted /\ command \in [Command -> CommandState]
  BY DEF Invoke, Inv, CallInv, TypeInv
<1>2. command'[c] = [command[c] EXCEPT !.pc = "read", !.candidate = k,
                                       !.kind = kind, !.note = note]
  BY <1>1 DEF Invoke
<1>3. command'[c] = [NotStarted EXCEPT !.pc = "read", !.candidate = k,
                                       !.kind = kind, !.note = note]
  BY <1>1, <1>2
<1>4. /\ command'[c].pc = "read" /\ command'[c].candidate = k
      /\ command'[c].kind = kind /\ command'[c].note = note
      /\ command'[c].outcome = None /\ command'[c] \in CommandState
  BY <1>3 DEF NotStarted, CommandState, Running, MaybeRow
<1>5. /\ command' \in [Command -> CommandState]
      /\ \A d \in Command \ {c} : command'[d] = command[d]
  BY <1>1, <1>4 DEF Invoke
<1>6. CallInv(c)'
  BY <1>4, NoneAssumption DEF CallInv, Deciding, Outcomes
<1>7. command[c].candidate = None
  BY <1>1 DEF NotStarted
<1> QED
  BY <1>5, <1>6, <1>7, LocalStep DEF Invoke

LEMMA RejectInputKeeps ==
    ASSUME Inv, NEW c \in Command, RejectInput(c)
    PROVE  Inv'
<1>1. /\ command' \in [Command -> CommandState]
      /\ \A d \in Command \ {c} : command'[d] = command[d]
      /\ command'[c].pc = "returned" /\ command'[c].outcome = "rejected"
      /\ command'[c].candidate = command[c].candidate
      /\ command'[c].kind = command[c].kind
      /\ command'[c].note = command[c].note
  BY ReturnEffect DEF Inv, RejectInput, Outcomes, MaybeRow
<1>2. CallInv(c)'
  BY <1>1 DEF RejectInput, Inv, CallInv, Deciding
<1> QED
  BY <1>1, <1>2, LocalStep DEF RejectInput

\* The row just read is either the decision asked for or one to build on.
LEMMA ReadCurrentKeeps ==
    ASSUME Inv, NEW c \in Command, ReadCurrent(c)
    PROVE  Inv'
<1> DEFINE k == command[c].candidate
<1>1. /\ TypeInv /\ CallInv(c) /\ command[c].pc = "read"
      /\ WellFormed(c) /\ k \in Candidate
      /\ command[c].kind \in Kind /\ command[c].note \in Note
      /\ command[c].outcome = None
      /\ UNCHANGED <<decisions, reader, heightAtStart>>
  BY DEF ReadCurrent, Inv, CallInv
<1>2. PICK current \in CurrentAnswers(decisions, k) :
         \/ /\ current # NoRow /\ current.target = command[c].kind
            /\ Return(c, "reused", current)
         \/ /\ current = NoRow \/ current.target # command[c].kind
            /\ GoesOn(c, "lookup", current)
  BY DEF ReadCurrent, GoesOn
<1>3. current \in MaybeRow
  BY <1>1, AnswerType
<1>4. CASE Return(c, "reused", current)
  <2>1. /\ command' \in [Command -> CommandState]
        /\ \A d \in Command \ {c} : command'[d] = command[d]
        /\ command'[c].pc = "returned" /\ command'[c].outcome = "reused"
        /\ command'[c].candidate = command[c].candidate
        /\ command'[c].kind = command[c].kind
        /\ command'[c].note = command[c].note
    BY <1>1, <1>3, <1>4, ReturnEffect DEF Outcomes
  <2>2. CallInv(c)'
    BY <1>1, <2>1 DEF CallInv, Deciding
  <2> QED
    BY <1>1, <2>1, <2>2, LocalStep
<1>5. CASE /\ current = NoRow \/ current.target # command[c].kind
           /\ GoesOn(c, "lookup", current)
  <2>1. /\ command' \in [Command -> CommandState]
        /\ \A d \in Command \ {c} : command'[d] = command[d]
        /\ command'[c].pc = "lookup" /\ command'[c].current = current
        /\ command'[c].outcome = command[c].outcome
        /\ command'[c].candidate = command[c].candidate
        /\ command'[c].kind = command[c].kind
        /\ command'[c].note = command[c].note
    BY <1>1, <1>3, <1>5, GoOnEffect DEF Running
  <2>2. Usable(decisions, current, k, command[c].kind)
    BY <1>1, <1>5, FreshReadIsUsable, NoneAssumption DEF Inv, TypeInv, TableInv
  <2>3. CallInv(c)'
    BY <1>1, <2>1, <2>2, NoneAssumption DEF CallInv, Deciding, WellFormed, Outcomes
  <2> QED
    BY <1>1, <2>1, <2>3, LocalStep
<1> QED
  BY <1>2, <1>4, <1>5

\* What the identity of a computed decision covers.
LEMMA SameIdentityMeans ==
    ASSUME NEW c \in Command, NEW row \in SameIdentity(c)
    PROVE  /\ row \in decisions /\ row.scope = command[c].candidate
           /\ row.target = command[c].kind
           /\ row.sequence = NewDecision(c).sequence
           /\ NewDecision(c).note = command[c].note
           /\ NewDecision(c).scope = command[c].candidate
BY DEF SameIdentity, NewDecision, Successor, Identity

LEMMA LookupExistingKeeps ==
    ASSUME Inv, NEW c \in Command, LookupExisting(c)
    PROVE  Inv'
<1>1. /\ TypeInv /\ CallInv(c) /\ command[c].pc = "lookup"
      /\ WellFormed(c) /\ command[c].candidate \in Candidate
      /\ command[c].kind \in Kind /\ command[c].note \in Note
      /\ Usable(decisions, command[c].current, command[c].candidate, command[c].kind)
      /\ command[c].outcome = None
      /\ UNCHANGED <<decisions, reader, heightAtStart>>
  BY DEF LookupExisting, Inv, CallInv, Deciding
<1>2. command[c].current \in MaybeRow
  BY <1>1 DEF TypeInv, CommandState
<1>3. CASE SameIdentity(c) = {}
  <2> GoesOn(c, "persist", command[c].current)
    BY <1>1, <1>3, GotoEffect DEF LookupExisting
  <2>1. /\ command' \in [Command -> CommandState]
        /\ \A d \in Command \ {c} : command'[d] = command[d]
        /\ command'[c].pc = "persist" /\ command'[c].current = command[c].current
        /\ command'[c].outcome = command[c].outcome
        /\ command'[c].candidate = command[c].candidate
        /\ command'[c].kind = command[c].kind
        /\ command'[c].note = command[c].note
    BY <1>1, <1>2, GoOnEffect DEF Running
  <2>2. CallInv(c)'
    BY <1>1, <2>1, NoneAssumption DEF CallInv, Deciding, WellFormed, Outcomes
  <2> QED
    BY <1>1, <2>1, <2>2, LocalStep
<1>4. CASE SameIdentity(c) # {}
  <2>1. PICK row \in SameIdentity(c) :
           IF SameFingerprint(row, NewDecision(c))
           THEN Return(c, OutcomeOf(row), row)
           ELSE Return(c, "conflict", NoRow)
    BY <1>4 DEF LookupExisting
  <2>2. /\ row \in decisions /\ row \in MaybeRow /\ row.scope = command[c].candidate
        /\ NewDecision(c).note = command[c].note
    BY <1>1, SameIdentityMeans DEF TypeInv, MaybeRow
  <2>3. CASE SameFingerprint(row, NewDecision(c))
    <3>1. OutcomeOf(row) \in {"recorded", "changed"}
      BY DEF OutcomeOf
    <3>2. /\ command' \in [Command -> CommandState]
          /\ \A d \in Command \ {c} : command'[d] = command[d]
          /\ command'[c].pc = "returned" /\ command'[c].outcome = OutcomeOf(row)
          /\ command'[c].decision = row
          /\ command'[c].candidate = command[c].candidate
          /\ command'[c].kind = command[c].kind
          /\ command'[c].note = command[c].note
      BY <1>1, <2>1, <2>2, <2>3, <3>1, ReturnEffect DEF Outcomes
    <3>3. CallInv(c)'
      BY <1>1, <2>2, <2>3, <3>1, <3>2 DEF CallInv, Deciding, SameFingerprint
    <3> QED
      BY <1>1, <3>2, <3>3, LocalStep
  <2>4. CASE ~SameFingerprint(row, NewDecision(c))
    <3>1. /\ command' \in [Command -> CommandState]
          /\ \A d \in Command \ {c} : command'[d] = command[d]
          /\ command'[c].pc = "returned" /\ command'[c].outcome = "conflict"
          /\ command'[c].candidate = command[c].candidate
          /\ command'[c].kind = command[c].kind
          /\ command'[c].note = command[c].note
      BY <1>1, <2>1, <2>4, ReturnEffect DEF Outcomes, MaybeRow
    <3>2. Contradicted(c)'
      BY <1>1, <2>2, <2>4, <3>1 DEF Contradicted, SameFingerprint
    <3>3. CallInv(c)'
      BY <1>1, <3>1, <3>2 DEF CallInv, Deciding
    <3> QED
      BY <1>1, <3>1, <3>3, LocalStep
  <2> QED
    BY <2>3, <2>4
<1> QED
  BY <1>3, <1>4

\* An insert takes the top of its candidate's history, in the name of the
\* command that inserts it; nobody else notices more than the growth.
LEMMA PersistKeeps ==
    ASSUME Inv, NEW c \in Command, Persist(c)
    PROVE  Inv'
<1> DEFINE k == command[c].candidate
<1>0. PICK new : new = NewDecision(c)
  OBVIOUS
<1>1. /\ TypeInv /\ TableInv /\ CallInv(c) /\ command[c].pc = "persist"
      /\ WellFormed(c) /\ k \in Candidate /\ command[c].kind \in Decidable
      /\ command[c].note \in Note /\ command[c].current \in MaybeRow
      /\ Usable(decisions, command[c].current, k, command[c].kind)
      /\ ~SlotTaken(decisions, new)
      /\ decisions' = decisions \union {new}
      /\ UNCHANGED <<reader, heightAtStart>>
  BY <1>0 DEF Persist, Inv, TypeInv, CallInv, Deciding, WellFormed, CommandState
<1>2. /\ new.scope = k /\ new.target = command[c].kind /\ new.note = command[c].note
      /\ new.sequence = command[c].current.sequence + 1
      /\ History(decisions')
      /\ Contiguous(decisions', k)
      /\ \A other : other # k => (Contiguous(decisions, other) => Contiguous(decisions', other))
      /\ new.sequence \in Nat
  <2>1. Contiguous(decisions, k) /\ History(decisions)
    BY <1>1 DEF TableInv
  <2>2. new = Successor(command[c].current, k, command[c].kind, command[c].note)
    BY <1>0 DEF NewDecision
  <2> QED
    BY <1>1, <2>1, <2>2, AppendKeepsTable
<1>3. new \in DecisionRow
  <2>1. new.previous \in {NoIdentity} \union (Candidate \X Decidable \X Nat)
    BY <1>0, <1>1 DEF NewDecision, Successor, Identity, MaybeRow, DecisionRow
  <2> QED
    BY <1>0, <1>1, <1>2, <2>1 DEF NewDecision, Successor, DecisionRow
<1>4. PICK outcome \in {"recorded", "changed"} : Return(c, outcome, new)
  BY <1>0 DEF Persist
<1>5. /\ command' \in [Command -> CommandState]
      /\ \A d \in Command \ {c} : command'[d] = command[d]
      /\ command'[c].pc = "returned" /\ command'[c].outcome = outcome
      /\ command'[c].decision = new
      /\ command'[c].candidate = k
      /\ command'[c].kind = command[c].kind
      /\ command'[c].note = command[c].note
  BY <1>1, <1>3, <1>4, ReturnEffect DEF Outcomes, MaybeRow
<1>6. TypeInv'
  BY <1>1, <1>3, <1>5, FS_AddElement DEF TypeInv
<1>7. TableInv'
  <2>1. \A row \in decisions : Requested(row)'
    BY <1>5, RequestsStay
  <2>2. Requested(new)'
    BY <1>2, <1>5 DEF Requested
  <2>3. \A j \in Candidate : Contiguous(decisions', j)
    BY <1>1, <1>2 DEF TableInv
  <2> QED
    BY <1>1, <1>2, <2>1, <2>2, <2>3 DEF TableInv
<1>8. CallInv(c)'
  BY <1>1, <1>2, <1>5 DEF CallInv, Deciding
<1>9. \A d \in Command : CallInv(d)'
  BY <1>1, <1>5, <1>6, <1>8, CallKept DEF Inv
<1>10. \A r \in Reader : QueryInv(r)'
  BY <1>1, <1>6, QueryKept DEF Inv
<1> QED
  BY <1>6, <1>7, <1>9, <1>10 DEF Inv

\* Both refusals of the insert mean that the place in the history is taken.
LEMMA PersistCollidesKeeps ==
    ASSUME Inv, NEW c \in Command, PersistCollides(c)
    PROVE  Inv'
<1>1. /\ TypeInv /\ CallInv(c) /\ command[c].pc = "persist"
      /\ command[c].current \in MaybeRow
      /\ UNCHANGED <<decisions, reader, heightAtStart>>
  BY DEF PersistCollides, Inv, TypeInv, CommandState
<1>2. SlotTaken(decisions, NewDecision(c))
  BY DEF PersistCollides, IdentityExists, Identity, SlotTaken
<1>3. GoesOn(c, "resolve", command[c].current)
  BY <1>1, GotoEffect DEF PersistCollides
<1>4. /\ command' \in [Command -> CommandState]
      /\ \A d \in Command \ {c} : command'[d] = command[d]
      /\ command'[c].pc = "resolve" /\ command'[c].current = command[c].current
      /\ command'[c].outcome = command[c].outcome
      /\ command'[c].candidate = command[c].candidate
      /\ command'[c].kind = command[c].kind
      /\ command'[c].note = command[c].note
  BY <1>1, <1>3, GoOnEffect DEF Running
<1>5. SlotTaken(decisions, NewDecision(c))'
  BY <1>1, <1>2, <1>4 DEF SlotTaken, NewDecision
<1>6. CallInv(c)'
  BY <1>1, <1>4, <1>5, NoneAssumption DEF CallInv, Deciding, WellFormed, Outcomes
<1> QED
  BY <1>1, <1>4, <1>6, LocalStep

LEMMA PersistFailsKeeps ==
    ASSUME Inv, NEW c \in Command, PersistFails(c)
    PROVE  Inv'
<1>1. /\ command' \in [Command -> CommandState]
      /\ \A d \in Command \ {c} : command'[d] = command[d]
      /\ command'[c].pc = "returned" /\ command'[c].outcome = "error"
      /\ command'[c].candidate = command[c].candidate
      /\ command'[c].kind = command[c].kind
      /\ command'[c].note = command[c].note
  BY ReturnEffect DEF Inv, PersistFails, Outcomes, MaybeRow
<1>2. CallInv(c)'
  BY <1>1 DEF PersistFails, Inv, CallInv, Deciding
<1> QED
  BY <1>1, <1>2, LocalStep DEF PersistFails

\* A collision is resolved to a decision with the command's own provenance,
\* or raised because the place went to another judgment.
LEMMA ResolveKeeps ==
    ASSUME Inv, NEW c \in Command, Resolve(c)
    PROVE  Inv'
<1>1. /\ TypeInv /\ CallInv(c) /\ command[c].pc = "resolve"
      /\ WellFormed(c) /\ command[c].candidate \in Candidate
      /\ command[c].kind \in Kind /\ command[c].note \in Note
      /\ SlotTaken(decisions, NewDecision(c))
      /\ UNCHANGED <<decisions, reader, heightAtStart>>
  BY DEF Resolve, Inv, CallInv, Deciding
<1>2. CASE ResolvesTo(c) # {}
  <2>1. PICK row \in ResolvesTo(c) : Return(c, OutcomeOf(row), row)
    BY <1>2 DEF Resolve
  <2>2. /\ row \in MaybeRow /\ row.note = command[c].note
        /\ OutcomeOf(row) \in {"recorded", "changed"}
    BY <1>1, SameIdentityMeans DEF ResolvesTo, SameFingerprint, TypeInv, MaybeRow, OutcomeOf
  <2>3. /\ command' \in [Command -> CommandState]
        /\ \A d \in Command \ {c} : command'[d] = command[d]
        /\ command'[c].pc = "returned" /\ command'[c].outcome = OutcomeOf(row)
        /\ command'[c].decision = row
        /\ command'[c].candidate = command[c].candidate
        /\ command'[c].kind = command[c].kind
        /\ command'[c].note = command[c].note
    BY <1>1, <2>1, <2>2, ReturnEffect DEF Outcomes
  <2>4. CallInv(c)'
    BY <1>1, <2>2, <2>3 DEF CallInv, Deciding
  <2> QED
    BY <1>1, <2>3, <2>4, LocalStep
<1>3. CASE ResolvesTo(c) = {}
  <2>1. /\ command' \in [Command -> CommandState]
        /\ \A d \in Command \ {c} : command'[d] = command[d]
        /\ command'[c].pc = "returned" /\ command'[c].outcome = "collision"
        /\ command'[c].candidate = command[c].candidate
        /\ command'[c].kind = command[c].kind
        /\ command'[c].note = command[c].note
    BY <1>1, <1>3, ReturnEffect DEF Resolve, Outcomes, MaybeRow
  <2>2. PICK old \in decisions : /\ old.scope = NewDecision(c).scope
                                 /\ old.sequence = NewDecision(c).sequence
    BY <1>1 DEF SlotTaken
  <2>3. /\ NewDecision(c).scope = command[c].candidate
        /\ NewDecision(c).target = command[c].kind
        /\ NewDecision(c).note = command[c].note
    BY DEF NewDecision, Successor
  <2>4. old.target # command[c].kind \/ old.note # command[c].note
    BY <1>3, <2>2, <2>3 DEF ResolvesTo, SameIdentity, SameFingerprint, Identity
  <2>5. Contradicted(c)'
    BY <1>1, <2>1, <2>2, <2>3, <2>4 DEF Contradicted
  <2>6. CallInv(c)'
    BY <1>1, <2>1, <2>5 DEF CallInv, Deciding
  <2> QED
    BY <1>1, <2>1, <2>6, LocalStep
<1> QED
  BY <1>2, <1>3

LEMMA KillKeeps ==
    ASSUME Inv, NEW c \in Command, Kill(c)
    PROVE  Inv'
<1>1. /\ TypeInv /\ CallInv(c) /\ command[c].pc \in Running
      /\ command[c].current \in MaybeRow
      /\ UNCHANGED <<decisions, reader, heightAtStart>>
  BY DEF Kill, Inv, TypeInv, CommandState
<1>2. GoesOn(c, "killed", command[c].current)
  BY <1>1, GotoEffect DEF Kill
<1>3. /\ command' \in [Command -> CommandState]
      /\ \A d \in Command \ {c} : command'[d] = command[d]
      /\ command'[c].pc = "killed"
      /\ command'[c].outcome = command[c].outcome
      /\ command'[c].candidate = command[c].candidate
      /\ command'[c].kind = command[c].kind
      /\ command'[c].note = command[c].note
  BY <1>1, <1>2, GoOnEffect
<1>4. CallInv(c)'
  BY <1>1, <1>3, NoneAssumption DEF CallInv, Deciding, Running, Outcomes
<1> QED
  BY <1>1, <1>3, <1>4, LocalStep

-----------------------------------------------------------------------------
(* The steps of a query. *)

LEMMA AskAuthorityKeeps ==
    ASSUME Inv, NEW r \in Reader, NEW k \in Admitted, AskAuthority(r, k)
    PROVE  Inv'
<1>1. /\ TypeInv /\ reader[r].pc = "idle" /\ k \in Candidate
      /\ UNCHANGED <<decisions, command>>
      /\ reader' = [reader EXCEPT ![r].pc = "history", ![r].candidate = k]
      /\ heightAtStart' = [heightAtStart EXCEPT ![r] = Height(decisions, k)]
  BY AdmittedAssumption DEF AskAuthority, Inv
<1>2. /\ reader \in [Reader -> ReaderState] /\ reader[r] \in ReaderState
      /\ heightAtStart \in [Reader -> Nat]
      /\ Height(decisions, k) \in Nat
  BY <1>1, HeightType DEF TypeInv
<1>3. reader'[r] = [reader[r] EXCEPT !.pc = "history", !.candidate = k]
  BY <1>1, <1>2
<1>4. reader'[r] \in ReaderState /\ reader'[r].pc = "history" /\ reader'[r].candidate = k
  BY <1>2, <1>3 DEF ReaderState
<1>5. TypeInv'
  BY <1>1, <1>2, <1>4 DEF TypeInv
<1>6. /\ TableInv' /\ \A c \in Command : CallInv(c)'
  BY <1>1, <1>5, CallKept DEF Inv, TableInv, Requested
<1>7. QueryInv(r)'
  BY <1>1, <1>2, <1>4 DEF QueryInv
<1>8. \A q \in Reader : QueryInv(q)'
  BY <1>1, <1>2, <1>5, <1>7, QueryKept DEF Inv
<1> QED
  BY <1>5, <1>6, <1>8 DEF Inv

LEMMA ReadHistoryKeeps ==
    ASSUME Inv, NEW r \in Reader, ReadHistory(r)
    PROVE  Inv'
<1> DEFINE k == reader[r].candidate
<1>1. /\ TypeInv /\ reader[r].pc = "history" /\ QueryInv(r)
      /\ UNCHANGED <<decisions, command, heightAtStart>>
      /\ reader' = [reader EXCEPT ![r].pc = "current", ![r].count = Height(decisions, k)]
  BY DEF ReadHistory, Inv
<1>2. /\ reader \in [Reader -> ReaderState] /\ reader[r] \in ReaderState
      /\ Height(decisions, k) \in Nat
  BY <1>1, HeightType DEF TypeInv
<1>3. reader'[r] = [reader[r] EXCEPT !.pc = "current", !.count = Height(decisions, k)]
  BY <1>1, <1>2
<1>4. /\ reader'[r] \in ReaderState /\ reader'[r].pc = "current"
      /\ reader'[r].candidate = k /\ reader'[r].count = Height(decisions, k)
  BY <1>2, <1>3 DEF ReaderState
<1>5. TypeInv'
  BY <1>1, <1>2, <1>4 DEF TypeInv
<1>6. /\ TableInv' /\ \A c \in Command : CallInv(c)'
  BY <1>1, <1>5, CallKept DEF Inv, TableInv, Requested
<1>7. QueryInv(r)'
  BY <1>1, <1>2, <1>4 DEF QueryInv
<1>8. \A q \in Reader : QueryInv(q)'
  BY <1>1, <1>2, <1>5, <1>7, QueryKept DEF Inv
<1> QED
  BY <1>5, <1>6, <1>8 DEF Inv

\* The current decision is read last, so it is at least as recent as the
\* count.
LEMMA ReadAuthorityKeeps ==
    ASSUME Inv, NEW r \in Reader, ReadAuthority(r)
    PROVE  Inv'
<1> DEFINE k == reader[r].candidate
           h == Height(decisions, k)
<1>1. /\ TypeInv /\ TableInv /\ reader[r].pc = "current" /\ QueryInv(r)
      /\ k \in Candidate
      /\ UNCHANGED <<decisions, command, heightAtStart>>
  BY DEF ReadAuthority, Inv, QueryInv
<1>2. PICK current \in CurrentAnswers(decisions, k) :
         reader' = [reader EXCEPT ![r].pc = "returned", ![r].current = current,
                                  ![r].count = IF current = NoRow THEN 0 ELSE @]
  BY DEF ReadAuthority
<1> DEFINE count == IF current = NoRow THEN 0 ELSE reader[r].count
<1>3. /\ reader \in [Reader -> ReaderState] /\ reader[r] \in ReaderState
      /\ reader[r].count \in Nat /\ heightAtStart[r] \in Nat /\ h \in Nat
      /\ current \in MaybeRow
  BY <1>1, HeightType, AnswerType DEF TypeInv, ReaderState
<1>4. current.sequence + 1 = h
  BY <1>1, CurrentIsLast DEF TypeInv, TableInv
<1>5. heightAtStart[r] <= reader[r].count /\ reader[r].count <= h
  BY <1>1 DEF QueryInv
<1>6. current = NoRow => h = 0
  BY <1>4 DEF NoRow
<1>7. count \in Nat /\ heightAtStart[r] <= count /\ count <= current.sequence + 1
  BY <1>3, <1>4, <1>5, <1>6
<1>8. reader'[r] = [reader[r] EXCEPT !.pc = "returned", !.current = current, !.count = count]
  BY <1>2, <1>3
<1> HIDE DEF count
<1>9. /\ reader'[r] \in ReaderState /\ reader'[r].pc = "returned"
      /\ reader'[r].candidate = k /\ reader'[r].count = count
      /\ reader'[r].current = current
  BY <1>3, <1>7, <1>8 DEF ReaderState
<1>10. TypeInv'
  BY <1>1, <1>2, <1>3, <1>9 DEF TypeInv
<1>11. /\ TableInv' /\ \A c \in Command : CallInv(c)'
  BY <1>1, <1>10, CallKept DEF Inv, TableInv, Requested
<1>12. QueryInv(r)'
  BY <1>1, <1>7, <1>9 DEF QueryInv
<1>13. \A q \in Reader : QueryInv(q)'
  BY <1>1, <1>2, <1>3, <1>10, <1>12, QueryKept DEF Inv
<1> QED
  BY <1>10, <1>11, <1>13 DEF Inv

-----------------------------------------------------------------------------
(* The theorems. *)

LEMMA InitEstablishes == Init => Inv
<1> SUFFICES ASSUME Init PROVE Inv
  OBVIOUS
<1>1. TypeInv
  BY FS_EmptySet DEF Init, TypeInv, NotStarted, NotAsked, CommandState, ReaderState, MaybeRow
<1>2. TableInv
  BY EmptyHistory DEF Init, TableInv
<1>3. \A c \in Command : CallInv(c)
  BY NoneAssumption DEF Init, NotStarted, CallInv, Deciding, Outcomes
<1>4. \A r \in Reader : QueryInv(r)
  BY DEF Init, NotAsked, QueryInv
<1> QED
  BY <1>1, <1>2, <1>3, <1>4 DEF Inv

LEMMA StutterKeeps == Inv /\ UNCHANGED vars => Inv'
<1> SUFFICES ASSUME Inv, UNCHANGED vars PROVE Inv'
  OBVIOUS
<1> USE DEF vars
<1>1. TypeInv' /\ TableInv'
  BY DEF Inv, TypeInv, TableInv, Requested
<1>2. \A c \in Command : CallInv(c)'
  BY <1>1, CallKept DEF Inv
<1>3. \A r \in Reader : QueryInv(r)'
  BY <1>1, QueryKept DEF Inv
<1> QED
  BY <1>1, <1>2, <1>3 DEF Inv

\* Every step of any number of racing commands and queries keeps the
\* bookkeeping right, so it holds in every reachable state.
THEOREM InvHolds == Spec => []Inv
<1>1. Inv /\ [Next]_vars => Inv'
  <2> SUFFICES ASSUME Inv, [Next]_vars PROVE Inv'
    OBVIOUS
  <2>1. ASSUME NEW c \in Command, NEW k \in Candidate, NEW kind \in Kind,
               NEW note \in Note, Invoke(c, k, kind, note)
        PROVE  Inv'
    BY <2>1, InvokeKeeps
  <2>2. ASSUME NEW c \in Command,
               \/ RejectInput(c) \/ ReadCurrent(c) \/ LookupExisting(c) \/ Persist(c)
               \/ PersistCollides(c) \/ PersistFails(c) \/ Resolve(c) \/ Kill(c)
        PROVE  Inv'
    BY <2>2, RejectInputKeeps, ReadCurrentKeeps, LookupExistingKeeps, PersistKeeps,
       PersistCollidesKeeps, PersistFailsKeeps, ResolveKeeps, KillKeeps
  <2>3. ASSUME NEW r \in Reader,
               \/ \E k \in Admitted : AskAuthority(r, k)
               \/ ReadHistory(r) \/ ReadAuthority(r)
        PROVE  Inv'
    BY <2>3, AskAuthorityKeeps, ReadHistoryKeeps, ReadAuthorityKeeps
  <2>4. CASE UNCHANGED vars
    BY <2>4, StutterKeeps
  <2> QED
    BY <2>1, <2>2, <2>3, <2>4 DEF Next
<1> QED
  BY <1>1, InitEstablishes, PTL DEF Spec

\* A command told that its decision is recorded is shown one with its own
\* reviewer and rationale, also after a lost race.
THEOREM NoMisattributionHolds == Spec => []NoMisattribution
<1>1. Inv => NoMisattribution
  BY DEF Inv, CallInv, NoMisattribution
<1> QED
  BY <1>1, InvHolds, PTL

\* A command fails with a conflict or a collision only if another command
\* asked for something else about the same candidate.
THEOREM DuplicatesConvergeHolds == Spec => []DuplicatesConverge
<1>1. Inv => DuplicatesConverge
  <2> SUFFICES ASSUME Inv, NEW c \in Command,
                      command[c].outcome \in {"collision", "conflict"}
               PROVE  \E d \in Command : Differs(c, d)
    BY DEF DuplicatesConverge
  <2>1. PICK row \in decisions :
               /\ row.scope = command[c].candidate
               /\ <<row.target, row.note>> # <<command[c].kind, command[c].note>>
    BY DEF Inv, CallInv, Contradicted
  <2>2. PICK d \in Command : /\ command[d].candidate = row.scope
                             /\ command[d].kind = row.target
                             /\ command[d].note = row.note
    BY <2>1 DEF Inv, TableInv, Requested
  <2> QED
    BY <2>1, <2>2 DEF Differs
<1> QED
  BY <1>1, InvHolds, PTL

\* The count an authority query reports is between the number of decisions
\* there were when it was asked and the place of the decision it reports.
THEOREM ReportedAuthorityIsOrderedHolds == Spec => []ReportedAuthorityIsOrdered
<1>1. Inv => ReportedAuthorityIsOrdered
  BY DEF Inv, TypeInv, ReaderState, QueryInv, ReportedAuthorityIsOrdered
<1> QED
  BY <1>1, InvHolds, PTL

-----------------------------------------------------------------------------
(* The abstract register. *)

Logs == [k \in Candidate |-> TargetsOf(decisions, k)]

\* An insert takes the next place of its candidate's log, for a judgment that
\* the log does not already end with.
LEMMA PersistTakes ==
    ASSUME Inv, NEW c \in Command, Persist(c)
    PROVE  Register!Take(command[c].candidate, command[c].kind)
<1> DEFINE k == command[c].candidate
           kind == command[c].kind
<1>1. PICK new : new = NewDecision(c)
  OBVIOUS
<1>2. new = Successor(command[c].current, k, kind, command[c].note)
  BY <1>1 DEF NewDecision
<1>3. /\ k \in Candidate
      /\ Usable(decisions, command[c].current, k, kind)
      /\ History(decisions) /\ Contiguous(decisions, k)
      /\ ~SlotTaken(decisions, new)
      /\ decisions' = decisions \union {new}
  BY <1>1 DEF Persist, Inv, TableInv, CallInv, Deciding
<1>4. Takes(decisions, decisions', k, kind)
  BY <1>2, <1>3, AppendTakes
<1>5. Logs' = [Logs EXCEPT ![k] = Append(@, kind)]
  BY <1>3, <1>4 DEF Takes, Logs
<1> QED
  BY <1>3, <1>4, <1>5 DEF Takes, Register!Take, Register!CurrentlyHolds, Logs

\* The decisions implement the abstract register: whatever the race, a step
\* replaces one candidate's judgment by the other one, or changes nothing a
\* reader can see.
THEOREM RegisterImplemented == Spec => ImplementsRegister
<1>1. Init => Register!Init
  BY EmptyHistory DEF Init, Register!Init
<1>2. Inv /\ [Next]_vars => [Register!Next]_Logs
  <2> SUFFICES ASSUME Inv, [Next]_vars
               PROVE  Register!Next \/ UNCHANGED Logs
    OBVIOUS
  <2>1. CASE UNCHANGED decisions
    BY <2>1 DEF Logs
  <2>2. ASSUME NEW c \in Command, Persist(c)
        PROVE  Register!Next
    <3>1. command[c].candidate \in Candidate /\ command[c].kind \in Decidable
      BY <2>2 DEF Persist, Inv, CallInv, Deciding, WellFormed
    <3> QED
      BY <2>2, <3>1, PersistTakes DEF Register!Next
  <2>3. UNCHANGED decisions \/ \E c \in Command : Persist(c)
    BY DEF Next, vars, Invoke, RejectInput, ReadCurrent, LookupExisting, PersistCollides,
           PersistFails, Resolve, Kill, AskAuthority, ReadHistory, ReadAuthority
  <2> QED
    BY <2>1, <2>2, <2>3
<1> QED
  BY <1>1, <1>2, InvHolds, PTL DEF Spec, ImplementsRegister, Register!Spec, Logs
=============================================================================

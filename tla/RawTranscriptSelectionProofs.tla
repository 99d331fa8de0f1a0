-------------------- MODULE RawTranscriptSelectionProofs --------------------
(***************************************************************************)
(* Proofs about RawTranscriptSelection, for any number of commands, of     *)
(* intakes and of transcripts and for histories of any length.  The        *)
(* invariants are layered: types; then the shape of the history together   *)
(* with what a command that is about to insert has read; then what a call  *)
(* may claim on its return; then who contends with whom.                   *)
(***************************************************************************)
EXTENDS RawTranscriptSelection, AuthorityHistoryProofs

\* A started command carries the intake and the transcript it was given.
ArgumentsKnown ==
    \A c \in Command : command[c].pc # "idle" =>
        command[c].intake \in Intake /\ command[c].transcript \in Transcript

\* One that has not started names no intake.
UnstartedKnown ==
    \A c \in Command : command[c].pc = "idle" => command[c].intake = None

TypeInv == TypeOK /\ IsFiniteSet(selections) /\ ArgumentsKnown /\ UnstartedKnown

\* A row of a typed table is typed; what a query returns is a row or NoRow.
LEMMA CurrentAnswerType ==
    ASSUME NEW table \in SUBSET SelectionRow, NEW i,
           NEW current \in CurrentAnswers(table, i)
    PROVE  /\ current \in SelectionRow \union {NoRow}
           /\ current # NoRow => current \in table
BY DEF CurrentAnswers, Newest, RowsOf

\* The record a command inserts has the type of the table's rows.
LEMMA NewSelectionType ==
    ASSUME TypeInv, NEW c \in Command, command[c].pc = "persist"
    PROVE  NewSelection(c) \in SelectionRow
<1> DEFINE current == command[c].current
<1>1. command[c] \in CommandState
  BY DEF TypeInv, TypeOK
<1>2. command[c].intake \in Intake /\ command[c].transcript \in Transcript
  BY DEF TypeInv, ArgumentsKnown
<1>3. current \in SelectionRow \union {NoRow}
  BY <1>1 DEF CommandState
<1>4. current.sequence + 1 \in Nat
  BY <1>3 DEF SelectionRow, NoRow
<1>5. current # NoRow => Identity(current) \in Intake \X Transcript \X Nat
  BY <1>3 DEF SelectionRow, Identity
<1> QED
  BY <1>2, <1>4, <1>5 DEF NewSelection, Successor, SelectionRow

\* What Return, the last step of every call, does to the local states.
LEMMA ReturnEffect ==
    ASSUME command \in [Command -> CommandState], NEW c \in Command,
           NEW outcome \in Outcomes, NEW row \in SelectionRow \union {NoRow},
           Return(c, outcome, row)
    PROVE  /\ command' \in [Command -> CommandState]
           /\ \A d \in Command \ {c} : command'[d] = command[d]
           /\ command'[c].pc = "returned"
           /\ command'[c].outcome = outcome
           /\ command'[c].selection = row
           /\ command'[c].intake = command[c].intake
           /\ command'[c].transcript = command[c].transcript
<1>1. command[c] \in CommandState
  OBVIOUS
<1>2. command'[c] = [command[c] EXCEPT !.pc = "returned", !.outcome = outcome,
                                       !.selection = row]
  BY <1>1 DEF Return, CommandState
<1>3. /\ command'[c] \in CommandState
      /\ command'[c].pc = "returned"
      /\ command'[c].outcome = outcome
      /\ command'[c].selection = row
      /\ command'[c].intake = command[c].intake
      /\ command'[c].transcript = command[c].transcript
  BY <1>1, <1>2 DEF CommandState
<1> QED
  BY <1>3 DEF Return

\* What the read of the current selection lets a command go on with.
Reads(c, current) ==
    /\ command[c].pc = "read"
    /\ Admissible(c)
    /\ current \in CurrentAnswers(selections, command[c].intake)
    /\ current = NoRow \/ current.target # command[c].transcript

\* What each step does to the local states: the command keeps its arguments
\* from its invocation on, only a return changes what it reports, and the
\* other commands are left alone.
LEMMA StepEffect ==
    ASSUME TypeInv, NEW c \in Command,
           \/ RejectUnrelated(c) \/ ReadCurrent(c) \/ Persist(c)
           \/ PersistCollides(c) \/ PersistFails(c) \/ Resolve(c) \/ Kill(c)
    PROVE  /\ command' \in [Command -> CommandState]
           /\ \A d \in Command \ {c} : command'[d] = command[d]
           /\ command[c].pc \in Running
           /\ command'[c].pc \in {"returned", "killed", "persist", "resolve"}
           /\ command'[c].intake = command[c].intake
           /\ command'[c].transcript = command[c].transcript
           /\ command'[c].pc # "returned" => /\ command'[c].outcome = command[c].outcome
                                             /\ command'[c].selection = command[c].selection
           /\ command'[c].pc = "persist" => Reads(c, command'[c].current)
<1>1. command \in [Command -> CommandState] /\ command[c] \in CommandState
  BY DEF TypeInv, TypeOK
<1>2. NoRow \in SelectionRow \union {NoRow} /\ selections \in SUBSET SelectionRow
  BY DEF TypeInv, TypeOK
<1>3. {"created", "switched", "reused", "rejected", "collision", "error"} \subseteq Outcomes
  BY DEF Outcomes, Successes
<1>4. CASE RejectUnrelated(c) \/ PersistFails(c)
  <2>1. \E outcome \in Outcomes : Return(c, outcome, NoRow)
    BY <1>3, <1>4 DEF RejectUnrelated, PersistFails
  <2>2. command[c].pc \in Running
    BY <1>4 DEF RejectUnrelated, PersistFails, Running
  <2> QED
    BY <1>1, <1>2, <2>1, <2>2, ReturnEffect
<1>5. CASE ReadCurrent(c)
  <2>1. command[c].pc \in Running
    BY <1>5 DEF ReadCurrent, Running
  <2>2. PICK current \in CurrentAnswers(selections, command[c].intake) :
           \/ Return(c, "reused", current)
           \/ /\ command' = [command EXCEPT ![c].pc = "persist", ![c].current = current]
              /\ Reads(c, current)
    BY <1>5 DEF ReadCurrent, Reads
  <2>3. current \in SelectionRow \union {NoRow}
    BY <1>2, CurrentAnswerType
  <2>4. CASE Return(c, "reused", current)
    BY <1>1, <1>3, <2>1, <2>3, <2>4, ReturnEffect
  <2>5. CASE /\ command' = [command EXCEPT ![c].pc = "persist", ![c].current = current]
             /\ Reads(c, current)
    <3>1. command'[c] = [command[c] EXCEPT !.pc = "persist", !.current = current]
      BY <1>1, <2>5 DEF CommandState
    <3>2. /\ command'[c] \in CommandState
          /\ command'[c].pc = "persist"
          /\ command'[c].intake = command[c].intake
          /\ command'[c].transcript = command[c].transcript
          /\ command'[c].outcome = command[c].outcome
          /\ command'[c].selection = command[c].selection
          /\ command'[c].current = current
      BY <1>1, <2>3, <3>1 DEF CommandState, Running
    <3> QED
      BY <1>1, <2>1, <2>5, <3>2
  <2> QED
    BY <2>2, <2>4, <2>5
<1>6. CASE Persist(c)
  <2>1. command[c].pc = "persist"
    BY <1>6 DEF Persist
  <2>2. NewSelection(c) \in SelectionRow
    BY <2>1, NewSelectionType
  <2>3. \E outcome \in Outcomes : Return(c, outcome, NewSelection(c))
    BY <1>3, <1>6 DEF Persist
  <2> QED
    BY <1>1, <2>1, <2>2, <2>3, ReturnEffect DEF Running
<1>7. CASE PersistCollides(c) \/ Kill(c)
  <2>1. PICK next \in {"resolve", "killed"} : command' = [command EXCEPT ![c].pc = next]
    BY <1>7 DEF PersistCollides, Kill
  <2>2. command[c].pc \in Running
    BY <1>7 DEF PersistCollides, Kill, Running
  <2>3. command'[c] = [command[c] EXCEPT !.pc = next]
    BY <1>1, <2>1 DEF CommandState
  <2>4. /\ command'[c] \in CommandState
        /\ command'[c].pc = next
        /\ command'[c].intake = command[c].intake
        /\ command'[c].transcript = command[c].transcript
        /\ command'[c].outcome = command[c].outcome
        /\ command'[c].selection = command[c].selection
    BY <1>1, <2>1, <2>3 DEF CommandState, Running
  <2> QED
    BY <1>1, <2>1, <2>2, <2>4
<1>8. CASE Resolve(c)
  <2>1. PICK current \in CurrentAnswers(selections, command[c].intake) :
           Return(c, "reused", current) \/ Return(c, "collision", NoRow)
    BY <1>8 DEF Resolve
  <2>2. current \in SelectionRow \union {NoRow}
    BY <1>2, CurrentAnswerType
  <2>3. \E outcome \in Outcomes, row \in SelectionRow \union {NoRow} : Return(c, outcome, row)
    BY <1>2, <1>3, <2>1, <2>2
  <2>4. command[c].pc \in Running
    BY <1>8 DEF Resolve, Running
  <2> QED
    BY <1>1, <2>3, <2>4, ReturnEffect
<1> QED
  BY <1>4, <1>5, <1>6, <1>7, <1>8

\* What an invocation does to the local states.
LEMMA InvokeEffect ==
    ASSUME TypeInv, NEW c \in Command,
           NEW i \in Intake, NEW t \in Transcript, Invoke(c, i, t)
    PROVE  /\ command' \in [Command -> CommandState]
           /\ \A d \in Command \ {c} : command'[d] = command[d]
           /\ command[c].pc = "idle"
           /\ command'[c].pc = "read"
           /\ command'[c].intake = i
           /\ command'[c].transcript = t
           /\ command'[c].outcome = command[c].outcome
           /\ command'[c].selection = command[c].selection
<1>1. command \in [Command -> CommandState] /\ command[c] \in CommandState
  BY DEF TypeInv, TypeOK
<1>2. command'[c] = [command[c] EXCEPT !.pc = "read", !.intake = i, !.transcript = t]
  BY <1>1 DEF Invoke, CommandState
<1>3. /\ command'[c] \in CommandState
      /\ command'[c].pc = "read"
      /\ command'[c].intake = i
      /\ command'[c].transcript = t
      /\ command'[c].outcome = command[c].outcome
      /\ command'[c].selection = command[c].selection
  BY <1>1, <1>2 DEF CommandState, Running
<1> QED
  BY <1>1, <1>3 DEF Invoke

\* Every step preserves the types.
LEMMA TypeStep ==
    ASSUME TypeInv, [Next]_vars
    PROVE  TypeInv'
<1>1. ASSUME NEW c \in Command, NEW i \in Intake, NEW t \in Transcript, Invoke(c, i, t)
      PROVE  TypeInv'
  <2>1. Height(selections, i) \in Nat
    BY HeightType DEF TypeInv
  <2>2. selections' = selections /\ heightAtStart' \in [Command -> Nat]
    BY <1>1, <2>1 DEF Invoke, TypeInv, TypeOK
  <2>3. ArgumentsKnown' /\ UnstartedKnown'
    BY <1>1, InvokeEffect DEF TypeInv, ArgumentsKnown, UnstartedKnown
  <2> QED
    BY <1>1, <2>2, <2>3, InvokeEffect DEF TypeInv, TypeOK
<1>2. ASSUME NEW c \in Command,
             \/ RejectUnrelated(c) \/ ReadCurrent(c) \/ Persist(c)
             \/ PersistCollides(c) \/ PersistFails(c) \/ Resolve(c) \/ Kill(c)
      PROVE  TypeInv'
  <2>1. command' \in [Command -> CommandState]
    BY <1>2, StepEffect
  <2>2. ArgumentsKnown' /\ UnstartedKnown'
    BY <1>2, StepEffect DEF TypeInv, ArgumentsKnown, UnstartedKnown, Running
  <2>3. heightAtStart' = heightAtStart
    BY <1>2 DEF RejectUnrelated, ReadCurrent, Persist, PersistCollides,
                PersistFails, Resolve, Kill
  <2>4. selections' \subseteq SelectionRow /\ IsFiniteSet(selections')
    <3>1. CASE Persist(c)
      <4>1. NewSelection(c) \in SelectionRow
        BY <3>1, NewSelectionType DEF Persist
      <4> QED
        BY <3>1, <4>1, FS_AddElement DEF Persist, TypeInv, TypeOK
    <3>2. CASE ~Persist(c)
      BY <1>2, <3>2 DEF TypeInv, TypeOK, RejectUnrelated, ReadCurrent,
                        PersistCollides, PersistFails, Resolve, Kill
    <3> QED
      BY <3>1, <3>2
  <2> QED
    BY <2>1, <2>2, <2>3, <2>4 DEF TypeInv, TypeOK
<1>3. CASE UNCHANGED vars
  BY <1>3 DEF vars, TypeInv, TypeOK, ArgumentsKnown, UnstartedKnown
<1> QED
  BY <1>1, <1>2, <1>3 DEF Next

\* Types, and what they need to be inductive, hold in every reachable state.
THEOREM TypeCorrect == Spec => []TypeInv
<1>1. Init => TypeInv
  <2> SUFFICES ASSUME Init PROVE TypeInv
    OBVIOUS
  <2>1. NotStarted \in CommandState
    BY DEF NotStarted, CommandState
  <2> QED
    BY <2>1, FS_EmptySet DEF Init, TypeInv, TypeOK, ArgumentsKnown, UnstartedKnown,
                                NotStarted
<1>2. TypeInv /\ [Next]_vars => TypeInv'
  BY TypeStep
<1> QED
  BY <1>1, <1>2, PTL DEF Spec

\* The type invariant the runs check.
THEOREM TypeSafety == Spec => []TypeOK
<1>1. TypeInv => TypeOK
  BY DEF TypeInv
<1> QED
  BY <1>1, TypeCorrect, PTL

-----------------------------------------------------------------------------
(* The history. *)

\* What a command that is about to insert has read may be stale, but it was a
\* record of its own intake, for another transcript, and not above the top of
\* the history.
ReadIsUsable(c) ==
    LET current == command[c].current
    IN  /\ current = NoRow \/ (current \in selections /\ current.scope = command[c].intake)
        /\ current.target # command[c].transcript
        /\ current.sequence + 1 <= Height(selections, command[c].intake)

HistoryInv ==
    /\ History(selections)
    /\ \A i \in Intake : Contiguous(selections, i)
    /\ \A c \in Command : command[c].pc = "persist" => ReadIsUsable(c)

\* Persist appends the successor of the row the command had read, in a free
\* slot; no other step writes the table.
LEMMA PersistAppends ==
    ASSUME TypeInv, HistoryInv, NEW c \in Command, Persist(c)
    PROVE  LET new == NewSelection(c)
           IN  /\ selections' = selections \union {new}
               /\ new \notin selections
               /\ new.scope = command[c].intake
               /\ new.target = command[c].transcript
               /\ new.sequence = command[c].current.sequence + 1
               /\ new.sequence = Height(selections, new.scope)
               /\ History(selections')
               /\ Contiguous(selections', new.scope)
<1> DEFINE new == NewSelection(c)
           current == command[c].current
<1>1. /\ command[c].pc = "persist"
      /\ ~SlotTaken(selections, new)
      /\ selections' = selections \union {new}
  BY DEF Persist, CanInsert
<1>2. ReadIsUsable(c)
  BY <1>1 DEF HistoryInv
<1>3. command[c].intake \in Intake
  BY <1>1 DEF TypeInv, ArgumentsKnown
<1>4. /\ new.scope = command[c].intake
      /\ new.target = command[c].transcript
      /\ new.sequence = current.sequence + 1
  BY DEF NewSelection, Successor
<1>5. new \notin selections
  BY <1>1 DEF SlotTaken
<1>6. History(selections') /\ new.sequence \in Nat
  BY <1>1, <1>2, AppendKeepsHistory DEF HistoryInv, ReadIsUsable, NewSelection
<1>7. new.sequence <= Height(selections, new.scope)
  BY <1>2, <1>4 DEF ReadIsUsable
<1>8. Contiguous(selections, new.scope) /\ IsFiniteSet(selections)
  BY <1>3, <1>4 DEF HistoryInv, History
<1> HIDE DEF new
<1>9. new.sequence = Height(selections, new.scope) /\ Contiguous(selections', new.scope)
  BY <1>1, <1>6, <1>7, <1>8, AppendKeepsContiguous
<1> QED
  BY <1>1, <1>4, <1>5, <1>6, <1>9 DEF new

\* No step but Persist writes the table.
LEMMA OnlyPersistWrites ==
    ASSUME [Next]_vars
    PROVE  UNCHANGED selections \/ \E c \in Command : Persist(c)
<1>1. CASE UNCHANGED vars
  BY <1>1 DEF vars
<1>2. ASSUME NEW c \in Command, NEW i \in Intake, NEW t \in Transcript, Invoke(c, i, t)
      PROVE  UNCHANGED selections
  BY <1>2 DEF Invoke
<1>3. ASSUME NEW c \in Command,
             \/ RejectUnrelated(c) \/ ReadCurrent(c) \/ PersistCollides(c)
             \/ PersistFails(c) \/ Resolve(c) \/ Kill(c)
      PROVE  UNCHANGED selections
  BY <1>3 DEF RejectUnrelated, ReadCurrent, PersistCollides, PersistFails, Resolve, Kill
<1> QED
  BY <1>1, <1>2, <1>3 DEF Next

\* The table only grows, and with it every height.
LEMMA TableGrows ==
    ASSUME TypeInv, HistoryInv, [Next]_vars
    PROVE  /\ selections \subseteq selections'
           /\ \A i \in Intake : Height(selections, i) <= Height(selections', i)
<1>1. \A i \in Intake : Height(selections, i) \in Nat
  BY HeightType DEF TypeInv
<1>2. CASE UNCHANGED selections
  BY <1>1, <1>2
<1>3. CASE \E c \in Command : Persist(c)
  <2>1. PICK c \in Command : Persist(c)
    BY <1>3
  <2> DEFINE new == NewSelection(c)
  <2>2. selections' = selections \union {new} /\ new \notin selections
    BY <2>1, PersistAppends
  <2> HIDE DEF new
  <2>3. \A i \in Intake : \/ Height(selections', i) = Height(selections, i)
                          \/ Height(selections', i) = Height(selections, i) + 1
    BY <2>2, InsertAddsOne DEF TypeInv
  <2>4. \A i \in Intake : Height(selections, i) <= Height(selections', i)
    BY <1>1, <2>3
  <2>5. selections \subseteq selections'
    BY <2>2
  <2> QED
    BY <2>4, <2>5
<1> QED
  BY <1>2, <1>3, OnlyPersistWrites

\* A command comes to its insert only from its read of the current selection.
LEMMA EntersPersist ==
    ASSUME TypeInv, [Next]_vars, NEW d \in Command,
           command'[d] # command[d], command'[d].pc = "persist"
    PROVE  /\ Reads(d, command'[d].current)
           /\ command'[d].intake = command[d].intake
           /\ command'[d].transcript = command[d].transcript
           /\ UNCHANGED selections
<1>1. PICK c \in Command :
         \/ \E i \in Intake, t \in Transcript : Invoke(c, i, t)
         \/ \/ RejectUnrelated(c) \/ ReadCurrent(c) \/ Persist(c)
            \/ PersistCollides(c) \/ PersistFails(c) \/ Resolve(c) \/ Kill(c)
  BY DEF Next, vars
<1>2. c = d
  BY <1>1, InvokeEffect, StepEffect
<1>3. ~(\E i \in Intake, t \in Transcript : Invoke(d, i, t))
  BY InvokeEffect
<1>4. /\ Reads(d, command'[d].current)
      /\ command'[d].intake = command[d].intake
      /\ command'[d].transcript = command[d].transcript
  BY <1>1, <1>2, <1>3, StepEffect
<1> QED
  BY <1>1, <1>2, <1>3, <1>4
     DEF Reads, RejectUnrelated, ReadCurrent, Persist, PersistCollides,
         PersistFails, Resolve, Kill

\* The shape of the history, and what a pending insert has read of it.
THEOREM HistoryCorrect == Spec => []HistoryInv
<1>1. Init => HistoryInv
  <2> SUFFICES ASSUME Init PROVE HistoryInv
    OBVIOUS
  <2>1. \A i : RowsOf(selections, i) = {} /\ Height(selections, i) = 0
    BY FS_EmptySet DEF Init, RowsOf, Height
  <2>2. History(selections)
    BY FS_EmptySet DEF Init, History, Chained, NeverRepeats
  <2>3. \A i \in Intake : Contiguous(selections, i)
    BY <2>1 DEF Contiguous
  <2>4. \A c \in Command : command[c].pc # "persist"
    BY DEF Init, NotStarted
  <2> QED
    BY <2>2, <2>3, <2>4 DEF HistoryInv
<1>2. TypeInv /\ TypeInv' /\ HistoryInv /\ [Next]_vars => HistoryInv'
  <2> SUFFICES ASSUME TypeInv, TypeInv', HistoryInv, [Next]_vars
               PROVE  HistoryInv'
    OBVIOUS
  <2>1. History(selections)' /\ \A i \in Intake : Contiguous(selections, i)'
    <3>1. CASE UNCHANGED selections
      BY <3>1 DEF HistoryInv
    <3>2. ASSUME NEW c \in Command, Persist(c)
          PROVE  History(selections') /\ \A i \in Intake : Contiguous(selections', i)
      <4> DEFINE new == NewSelection(c)
      <4>1. /\ selections' = selections \union {new}
            /\ new \notin selections
            /\ History(selections')
            /\ Contiguous(selections', new.scope)
        BY <3>2, PersistAppends
      <4> HIDE DEF new
      <4>2. \A i \in Intake : i # new.scope =>
                /\ RowsOf(selections', i) = RowsOf(selections, i)
                /\ Height(selections', i) = Height(selections, i)
        BY <4>1, InsertAddsOne, ZenonT(60) DEF TypeInv
      <4>3. \A i \in Intake : i # new.scope => Contiguous(selections', i)
        BY <4>2 DEF HistoryInv, Contiguous
      <4> QED
        BY <4>1, <4>3
    <3> QED
      BY <3>1, <3>2, OnlyPersistWrites
  <2>2. ASSUME NEW d \in Command, command'[d].pc = "persist"
        PROVE  ReadIsUsable(d)'
    <3>1. \A i \in Intake : Height(selections, i) \in Nat /\ Height(selections', i) \in Nat
      BY HeightType DEF TypeInv
    <3>2. CASE command'[d] = command[d]
      <4>1. ReadIsUsable(d) /\ command[d].intake \in Intake
        BY <2>2, <3>2 DEF HistoryInv, TypeInv, ArgumentsKnown
      <4>2. command[d].current.sequence \in Int
        <5>1. command[d] \in CommandState
          BY DEF TypeInv, TypeOK
        <5> QED
          BY <5>1 DEF CommandState, SelectionRow, NoRow
      <4> QED
        BY <3>1, <3>2, <4>1, <4>2, TableGrows DEF ReadIsUsable
    <3>3. CASE command'[d] # command[d]
      <4>1. /\ Reads(d, command'[d].current)
            /\ command'[d].intake = command[d].intake
            /\ command'[d].transcript = command[d].transcript
            /\ UNCHANGED selections
        BY <2>2, <3>3, EntersPersist
      <4>2. command[d].intake \in Intake /\ command[d].transcript \in Transcript
        BY <4>1 DEF Reads, TypeInv, ArgumentsKnown
      <4> DEFINE current == command'[d].current
      <4>3. /\ current.sequence + 1 = Height(selections, command[d].intake)
            /\ current # NoRow => current \in selections /\ current.scope = command[d].intake
        BY <4>1, <4>2, CurrentIsLast DEF Reads, HistoryInv, TypeInv
      <4>4. current.target # command[d].transcript
        BY <4>1, <4>2, NoneAssumption DEF Reads, NoRow
      <4> QED
        BY <3>1, <4>1, <4>2, <4>3, <4>4 DEF ReadIsUsable
    <3> QED
      BY <3>2, <3>3
  <2> QED
    BY <2>1, <2>2 DEF HistoryInv
<1> QED
  BY <1>1, <1>2, TypeCorrect, PTL DEF Spec

\* However many commands race, each intake's selections stay one chain without
\* gap, fork or repetition: the UNIQUE (intake, sequence) constraint alone
\* protects the stale reads of `select`.
THEOREM HistoryIsOneChainHolds == Spec => []HistoryIsOneChain
<1>1. HistoryInv => HistoryIsOneChain
  BY DEF HistoryInv, History, HistoryIsOneChain
<1> QED
  BY <1>1, HistoryCorrect, PTL

-----------------------------------------------------------------------------
(* What a call reports. *)

\* The bookkeeping of one call: it reports nothing before it returns; the
\* height it started from is still there; what it read, it read after it had
\* started; and what it reports as a success was current during the call.
CallIsRight(c) ==
    /\ command[c].pc # "returned" => command[c].outcome = None
    /\ command[c].pc \in Running =>
          heightAtStart[c] <= Height(selections, command[c].intake)
    /\ command[c].pc = "persist" =>
          heightAtStart[c] <= command[c].current.sequence + 1
    /\ command[c].outcome \in Successes =>
          LET row == command[c].selection
          IN  /\ row \in selections
              /\ row.scope = command[c].intake
              /\ row.target = command[c].transcript
              /\ row.sequence + 1 >= heightAtStart[c]

CallInv == \A c \in Command : CallIsRight(c)

\* A call that another one's step leaves alone stays right: the history only
\* grows under it.
LEMMA CallKept ==
    ASSUME TypeInv, HistoryInv, [Next]_vars, NEW d \in Command, CallIsRight(d),
           command'[d] = command[d], heightAtStart'[d] = heightAtStart[d]
    PROVE  CallIsRight(d)'
<1>1. selections \subseteq selections'
  BY TableGrows
<1>2. command[d].pc \in Running =>
          heightAtStart[d] <= Height(selections', command[d].intake)
  <2> SUFFICES ASSUME command[d].pc \in Running
               PROVE  heightAtStart[d] <= Height(selections', command[d].intake)
    OBVIOUS
  <2>1. command[d].intake \in Intake
    BY DEF Running, TypeInv, ArgumentsKnown
  <2>2. IsFiniteSet(selections')
    <3>1. TypeInv'
      BY TypeStep
    <3> QED
      BY <3>1 DEF TypeInv
  <2>3. /\ Height(selections, command[d].intake) \in Nat
        /\ Height(selections', command[d].intake) \in Nat
        /\ Height(selections, command[d].intake) <= Height(selections', command[d].intake)
    BY <2>1, <2>2, HeightType, TableGrows DEF TypeInv
  <2>4. heightAtStart[d] \in Nat
    BY DEF TypeInv, TypeOK
  <2>5. heightAtStart[d] <= Height(selections, command[d].intake)
    BY DEF CallIsRight
  <2> QED
    BY <2>3, <2>4, <2>5
<1> QED
  BY <1>1, <1>2 DEF CallIsRight

\* Only three steps report a success.
LEMMA OnlyTheseSucceed ==
    ASSUME TypeInv, NEW c \in Command,
           \/ RejectUnrelated(c) \/ ReadCurrent(c) \/ Persist(c)
           \/ PersistCollides(c) \/ PersistFails(c) \/ Resolve(c) \/ Kill(c),
           command'[c].pc = "returned", command'[c].outcome \in Successes
    PROVE  ReadCurrent(c) \/ Persist(c) \/ Resolve(c)
<1>1. /\ command \in [Command -> CommandState] /\ command[c] \in CommandState
      /\ NoRow \in SelectionRow \union {NoRow}
      /\ "rejected" \in Outcomes /\ "error" \in Outcomes
  BY DEF TypeInv, TypeOK, Outcomes
<1>2. ~(RejectUnrelated(c) \/ PersistFails(c))
  <2> SUFFICES ASSUME NEW outcome \in {"rejected", "error"}, Return(c, outcome, NoRow)
               PROVE  FALSE
    BY DEF RejectUnrelated, PersistFails
  <2>1. command'[c].outcome = outcome
    BY <1>1, ReturnEffect
  <2> QED
    BY <2>1 DEF Successes
<1>3. ~(PersistCollides(c) \/ Kill(c))
  <2> SUFFICES ASSUME NEW next \in {"resolve", "killed"},
                      command' = [command EXCEPT ![c].pc = next]
               PROVE  FALSE
    BY DEF PersistCollides, Kill
  <2>1. command'[c] = [command[c] EXCEPT !.pc = next]
    BY <1>1 DEF CommandState
  <2>2. command'[c].pc = next
    BY <1>1, <2>1 DEF CommandState
  <2> QED
    BY <2>2
<1> QED
  BY <1>2, <1>3

\* The row a successful call returns is, at that moment, the last record of
\* its intake's history.
LEMMA SuccessReportsTheTop ==
    ASSUME TypeInv, HistoryInv, NEW c \in Command,
           ReadCurrent(c) \/ Persist(c) \/ Resolve(c),
           command'[c].pc = "returned", command'[c].outcome \in Successes
    PROVE  LET row == command'[c].selection
           IN  /\ row \in selections'
               /\ row.scope = command[c].intake
               /\ row.target = command[c].transcript
               /\ row.sequence + 1 = Height(selections', command[c].intake)
<1>1. /\ command \in [Command -> CommandState]
      /\ selections \in SUBSET SelectionRow /\ IsFiniteSet(selections)
      /\ NoRow \in SelectionRow \union {NoRow}
      /\ {"created", "switched", "reused", "collision"} \subseteq Outcomes
  BY DEF TypeInv, TypeOK, Outcomes, Successes
<1>2. /\ command[c].intake \in Intake
      /\ Contiguous(selections, command[c].intake)
  BY DEF TypeInv, ArgumentsKnown, ReadCurrent, Persist, Resolve, HistoryInv
<1>3. CASE Persist(c)
  <2> DEFINE new == NewSelection(c)
  <2>1. /\ selections' = selections \union {new}
        /\ new \notin selections
        /\ new.scope = command[c].intake
        /\ new.target = command[c].transcript
        /\ new.sequence = Height(selections, new.scope)
    BY <1>3, PersistAppends
  <2>2. new \in SelectionRow
    BY <1>3, NewSelectionType DEF Persist
  <2>3. \E outcome \in Outcomes : Return(c, outcome, new)
    BY <1>1, <1>3 DEF Persist
  <2>4. command'[c].selection = new
    BY <1>1, <2>2, <2>3, ReturnEffect
  <2> HIDE DEF new
  <2>5. Height(selections', new.scope) = Height(selections, new.scope) + 1
    BY <1>1, <2>1, InsertAddsOne
  <2> QED
    BY <2>1, <2>4, <2>5
<1>4. ASSUME NEW current \in CurrentAnswers(selections, command[c].intake),
             current # NoRow, current.target = command[c].transcript,
             Return(c, "reused", current), UNCHANGED selections
      PROVE  LET row == command'[c].selection
             IN  /\ row \in selections'
                 /\ row.scope = command[c].intake
                 /\ row.target = command[c].transcript
                 /\ row.sequence + 1 = Height(selections', command[c].intake)
  <2>1. current \in SelectionRow \union {NoRow}
    BY <1>1, CurrentAnswerType
  <2>2. command'[c].selection = current
    BY <1>1, <1>4, <2>1, ReturnEffect
  <2>3. /\ current \in selections /\ current.scope = command[c].intake
        /\ current.sequence + 1 = Height(selections, command[c].intake)
    BY <1>1, <1>2, <1>4, CurrentIsLast
  <2> QED
    BY <1>4, <2>2, <2>3
<1>5. CASE ReadCurrent(c)
  <2>1. PICK current \in CurrentAnswers(selections, command[c].intake) :
           \/ /\ current # NoRow
              /\ current.target = command[c].transcript
              /\ Return(c, "reused", current)
           \/ command' = [command EXCEPT ![c].pc = "persist", ![c].current = current]
    BY <1>5 DEF ReadCurrent
  <2>2. command' # [command EXCEPT ![c].pc = "persist", ![c].current = current]
    <3> SUFFICES ASSUME command' = [command EXCEPT ![c].pc = "persist",
                                                   ![c].current = current]
                 PROVE  FALSE
      OBVIOUS
    <3>1. command'[c] = [command[c] EXCEPT !.pc = "persist", !.current = current]
      BY <1>1 DEF CommandState
    <3>2. command'[c].pc = "persist"
      BY <1>1, <3>1 DEF CommandState
    <3> QED
      BY <3>2
  <2> QED
    BY <1>4, <1>5, <2>1, <2>2 DEF ReadCurrent
<1>6. CASE Resolve(c)
  <2>1. PICK current \in CurrentAnswers(selections, command[c].intake) :
           IF current # NoRow /\ current.target = command[c].transcript
           THEN Return(c, "reused", current)
           ELSE Return(c, "collision", NoRow)
    BY <1>6 DEF Resolve
  <2>2. ~Return(c, "collision", NoRow)
    BY <1>1, ReturnEffect DEF Successes
  <2> QED
    BY <1>4, <1>6, <2>1, <2>2 DEF Resolve
<1> QED
  BY <1>3, <1>5, <1>6

\* Every call stays right, in every reachable state.
THEOREM CallsCorrect == Spec => []CallInv
<1>1. Init => CallInv
  <2> SUFFICES ASSUME Init, NEW c \in Command
               PROVE  CallIsRight(c)
    BY DEF CallInv
  <2>1. command[c].pc = "idle" /\ command[c].outcome = None
    BY DEF Init, NotStarted
  <2> QED
    BY <2>1, NoneAssumption DEF CallIsRight, Running, Outcomes
<1>2. TypeInv /\ TypeInv' /\ HistoryInv /\ CallInv /\ [Next]_vars => CallInv'
  <2> SUFFICES ASSUME TypeInv, TypeInv', HistoryInv, CallInv, [Next]_vars, NEW d \in Command
               PROVE  CallIsRight(d)'
    BY DEF CallInv
  <2>1. CallIsRight(d)
    BY DEF CallInv
  <2>2. heightAtStart \in [Command -> Nat]
    BY DEF TypeInv, TypeOK
  <2>3. CASE UNCHANGED vars
    BY <2>1, <2>3, CallKept DEF vars
  <2>4. ASSUME NEW c \in Command, NEW i \in Intake, NEW t \in Transcript, Invoke(c, i, t)
        PROVE  CallIsRight(d)'
    <3>1. CASE d # c
      <4>1. command'[d] = command[d] /\ heightAtStart'[d] = heightAtStart[d]
        BY <2>2, <2>4, <3>1, InvokeEffect DEF Invoke
      <4> QED
        BY <2>1, <4>1, CallKept
    <3>2. CASE d = c
      <4>1. /\ command'[d].pc = "read" /\ command'[d].outcome = None
            /\ command'[d].intake = i
        BY <2>1, <2>4, <3>2, InvokeEffect DEF CallIsRight
      <4>2. heightAtStart'[d] = Height(selections, i) /\ selections' = selections
        BY <2>2, <2>4, <3>2 DEF Invoke
      <4>3. Height(selections, i) \in Nat
        BY HeightType DEF TypeInv
      <4>4. heightAtStart'[d] <= Height(selections', i)
        BY <4>2, <4>3
      <4>5. command'[d].outcome \notin Successes
        BY <4>1, NoneAssumption DEF Outcomes
      <4> QED
        BY <4>1, <4>4, <4>5 DEF CallIsRight
    <3> QED
      BY <3>1, <3>2
  <2>5. ASSUME NEW c \in Command,
               \/ RejectUnrelated(c) \/ ReadCurrent(c) \/ Persist(c)
               \/ PersistCollides(c) \/ PersistFails(c) \/ Resolve(c) \/ Kill(c)
        PROVE  CallIsRight(d)'
    <3>1. heightAtStart' = heightAtStart
      BY <2>5 DEF RejectUnrelated, ReadCurrent, Persist, PersistCollides,
                  PersistFails, Resolve, Kill
    <3>2. CASE d # c
      <4>1. command'[d] = command[d]
        BY <2>5, <3>2, StepEffect
      <4> QED
        BY <2>1, <3>1, <4>1, CallKept
    <3>3. CASE d = c
      <4> DEFINE i == command[d].intake
      <4>1. /\ command[d].pc \in Running /\ i \in Intake
            /\ command'[d].intake = i
            /\ command'[d].transcript = command[d].transcript
            /\ command'[d].pc \in {"returned", "killed", "persist", "resolve"}
        BY <2>5, <3>3, StepEffect DEF TypeInv, ArgumentsKnown, Running
      <4>2. heightAtStart[d] \in Nat /\ heightAtStart[d] <= Height(selections, i)
        BY <2>1, <2>2, <4>1 DEF CallIsRight
      <4>3. /\ Height(selections, i) \in Nat /\ Height(selections', i) \in Nat
            /\ Height(selections, i) <= Height(selections', i)
        BY <4>1, HeightType, TableGrows DEF TypeInv
      <4>4. heightAtStart'[d] <= Height(selections', command'[d].intake)
        BY <3>1, <4>1, <4>2, <4>3
      <4>5. CASE command'[d].pc # "returned"
        <5>1. command'[d].outcome = None
          BY <2>1, <2>5, <3>3, <4>1, <4>5, StepEffect DEF CallIsRight, Running
        <5>2. command'[d].outcome \notin Successes
          BY <5>1, NoneAssumption DEF Outcomes
        <5>3. command'[d].pc = "persist" =>
                  heightAtStart'[d] <= command'[d].current.sequence + 1
          <6> SUFFICES ASSUME command'[d].pc = "persist"
                       PROVE  heightAtStart'[d] <= command'[d].current.sequence + 1
            OBVIOUS
          <6>1. Reads(d, command'[d].current)
            BY <2>5, <3>3, StepEffect
          <6>2. command'[d].current.sequence + 1 = Height(selections, i)
            BY <4>1, <6>1, CurrentIsLast DEF Reads, HistoryInv, TypeInv
          <6> QED
            BY <3>1, <4>2, <6>2
        <5> QED
          BY <4>4, <4>5, <5>1, <5>2, <5>3 DEF CallIsRight
      <4>6. CASE command'[d].pc = "returned"
        <5>1. command'[d].outcome \in Successes =>
                 LET row == command'[d].selection
                 IN  /\ row \in selections'
                     /\ row.scope = command'[d].intake
                     /\ row.target = command'[d].transcript
                     /\ row.sequence + 1 >= heightAtStart'[d]
          <6> SUFFICES ASSUME command'[d].outcome \in Successes
                       PROVE  LET row == command'[d].selection
                              IN  /\ row \in selections'
                                  /\ row.scope = command'[d].intake
                                  /\ row.target = command'[d].transcript
                                  /\ row.sequence + 1 >= heightAtStart'[d]
            OBVIOUS
          <6>1. ReadCurrent(d) \/ Persist(d) \/ Resolve(d)
            BY <2>5, <3>3, <4>6, OnlyTheseSucceed
          <6>2. LET row == command'[d].selection
                IN  /\ row \in selections'
                    /\ row.scope = command[d].intake
                    /\ row.target = command[d].transcript
                    /\ row.sequence + 1 = Height(selections', command[d].intake)
            BY <4>6, <6>1, SuccessReportsTheTop
          <6> QED
            BY <3>1, <4>1, <4>2, <4>3, <4>4, <6>2
        <5> QED
          BY <4>6, <5>1 DEF CallIsRight, Running
      <4> QED
        BY <4>5, <4>6
    <3> QED
      BY <3>2, <3>3
  <2> QED
    BY <2>3, <2>4, <2>5 DEF Next
<1> QED
  BY <1>1, <1>2, TypeCorrect, HistoryCorrect, PTL DEF Spec

\* What a successful `select` returns was the current selection of the
\* requested transcript at some moment of the call, in every interleaving.
THEOREM SuccessWasCurrentHolds == Spec => []SuccessWasCurrent
<1>1. CallInv => SuccessWasCurrent
  BY DEF CallInv, CallIsRight, SuccessWasCurrent
<1> QED
  BY <1>1, CallsCorrect, PTL

-----------------------------------------------------------------------------
(* Who a collision is with. *)

\* Every recorded selection was asked for by a command that is still known.
Requested(row) ==
    \E d \in Command : /\ command[d].pc # "idle"
                       /\ command[d].intake = row.scope
                       /\ command[d].transcript = row.target
                       /\ Owner[row.target] = row.scope

ContestInv ==
    /\ \A row \in selections : Requested(row)
    /\ \A c \in Command :
          /\ command[c].pc = "persist" => Admissible(c)
          /\ command[c].pc = "resolve" => RowsOf(selections, command[c].intake) # {}
    /\ DuplicatesConverge

\* The arguments of a started command never change.
LEMMA ArgumentsStay ==
    ASSUME TypeInv, [Next]_vars, NEW d \in Command, command[d].pc # "idle"
    PROVE  /\ command'[d].pc # "idle"
           /\ command'[d].intake = command[d].intake
           /\ command'[d].transcript = command[d].transcript
<1>1. ASSUME NEW c \in Command, NEW i \in Intake, NEW t \in Transcript, Invoke(c, i, t)
      PROVE  command'[d] = command[d]
  BY <1>1, InvokeEffect
<1>2. ASSUME NEW c \in Command,
             \/ RejectUnrelated(c) \/ ReadCurrent(c) \/ Persist(c)
             \/ PersistCollides(c) \/ PersistFails(c) \/ Resolve(c) \/ Kill(c)
      PROVE  /\ command'[d].pc # "idle"
             /\ command'[d].intake = command[d].intake
             /\ command'[d].transcript = command[d].transcript
  <2>1. CASE d = c
    BY <1>2, <2>1, StepEffect
  <2>2. CASE d # c
    BY <1>2, <2>2, StepEffect
  <2> QED
    BY <2>1, <2>2
<1>3. CASE UNCHANGED vars
  BY <1>3 DEF vars
<1> QED
  BY <1>1, <1>2, <1>3 DEF Next

\* A command comes to its second look only from a refused insert.
LEMMA EntersResolve ==
    ASSUME TypeInv, [Next]_vars, NEW c \in Command,
           command'[c] # command[c], command'[c].pc = "resolve"
    PROVE  PersistCollides(c)
<1>1. /\ command \in [Command -> CommandState] /\ command[c] \in CommandState
      /\ selections \in SUBSET SelectionRow
      /\ NoRow \in SelectionRow \union {NoRow}
      /\ {"created", "switched", "reused", "rejected", "collision", "error"} \subseteq Outcomes
  BY DEF TypeInv, TypeOK, Outcomes, Successes
<1>2. PICK d \in Command :
         \/ \E i \in Intake, t \in Transcript : Invoke(d, i, t)
         \/ \/ RejectUnrelated(d) \/ ReadCurrent(d) \/ Persist(d)
            \/ PersistCollides(d) \/ PersistFails(d) \/ Resolve(d) \/ Kill(d)
  BY DEF Next, vars
<1>3. d = c
  BY <1>2, InvokeEffect, StepEffect
<1>4. ~ \E i \in Intake, t \in Transcript : Invoke(c, i, t)
  BY InvokeEffect
<1>5. ~ \E outcome \in Outcomes, row \in SelectionRow \union {NoRow} : Return(c, outcome, row)
  BY <1>1, ReturnEffect
<1>6. ~(RejectUnrelated(c) \/ PersistFails(c))
  BY <1>1, <1>5 DEF RejectUnrelated, PersistFails
<1>7. ~Persist(c)
  <2> SUFFICES ASSUME Persist(c) PROVE FALSE
    OBVIOUS
  <2>1. NewSelection(c) \in SelectionRow
    BY NewSelectionType DEF Persist
  <2>2. \E outcome \in Outcomes : Return(c, outcome, NewSelection(c))
    BY <1>1 DEF Persist
  <2> QED
    BY <1>5, <2>1, <2>2
<1>8. ~ReadCurrent(c) /\ ~Resolve(c)
  <2> SUFFICES ASSUME NEW current \in CurrentAnswers(selections, command[c].intake),
                      \/ Return(c, "reused", current)
                      \/ Return(c, "collision", NoRow)
                      \/ command' = [command EXCEPT ![c].pc = "persist",
                                                    ![c].current = current]
               PROVE  FALSE
    BY DEF ReadCurrent, Resolve
  <2>1. current \in SelectionRow \union {NoRow}
    BY <1>1, CurrentAnswerType
  <2>2. command' = [command EXCEPT ![c].pc = "persist", ![c].current = current]
    BY <1>1, <1>5, <2>1
  <2>3. command'[c] = [command[c] EXCEPT !.pc = "persist", !.current = current]
    BY <1>1, <2>2 DEF CommandState
  <2>4. command'[c].pc = "persist"
    BY <1>1, <2>3 DEF CommandState
  <2> QED
    BY <2>4
<1>9. ~Kill(c)
  <2> SUFFICES ASSUME command' = [command EXCEPT ![c].pc = "killed"] PROVE FALSE
    BY DEF Kill
  <2>1. command'[c] = [command[c] EXCEPT !.pc = "killed"]
    BY <1>1 DEF CommandState
  <2>2. command'[c].pc = "killed"
    BY <1>1, <2>1 DEF CommandState
  <2> QED
    BY <2>2
<1> QED
  BY <1>2, <1>3, <1>4, <1>6, <1>7, <1>8, <1>9

\* A return that reports a collision is one that saw another transcript on
\* top of its intake's history.
LEMMA CollisionSawAnother ==
    ASSUME TypeInv, HistoryInv, ContestInv, [Next]_vars, NEW c \in Command,
           command[c].outcome # "collision", command'[c].outcome = "collision"
    PROVE  \E row \in selections : /\ row.scope = command'[c].intake
                                   /\ row.target # command'[c].transcript
<1>1. /\ command \in [Command -> CommandState] /\ command[c] \in CommandState
      /\ selections \in SUBSET SelectionRow /\ IsFiniteSet(selections)
      /\ NoRow \in SelectionRow \union {NoRow}
      /\ Successes \union {"rejected", "collision", "error"} \subseteq Outcomes
  BY DEF TypeInv, TypeOK, Outcomes
<1>2. command'[c] # command[c]
  OBVIOUS
<1>3. PICK d \in Command :
         \/ \E i \in Intake, t \in Transcript : Invoke(d, i, t)
         \/ \/ RejectUnrelated(d) \/ ReadCurrent(d) \/ Persist(d)
            \/ PersistCollides(d) \/ PersistFails(d) \/ Resolve(d) \/ Kill(d)
  BY <1>2 DEF Next, vars
<1>4. d = c
  BY <1>2, <1>3, InvokeEffect, StepEffect
<1>5. ~ \E i \in Intake, t \in Transcript : Invoke(c, i, t)
  BY InvokeEffect
<1>6. command'[c].pc = "returned"
  BY <1>3, <1>4, <1>5, StepEffect
<1>7. Resolve(c)
  <2>1. ~(RejectUnrelated(c) \/ PersistFails(c))
    <3> SUFFICES ASSUME NEW outcome \in {"rejected", "error"}, Return(c, outcome, NoRow)
                 PROVE  FALSE
      BY DEF RejectUnrelated, PersistFails
    <3>1. command'[c].outcome = outcome
      BY <1>1, ReturnEffect
    <3> QED
      BY <3>1
  <2>2. ~Persist(c)
    <3> SUFFICES ASSUME Persist(c) PROVE FALSE
      OBVIOUS
    <3>1. NewSelection(c) \in SelectionRow
      BY NewSelectionType DEF Persist
    <3>2. PICK outcome \in {"created", "switched"} : Return(c, outcome, NewSelection(c))
      BY DEF Persist
    <3>3. command'[c].outcome = outcome
      BY <1>1, <3>1, <3>2, ReturnEffect DEF Successes
    <3> QED
      BY <3>3
  <2>3. ~(PersistCollides(c) \/ Kill(c))
    <3> SUFFICES ASSUME NEW next \in {"resolve", "killed"},
                        command' = [command EXCEPT ![c].pc = next]
                 PROVE  FALSE
      BY DEF PersistCollides, Kill
    <3>1. command'[c] = [command[c] EXCEPT !.pc = next]
      BY <1>1 DEF CommandState
    <3>2. command'[c].pc = next
      BY <1>1, <3>1 DEF CommandState
    <3> QED
      BY <1>6, <3>2
  <2>4. ~ReadCurrent(c)
    <3> SUFFICES ASSUME NEW current \in CurrentAnswers(selections, command[c].intake),
                        \/ Return(c, "reused", current)
                        \/ command' = [command EXCEPT ![c].pc = "persist",
                                                      ![c].current = current]
                 PROVE  FALSE
      BY DEF ReadCurrent
    <3>1. current \in SelectionRow \union {NoRow}
      BY <1>1, CurrentAnswerType
    <3>2. CASE Return(c, "reused", current)
      <4>1. command'[c].outcome = "reused"
        BY <1>1, <3>1, <3>2, ReturnEffect DEF Successes
      <4> QED
        BY <4>1
    <3>3. CASE command' = [command EXCEPT ![c].pc = "persist", ![c].current = current]
      <4>1. command'[c] = [command[c] EXCEPT !.pc = "persist", !.current = current]
        BY <1>1, <3>3 DEF CommandState
      <4>2. command'[c].pc = "persist"
        BY <1>1, <4>1 DEF CommandState
      <4> QED
        BY <1>6, <4>2
    <3> QED
      BY <3>2, <3>3
  <2> QED
    BY <1>3, <1>4, <1>5, <2>1, <2>2, <2>3, <2>4
<1>8. PICK current \in CurrentAnswers(selections, command[c].intake) :
         IF current # NoRow /\ current.target = command[c].transcript
         THEN Return(c, "reused", current)
         ELSE Return(c, "collision", NoRow)
  BY <1>7 DEF Resolve
<1>9. current = NoRow \/ current.target # command[c].transcript
  <2> SUFFICES ASSUME Return(c, "reused", current) PROVE FALSE
    BY <1>8
  <2>1. current \in SelectionRow \union {NoRow}
    BY <1>1, CurrentAnswerType
  <2>2. command'[c].outcome = "reused"
    BY <1>1, <2>1, ReturnEffect DEF Successes
  <2> QED
    BY <2>2
<1>10. /\ command[c].intake \in Intake
       /\ RowsOf(selections, command[c].intake) # {}
  BY <1>7 DEF Resolve, TypeInv, ArgumentsKnown, ContestInv
<1>11. /\ current.sequence + 1 = Height(selections, command[c].intake)
       /\ current # NoRow => current \in selections /\ current.scope = command[c].intake
  BY <1>1, <1>10, CurrentIsLast DEF HistoryInv
<1>12. current # NoRow
  <2> SUFFICES ASSUME current = NoRow PROVE FALSE
    OBVIOUS
  <2>1. Height(selections, command[c].intake) = 0
    BY <1>11 DEF NoRow
  <2>2. RowsOf(selections, command[c].intake) \in SUBSET selections
    BY DEF RowsOf
  <2>3. IsFiniteSet(RowsOf(selections, command[c].intake))
    BY <1>1, <2>2, FS_Subset
  <2> QED
    BY <1>10, <2>1, <2>3, FS_EmptySet DEF Height
<1>13. command'[c].intake = command[c].intake /\ command'[c].transcript = command[c].transcript
  BY <1>7, StepEffect
<1> QED
  BY <1>9, <1>11, <1>12, <1>13

\* Who asked for what, and so who a collision can be with.
THEOREM ContestCorrect == Spec => []ContestInv
<1>1. Init => ContestInv
  <2> SUFFICES ASSUME Init PROVE ContestInv
    OBVIOUS
  <2>1. \A c \in Command : command[c].pc = "idle" /\ command[c].outcome = None
    BY DEF Init, NotStarted
  <2>2. DuplicatesConverge
    BY <2>1, NoneAssumption DEF DuplicatesConverge, Outcomes
  <2> QED
    BY <2>1, <2>2 DEF Init, ContestInv
<1>2. /\ TypeInv /\ TypeInv' /\ HistoryInv /\ HistoryInv' /\ CallInv
      /\ ContestInv /\ [Next]_vars
      => ContestInv'
  <2> SUFFICES ASSUME TypeInv, TypeInv', HistoryInv, HistoryInv', CallInv,
                      ContestInv, [Next]_vars
               PROVE  ContestInv'
    OBVIOUS
  <2>1. ASSUME NEW row, Requested(row)
        PROVE  Requested(row)'
    <3>1. PICK d \in Command : /\ command[d].pc # "idle"
                               /\ command[d].intake = row.scope
                               /\ command[d].transcript = row.target
                               /\ Owner[row.target] = row.scope
      BY <2>1 DEF Requested
    <3>2. /\ command'[d].pc # "idle"
          /\ command'[d].intake = row.scope
          /\ command'[d].transcript = row.target
      BY <3>1, ArgumentsStay
    <3> QED
      BY <3>1, <3>2 DEF Requested
  <2>2. ASSUME NEW row \in selections'
        PROVE  Requested(row)'
    <3>1. CASE row \in selections
      BY <2>1, <3>1 DEF ContestInv
    <3>2. CASE row \notin selections
      <4>1. PICK c \in Command : Persist(c)
        BY <3>2, OnlyPersistWrites
      <4>2. /\ row = NewSelection(c)
            /\ row.scope = command[c].intake
            /\ row.target = command[c].transcript
            /\ command[c].pc = "persist"
        BY <3>2, <4>1, PersistAppends DEF Persist
      <4>3. Admissible(c)
        BY <4>2 DEF ContestInv
      <4>4. Requested(row)
        BY <4>2, <4>3 DEF Requested, Admissible
      <4> QED
        BY <2>1, <4>4
    <3> QED
      BY <3>1, <3>2
  <2>3. ASSUME NEW c \in Command, command'[c].pc = "persist"
        PROVE  Admissible(c)'
    <3>1. CASE command'[c] = command[c]
      BY <2>3, <3>1 DEF ContestInv, Admissible
    <3>2. CASE command'[c] # command[c]
      <4>1. /\ Reads(c, command'[c].current)
            /\ command'[c].intake = command[c].intake
            /\ command'[c].transcript = command[c].transcript
        BY <2>3, <3>2, EntersPersist
      <4> QED
        BY <4>1 DEF Reads, Admissible
    <3> QED
      BY <3>1, <3>2
  <2>4. ASSUME NEW c \in Command, command'[c].pc = "resolve"
        PROVE  RowsOf(selections', command'[c].intake) # {}
    <3>1. CASE command'[c] = command[c]
      <4>1. RowsOf(selections, command[c].intake) # {}
        BY <2>4, <3>1 DEF ContestInv
      <4> QED
        BY <3>1, <4>1, TableGrows DEF RowsOf
    <3>2. CASE command'[c] # command[c]
      <4>1. PersistCollides(c)
        BY <2>4, <3>2, EntersResolve
      <4>2. \E old \in selections : old.scope = command[c].intake
        BY <4>1, Z3 DEF PersistCollides, Collides, IdentityExists, SlotTaken, Identity,
                    NewSelection, Successor
      <4>3. command'[c].intake = command[c].intake
        BY <4>1, StepEffect
      <4> QED
        BY <4>2, <4>3, TableGrows DEF RowsOf
    <3> QED
      BY <3>1, <3>2
  <2>5. ASSUME NEW c \in Command, command'[c].outcome = "collision"
        PROVE  \E d \in Command : Contender(c, d)'
    <3>1. CASE command[c].outcome = "collision"
      <4>1. PICK d \in Command : Contender(c, d)
        BY <3>1 DEF ContestInv, DuplicatesConverge
      <4>2. command[c].pc # "idle"
        BY <3>1, NoneAssumption DEF CallInv, CallIsRight, Outcomes
      <4>3. command[c].intake \in Intake
        BY <4>2 DEF TypeInv, ArgumentsKnown
      <4>4. CASE command[d].pc # "idle"
        BY <4>1, <4>2, <4>4, ArgumentsStay DEF Contender
      <4>5. CASE command[d].pc = "idle"
        <5>1. command[d].intake = None
          BY <4>5 DEF TypeInv, UnstartedKnown
        <5> QED
          BY <4>1, <4>3, <5>1, NoneAssumption DEF Contender
      <4> QED
        BY <4>4, <4>5
    <3>2. CASE command[c].outcome # "collision"
      <4>1. PICK row \in selections : /\ row.scope = command'[c].intake
                                      /\ row.target # command'[c].transcript
        BY <2>5, <3>2, CollisionSawAnother
      <4>2. Requested(row)'
        BY <2>1, <4>1 DEF ContestInv
      <4> QED
        BY <4>1, <4>2 DEF Requested, Contender
    <3> QED
      BY <3>1, <3>2
  <2>6. DuplicatesConverge'
    BY <2>5 DEF DuplicatesConverge
  <2> QED
    BY <2>2, <2>3, <2>4, <2>6 DEF ContestInv
<1> QED
  BY <1>1, <1>2, TypeCorrect, HistoryCorrect, CallsCorrect, PTL DEF Spec

\* Commands that ask for one transcript of an intake never end in a collision
\* unless another transcript of the intake was asked for as well.
THEOREM DuplicatesConvergeHolds == Spec => []DuplicatesConverge
<1>1. ContestInv => DuplicatesConverge
  BY DEF ContestInv
<1> QED
  BY <1>1, ContestCorrect, PTL

-----------------------------------------------------------------------------
(* The abstract register. *)

Logs == [i \in Intake |-> TargetsOf(selections, i)]

\* An insert takes the next place of its intake's log, for a transcript that
\* the log does not already end with.
LEMMA PersistTakes ==
    ASSUME TypeInv, HistoryInv, NEW c \in Command, Persist(c)
    PROVE  Register!Take(command[c].intake, command[c].transcript)
<1> DEFINE new == NewSelection(c)
           current == command[c].current
           i == command[c].intake
           t == command[c].transcript
<1>1. /\ selections' = selections \union {new}
      /\ new \notin selections
      /\ new.scope = i
      /\ new.target = t
      /\ new.sequence = current.sequence + 1
      /\ new.sequence = Height(selections, i)
      /\ History(selections')
  BY PersistAppends
<1>2. i \in Intake /\ ReadIsUsable(c)
  BY DEF Persist, TypeInv, ArgumentsKnown, HistoryInv
<1>3. Contiguous(selections, i) /\ History(selections)
  BY <1>2 DEF HistoryInv
<1> HIDE DEF new
<1>4. /\ TargetsOf(selections', i) = Append(TargetsOf(selections, i), t)
      /\ \A j \in Intake : j # i => TargetsOf(selections', j) = TargetsOf(selections, j)
  <2>1. /\ Contiguous(selections, new.scope)
        /\ new.sequence = Height(selections, new.scope)
        /\ History(selections \union {new})
    BY <1>1, <1>3
  <2>2. /\ TargetsOf(selections \union {new}, new.scope)
             = Append(TargetsOf(selections, new.scope), new.target)
        /\ \A scope : scope # new.scope =>
             TargetsOf(selections \union {new}, scope) = TargetsOf(selections, scope)
    BY <1>1, <1>3, <2>1, AppendExtendsTargets
  <2> QED
    BY <1>1, <2>2
<1>5. Logs' = [Logs EXCEPT ![i] = Append(@, t)]
  <2>1. \A j \in Intake : Logs'[j] = (IF j = i THEN Append(Logs[i], t) ELSE Logs[j])
    BY <1>2, <1>4 DEF Logs
  <2> QED
    BY <1>2, <2>1 DEF Logs
<1>6. Logs[i] # <<>> => Logs[i][Len(Logs[i])] # t
  <2>1. Logs[i] = TargetsOf(selections, i)
    BY <1>2 DEF Logs
  <2> DEFINE h == Height(selections, i)
  <2>2. h \in Nat
    BY HeightType DEF TypeInv
  <2>3. CASE current = NoRow
    <3>1. h = 0
      BY <1>1, <2>3 DEF NoRow
    <3>2. RowsOf(selections, i) = {}
      BY <1>3, <3>1 DEF Contiguous
    <3> QED
      BY <2>1, <3>2, EmptyTargets
  <2>4. CASE current # NoRow
    <3>1. current \in selections /\ current.scope = i /\ current.target # t
      BY <1>2, <2>4 DEF ReadIsUsable
    <3>2. current.sequence \in Nat /\ current.sequence + 1 = h
      BY <1>1, <1>3, <3>1 DEF History
    <3>3. /\ h \in DOMAIN TargetsOf(selections, i)
          /\ TargetsOf(selections, i)[h] = current.target
      BY <1>3, <2>2, <3>1, <3>2, TargetAt DEF History
    <3>4. Len(TargetsOf(selections, i)) = h
      BY <2>2, TargetsLength DEF TypeInv
    <3> QED
      BY <2>1, <3>1, <3>3, <3>4
  <2> QED
    BY <2>3, <2>4
<1> QED
  BY <1>5, <1>6 DEF Register!Take, Register!CurrentlyHolds, Logs

\* The selections implement the abstract register: every step of any number of
\* racing commands replaces one intake's current transcript by a different
\* one, or changes nothing a reader can see.
THEOREM RegisterImplemented == Spec => ImplementsRegister
<1>1. Init => Register!Init
  <2> SUFFICES ASSUME Init PROVE Register!Init
    OBVIOUS
  <2>1. \A i \in Intake : TargetsOf(selections, i) = <<>>
    BY EmptyTargets DEF Init, RowsOf
  <2> QED
    BY <2>1 DEF Register!Init
<1>2. TypeInv /\ HistoryInv /\ [Next]_vars => [Register!Next]_Logs
  <2> SUFFICES ASSUME TypeInv, HistoryInv, [Next]_vars
               PROVE  Register!Next \/ UNCHANGED Logs
    OBVIOUS
  <2>1. CASE UNCHANGED selections
    BY <2>1 DEF Logs
  <2>2. ASSUME NEW c \in Command, Persist(c)
        PROVE  Register!Next
    <3>1. command[c].intake \in Intake /\ command[c].transcript \in Transcript
      BY <2>2 DEF Persist, TypeInv, ArgumentsKnown
    <3> QED
      BY <2>2, <3>1, PersistTakes DEF Register!Next
  <2> QED
    BY <2>1, <2>2, OnlyPersistWrites
<1> QED
  BY <1>1, <1>2, TypeCorrect, HistoryCorrect, PTL
     DEF Spec, ImplementsRegister, Register!Spec, Logs
=============================================================================

----------------------- MODULE RawTranscriptSelection -----------------------
(***************************************************************************)
(* Current Raw Transcript Selection: concurrent `select` commands choosing *)
(* which admitted Raw Transcript of an intake is the current one.          *)
(*                                                                         *)
(* Each command is one process with its own SQLite connection in           *)
(* autocommit mode, so every SELECT it issues sees the table as it is at   *)
(* that moment, and only the final BEGIN IMMEDIATE ... COMMIT is atomic.   *)
(* A step of this module is one such SELECT or one such transaction.       *)
(***************************************************************************)
EXTENDS AuthorityHistory

CONSTANTS
    Intake,          \* transcript source intakes
    Transcript,      \* raw transcript identities a command may name
    Command,         \* the select commands of a behaviour, one process each
    Owner            \* the intake a transcript was admitted for, or None

ASSUME OwnerAssumption == Owner \in [Transcript -> Intake \union {None}]
VARIABLES
    selections,      \* table current_raw_transcript_selections
    command,         \* the local state of each command
    heightAtStart    \* observation only: length of the history at invocation

vars == <<selections, command, heightAtStart>>

Successes == {"created", "switched", "reused"}
Outcomes  == Successes \union {"rejected", "collision", "error"}

ASSUME NoneAssumption == None \notin Intake \union Transcript \union Outcomes

NotStarted ==
    [pc |-> "idle", intake |-> None, transcript |-> None,
     current |-> NoRow, outcome |-> None, selection |-> NoRow]

Init ==
    /\ selections = {}
    /\ command = [c \in Command |-> NotStarted]
    /\ heightAtStart = [c \in Command |-> 0]

Return(c, outcome, row) ==
    command' = [command EXCEPT ![c].pc = "returned",
                               ![c].outcome = outcome,
                               ![c].selection = row]

-----------------------------------------------------------------------------
(* The steps of select(intake_id, raw_transcript_id). *)

Invoke(c, i, t) ==
    /\ command[c].pc = "idle"
    /\ command' = [command EXCEPT ![c].pc = "read",
                                  ![c].intake = i, ![c].transcript = t]
    /\ heightAtStart' = [heightAtStart EXCEPT ![c] = Height(selections, i)]
    /\ UNCHANGED selections

\* Admissions are insert-only and name one intake for ever, so the ownership
\* check and the read of the current selection may share a step.
Admissible(c) == Owner[command[c].transcript] = command[c].intake

RejectUnrelated(c) ==
    /\ command[c].pc = "read"
    /\ ~Admissible(c)
    /\ Return(c, "rejected", NoRow)
    /\ UNCHANGED <<selections, heightAtStart>>

\* Mutant: the reuse of the current selection is forgotten.
ReadCurrentWithoutReuse(c) ==
    /\ command[c].pc = "read" /\ Admissible(c)
    /\ \E current \in CurrentAnswers(selections, command[c].intake) :
          command' = [command EXCEPT ![c].pc = "persist", ![c].current = current]
    /\ UNCHANGED <<selections, heightAtStart>>

ReadCurrent(c) ==
    /\ command[c].pc = "read"
    /\ Admissible(c)
    /\ \E current \in CurrentAnswers(selections, command[c].intake) :
          \/ /\ current # NoRow
             /\ current.target = command[c].transcript
             /\ Return(c, "reused", current)
          \/ /\ current = NoRow \/ current.target # command[c].transcript
             /\ command' = [command EXCEPT ![c].pc = "persist",
                                           ![c].current = current]
    /\ UNCHANGED <<selections, heightAtStart>>

NewSelection(c) ==
    Successor(command[c].current, command[c].intake, command[c].transcript, None)

CanInsert(table, row) ==
    /\ ~IdentityExists(table, row)
    /\ ValidSupersession(table, row)
    /\ ~SlotTaken(table, row)

Persist(c) ==
    /\ command[c].pc = "persist"
    /\ CanInsert(selections, NewSelection(c))
    /\ selections' = selections \union {NewSelection(c)}
    /\ Return(c, IF command[c].current = NoRow THEN "created" ELSE "switched",
              NewSelection(c))
    /\ UNCHANGED heightAtStart

Collides(table, row) ==
    \/ IdentityExists(table, row)
    \/ ValidSupersession(table, row) /\ SlotTaken(table, row)

PersistCollides(c) ==
    /\ command[c].pc = "persist"
    /\ Collides(selections, NewSelection(c))
    /\ command' = [command EXCEPT ![c].pc = "resolve"]
    /\ UNCHANGED <<selections, heightAtStart>>

\* A refused supersession, a locked database or an I/O error: the transaction
\* rolls back and the command reports a PersistenceError.
PersistFails(c) ==
    /\ command[c].pc = "persist"
    /\ Return(c, "error", NoRow)
    /\ UNCHANGED <<selections, heightAtStart>>

\* Mutants: after a collision whatever is current is reused, or nothing is.
ResolveToAnyCurrent(c) ==
    /\ command[c].pc = "resolve"
    /\ \E current \in CurrentAnswers(selections, command[c].intake) :
          Return(c, "reused", current)
    /\ UNCHANGED <<selections, heightAtStart>>

ResolveNothing(c) ==
    /\ command[c].pc = "resolve"
    /\ Return(c, "collision", NoRow)
    /\ UNCHANGED <<selections, heightAtStart>>

\* After a collision the command looks once more, and converges only on a
\* current selection of the transcript it asked for.
Resolve(c) ==
    /\ command[c].pc = "resolve"
    /\ \E current \in CurrentAnswers(selections, command[c].intake) :
          IF current # NoRow /\ current.target = command[c].transcript
          THEN Return(c, "reused", current)
          ELSE Return(c, "collision", NoRow)
    /\ UNCHANGED <<selections, heightAtStart>>

Running == {"read", "persist", "resolve"}

\* The process is killed, or one of its reads raises; SQLite discards what it
\* had not committed.
Kill(c) ==
    /\ command[c].pc \in Running
    /\ command' = [command EXCEPT ![c].pc = "killed"]
    /\ UNCHANGED <<selections, heightAtStart>>

Next ==
    \E c \in Command :
        \/ \E i \in Intake, t \in Transcript : Invoke(c, i, t)
        \/ RejectUnrelated(c)
        \/ ReadCurrent(c)
        \/ Persist(c)
        \/ PersistCollides(c)
        \/ PersistFails(c)
        \/ Resolve(c)
        \/ Kill(c)

Spec == Init /\ [][Next]_vars

-----------------------------------------------------------------------------
(* Properties. *)

SelectionRow ==
    [scope : Intake, target : Transcript, sequence : Nat,
     previous : {NoIdentity} \union (Intake \X Transcript \X Nat), note : {None}]

CommandState ==
    [pc : Running \union {"idle", "returned", "killed"},
     intake : Intake \union {None}, transcript : Transcript \union {None},
     current : SelectionRow \union {NoRow},
     outcome : Outcomes \union {None},
     selection : SelectionRow \union {NoRow}]

\* Every variable has its type; in particular no row ever has a negative
\* sequence or names a transcript outside its intake's vocabulary.
TypeOK ==
    /\ selections \subseteq SelectionRow
    /\ command \in [Command -> CommandState]
    /\ heightAtStart \in [Command -> Nat]

\* However the commands interleave, each intake's selections form one chain:
\* sequences 0, 1, 2, ... with no gap and no fork, each row superseding the
\* row before it; and the reuse rule survives races: no row re-selects the
\* transcript that the row before it had already made current.
HistoryIsOneChain == Chained(selections) /\ NeverRepeats(selections)

\* A command that reports success returns a recorded selection of the
\* transcript it was asked for, and that selection was the current one at
\* some moment between the command's invocation and its return.
SuccessWasCurrent ==
    \A c \in Command : command[c].outcome \in Successes =>
        LET row == command[c].selection
        IN  /\ row \in selections
            /\ row.scope = command[c].intake
            /\ row.target = command[c].transcript
            /\ row.sequence + 1 >= heightAtStart[c]

Contender(c, d) ==
    /\ command[d].intake = command[c].intake
    /\ command[d].transcript # command[c].transcript
    /\ Owner[command[d].transcript] = command[d].intake

\* Commands that ask for the same transcript of an intake never end in a
\* collision while nobody asks for another one (implementation/097: a
\* near-concurrent duplicate converges on the existing current selection).
DuplicatesConverge ==
    \A c \in Command : command[c].outcome = "collision" =>
        \E d \in Command : Contender(c, d)

\* The selections of each intake implement the abstract register.
Register ==
    INSTANCE AuthorityRegister
        WITH Scope <- Intake, Target <- Transcript,
             log <- [i \in Intake |-> TargetsOf(selections, i)]

ImplementsRegister == Register!Spec
=============================================================================

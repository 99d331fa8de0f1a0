----------------------------- MODULE SrtDelivery -----------------------------
(***************************************************************************)
(* Effective SRT Delivery: copying a materialized SRT file out to a        *)
(* destination under a record-first discipline.                            *)
(*                                                                         *)
(* A `deliver` command records an immutable intent, changes the            *)
(* destination file, verifies it, and records one immutable outcome; these *)
(* are separate SQLite transactions and file-system calls, and the process *)
(* may die, or race another command, between any two of them.  `reconcile` *)
(* closes an intent a dead process left behind.  Other programs may change *)
(* the destination file at any time (at most MaxInterference times here).  *)
(*                                                                         *)
(* Intents are AuthorityHistory rows: the scope is the (materialization,   *)
(* location) pair and the target is the overwrite flag, the only part of   *)
(* the identity that the pair and the sequence do not fix.                 *)
(***************************************************************************)
EXTENDS DestinationFiles

CONSTANTS
    Materialization,   \* materialized SRT files
    PayloadOf,         \* the verified bytes of each materialization
    Command,           \* deliver and reconcile commands, one process each
    Leftover,          \* materializations that a dead process may have left
                       \* with a PENDING delivery before the behaviour starts
    MaxInterference    \* bound: changes of destinations by other programs

ASSUME PayloadAssumption == PayloadOf \in [Materialization -> Bytes]
ASSUME InterferenceAssumption == MaxInterference \in Nat
ASSUME LeftoverAssumption == Leftover \subseteq Materialization

\* What a deliver or reconcile command reports.
Results == {"rejected", "reused", "delivered", "failed", "conflict",
            "outcome_collision", "error", "raised"}

ASSUME NoneAssumption == None \notin Results

VARIABLES
    intents,        \* table subtitle_effective_srt_delivery_intents
    outcomes,       \* table subtitle_effective_srt_delivery_outcomes
    file,           \* what each destination path holds; None is no file
    command,        \* the local state of each command
    interference,   \* how often other programs changed a destination
    witnessed       \* observation only: intents whose payload was in place
                    \* at some moment after they were recorded

vars == <<intents, outcomes, file, command, interference, witnessed>>

MaterializationOf(row) == row.scope[1]
LocationOf(row)        == row.scope[2]
PayloadFor(row)        == PayloadOf[MaterializationOf(row)]

Delivered(row)        == [delivery |-> row, state |-> "delivered", category |-> None]
Failed(row, category) == [delivery |-> row, state |-> "failed", category |-> category]

OutcomesOf(row) == {o \in outcomes : o.delivery = row}

NotStarted ==
    [pc |-> "idle", scope |-> None, overwrite |-> FALSE, row |-> NoRow,
     verdict |-> None, result |-> None]

\* A first attempt whose process died before it touched the destination.
Dangling(m, l, overwrite) == Successor(NoRow, <<m, l>>, overwrite, None)

Init ==
    /\ \/ intents = {}
       \/ \E m \in Leftover, l \in Location, overwrite \in BOOLEAN :
             intents = {Dangling(m, l, overwrite)}
    /\ outcomes = {}
    /\ file = [l \in Location |-> None]
    /\ command = [c \in Command |-> NotStarted]
    /\ interference = 0
    /\ witnessed = {}

Goto(c, pc) == command' = [command EXCEPT ![c].pc = pc]

Attempt(c, row) == command' = [command EXCEPT ![c].pc = "inspect", ![c].row = row]

Conclude(c, outcome) ==
    command' = [command EXCEPT ![c].pc = "record", ![c].verdict = outcome]

Return(c, result) ==
    command' = [command EXCEPT ![c].pc = "returned", ![c].result = result]

\* The steps that record an intent or change a destination observe which
\* payloads are in place.
Observe ==
    witnessed' = witnessed \union
        {row \in intents' : file'[LocationOf(row)] = PayloadFor(row)}

-----------------------------------------------------------------------------
(* deliver(materialization_id, relative_location, overwrite). *)

Deliver(c, m, l, overwrite) ==
    /\ command[c].pc = "idle"
    /\ command' = [command EXCEPT ![c].pc = "latest", ![c].scope = <<m, l>>,
                                  ![c].overwrite = overwrite]
    /\ UNCHANGED <<intents, outcomes, file, interference, witnessed>>

\* The source file can be missing, changed or unsafe at any time, so either
\* answer of the two verified source reads is possible; nothing is recorded.
RejectSource(c) ==
    /\ command[c].pc = "latest"
    /\ Return(c, "rejected")
    /\ UNCHANGED <<intents, outcomes, file, interference, witnessed>>

ReadLatest(c) ==
    /\ command[c].pc = "latest"
    /\ \E latest \in CurrentAnswers(intents, command[c].scope) :
          command' = [command EXCEPT
                        ![c].row = latest,
                        ![c].pc = IF latest = NoRow THEN "intend" ELSE "outcome"]
    /\ UNCHANGED <<intents, outcomes, file, interference, witnessed>>

\* Mutant: a dangling PENDING intent is retried, not completed.
RetryOverPending(c) ==
    /\ command[c].pc = "outcome"
    /\ Goto(c, "intend")
    /\ UNCHANGED <<intents, outcomes, file, interference, witnessed>>

\* A recorded outcome never changes, so its read and the read of the
\* destination that may follow it share a step.
ReadLatestOutcome(c) ==
    LET row == command[c].row IN
    /\ command[c].pc = "outcome"
    /\ \/ /\ OutcomesOf(row) = {}              \* a dangling PENDING intent
          /\ Goto(c, "inspect")
       \/ /\ Delivered(row) \in outcomes
          /\ file[LocationOf(row)] = PayloadFor(row)
          /\ Return(c, "reused")
       \/ /\ OutcomesOf(row) # {}
          /\ ~(Delivered(row) \in outcomes /\ file[LocationOf(row)] = PayloadFor(row))
          /\ Goto(c, "intend")
    /\ UNCHANGED <<intents, outcomes, file, interference, witnessed>>

NewIntent(c) ==
    Successor(command[c].row, command[c].scope, command[c].overwrite, None)

PersistIntent(c) ==
    /\ command[c].pc = "intend"
    /\ ~IdentityExists(intents, NewIntent(c))
    /\ ValidSupersession(intents, NewIntent(c))
    /\ ~SlotTaken(intents, NewIntent(c))
    /\ intents' = intents \union {NewIntent(c)}
    /\ Attempt(c, NewIntent(c))
    /\ UNCHANGED <<outcomes, file, interference>>
    /\ Observe

IntentCollides(c) ==
    /\ command[c].pc = "intend"
    /\ SlotTaken(intents, NewIntent(c))
    /\ Goto(c, "converge")
    /\ UNCHANGED <<intents, outcomes, file, interference, witnessed>>

\* Mutant: a lost race is always a conflict.
ConvergeNever(c) ==
    /\ command[c].pc = "converge"
    /\ Return(c, "conflict")
    /\ UNCHANGED <<intents, outcomes, file, interference, witnessed>>

Converge(c) ==
    /\ command[c].pc = "converge"
    /\ IF NewIntent(c) \in intents
       THEN command' = [command EXCEPT ![c].pc = "returned", ![c].result = "reused",
                                       ![c].row = NewIntent(c)]
       ELSE Return(c, "conflict")
    /\ UNCHANGED <<intents, outcomes, file, interference, witnessed>>

-----------------------------------------------------------------------------
(* _finalize: the destination writer, verification, and the outcome. *)

\* Mutant: the overwrite policy of the intent is not consulted.
InspectIgnoringPolicy(c) ==
    LET held == file[LocationOf(command[c].row)] IN
    /\ command[c].pc = "inspect"
    /\ Goto(c, IF held = None THEN "link" ELSE "unlink")
    /\ UNCHANGED <<intents, outcomes, file, interference, witnessed>>

InspectDestination(c) ==
    LET row  == command[c].row
        held == file[LocationOf(row)]
    IN
    /\ command[c].pc = "inspect"
    /\ \/ held = PayloadFor(row) /\ Goto(c, "verify")
       \/ held = None            /\ Goto(c, "link")
       \/ /\ held \in Bytes \ {PayloadFor(row)}
          /\ IF row.target
             THEN Goto(c, "unlink")
             ELSE Conclude(c, Failed(row, "destination_exists_different"))
       \/ /\ held = Obstacle
          /\ Conclude(c, Failed(row, "destination_exists_different"))
    /\ UNCHANGED <<intents, outcomes, file, interference, witnessed>>

\* replace() removes the file it is about to replace ...
UnlinkDestination(c) ==
    LET l == LocationOf(command[c].row) IN
    /\ command[c].pc = "unlink"
    /\ file[l] # None
    /\ file' = [file EXCEPT ![l] = None]
    /\ Goto(c, "link")
    /\ UNCHANGED <<intents, outcomes, interference>>
    /\ Observe

\* ... and both writers then link the synced temporary file into place, which
\* fails if anything has appeared there meanwhile.
LinkDestination(c) ==
    LET row == command[c].row
        l   == LocationOf(row)
    IN
    /\ command[c].pc = "link"
    /\ IF file[l] = None
       THEN /\ file' = [file EXCEPT ![l] = PayloadFor(row)]
            /\ Goto(c, "verify")
       ELSE /\ Conclude(c, Failed(row, "destination_exists_different"))
            /\ UNCHANGED file
    /\ UNCHANGED <<intents, outcomes, interference>>
    /\ Observe

\* A handled OSError anywhere in write() or replace(), the size check after the
\* link and a file that vanished before it could be unlinked included.
WriteFails(c) ==
    /\ command[c].pc \in {"inspect", "unlink", "link", "verify"}
    /\ Conclude(c, Failed(command[c].row, "write_failed"))
    /\ UNCHANGED <<intents, outcomes, file, interference, witnessed>>

\* A destination that is a symlink or lies in a directory that does not resolve,
\* and a file that cannot be read back.
DestinationUnsafe(c) ==
    /\ \/ /\ command[c].pc \in {"inspect", "observe"}
          /\ Conclude(c, Failed(command[c].row, "destination_unsafe"))
       \/ /\ command[c].pc = "verify"
          /\ Conclude(c, Failed(command[c].row, "verification_failed"))
    /\ UNCHANGED <<intents, outcomes, file, interference, witnessed>>

\* lstat failing with anything but FileNotFoundError is no Materialization
\* error and is caught nowhere: neither by the writers, which inspect the
\* destination before they change it, nor around the reads that verify a write,
\* reconcile an intent or decide on reuse.  Nothing is recorded.
InspectionRaises(c) ==
    /\ \/ command[c].pc \in {"inspect", "verify", "observe"}
       \/ command[c].pc = "outcome" /\ Delivered(command[c].row) \in outcomes
    /\ Return(c, "raised")
    /\ UNCHANGED <<intents, outcomes, file, interference, witnessed>>

\* Mutant: a failed verification is reported but not recorded.
VerifyWithoutRecord(c) ==
    LET row == command[c].row IN
    /\ command[c].pc = "verify"
    /\ IF file[LocationOf(row)] = PayloadFor(row)
       THEN Conclude(c, Delivered(row)) ELSE Return(c, "failed")
    /\ UNCHANGED <<intents, outcomes, file, interference, witnessed>>

VerifyDestination(c) ==
    LET row == command[c].row IN
    /\ command[c].pc = "verify"
    /\ Conclude(c, IF file[LocationOf(row)] = PayloadFor(row)
                   THEN Delivered(row) ELSE Failed(row, "verification_failed"))
    /\ UNCHANGED <<intents, outcomes, file, interference, witnessed>>

\* Mutant: the insert replaces the outcome that is there.
RecordOutcomeAnew(c) ==
    LET verdict == command[c].verdict IN
    /\ command[c].pc = "record"
    /\ outcomes' = {o \in outcomes : o.delivery # verdict.delivery} \union {verdict}
    /\ Return(c, verdict.state)
    /\ UNCHANGED <<intents, file, interference, witnessed>>

\* INSERT into outcomes, PRIMARY KEY (delivery_id).  The collision of two
\* commands that close one intent is not handled by any caller.
RecordOutcome(c) ==
    LET verdict == command[c].verdict IN
    /\ command[c].pc = "record"
    /\ IF OutcomesOf(verdict.delivery) = {}
       THEN /\ outcomes' = outcomes \union {verdict}
            /\ Return(c, verdict.state)
       ELSE /\ Return(c, "outcome_collision")
            /\ UNCHANGED outcomes
    /\ UNCHANGED <<intents, file, interference, witnessed>>

StorageFails(c) ==
    /\ command[c].pc \in {"intend", "record"}
    /\ Return(c, "error")
    /\ UNCHANGED <<intents, outcomes, file, interference, witnessed>>

-----------------------------------------------------------------------------
(* reconcile(delivery_id): close a PENDING intent by observation alone. *)

Reconcile(c, row) ==
    /\ command[c].pc = "idle"
    /\ command' = [command EXCEPT ![c].pc = "reconcile", ![c].row = row]
    /\ UNCHANGED <<intents, outcomes, file, interference, witnessed>>

CheckPending(c) ==
    /\ command[c].pc = "reconcile"
    /\ IF OutcomesOf(command[c].row) = {} THEN Goto(c, "observe") ELSE Return(c, "reused")
    /\ UNCHANGED <<intents, outcomes, file, interference, witnessed>>

\* Mutant: reconciliation takes the presence of a file for a delivery.
ObservePresence(c) ==
    LET row == command[c].row IN
    /\ command[c].pc = "observe"
    /\ Conclude(c, IF file[LocationOf(row)] = None
                   THEN Failed(row, "destination_missing") ELSE Delivered(row))
    /\ UNCHANGED <<intents, outcomes, file, interference, witnessed>>

ObserveDestination(c) ==
    LET row  == command[c].row
        held == file[LocationOf(row)]
    IN
    /\ command[c].pc = "observe"
    /\ \/ held = PayloadFor(row)                /\ Conclude(c, Delivered(row))
       \/ held \in {None, Obstacle}             /\ Conclude(c, Failed(row, "destination_missing"))
       \/ held \in Bytes \ {PayloadFor(row)}    /\ Conclude(c, Failed(row, "verification_failed"))
    /\ UNCHANGED <<intents, outcomes, file, interference, witnessed>>

-----------------------------------------------------------------------------
(* The environment. *)

Running == {"latest", "outcome", "intend", "converge", "inspect", "unlink",
            "link", "verify", "record", "reconcile", "observe"}

Kill(c) ==
    /\ command[c].pc \in Running
    /\ Goto(c, "killed")
    /\ UNCHANGED <<intents, outcomes, file, interference, witnessed>>

\* Another program deletes, rewrites or replaces a destination.
Interfere(l, held) ==
    /\ interference < MaxInterference
    /\ held # file[l]
    /\ file' = [file EXCEPT ![l] = held]
    /\ interference' = interference + 1
    /\ UNCHANGED <<intents, outcomes, command>>
    /\ Observe

Advance(c) ==
    \/ RejectSource(c)
    \/ ReadLatest(c)
    \/ ReadLatestOutcome(c)
    \/ PersistIntent(c)
    \/ IntentCollides(c)
    \/ Converge(c)
    \/ InspectDestination(c)
    \/ UnlinkDestination(c)
    \/ LinkDestination(c)
    \/ WriteFails(c)
    \/ DestinationUnsafe(c)
    \/ InspectionRaises(c)
    \/ VerifyDestination(c)
    \/ RecordOutcome(c)
    \/ StorageFails(c)
    \/ CheckPending(c)
    \/ ObserveDestination(c)

Next ==
    \/ \E c \in Command :
          \/ \E m \in Materialization, l \in Location, overwrite \in BOOLEAN :
                Deliver(c, m, l, overwrite)
          \/ \E row \in intents : Reconcile(c, row)
          \/ Advance(c)
          \/ Kill(c)
    \/ \E l \in Location, held \in Bytes \union {None, Obstacle} : Interfere(l, held)

Spec == Init /\ [][Next]_vars

\* A process that is not killed keeps executing.
FairSpec == Spec /\ \A c \in Command : WF_vars(Advance(c))

-----------------------------------------------------------------------------
(* Properties. *)

\* DELIVERED is recorded only for bytes that really were at the destination
\* after the intent was recorded, whoever closed the intent and whatever
\* happened to the file since.
DeliveredWasWitnessed ==
    \A o \in outcomes : o.state = "delivered" => o.delivery \in witnessed

\* A pair never has two open attempts: attempt n + 1 is recorded only after
\* attempt n was closed (a dangling PENDING intent is completed, not
\* duplicated).
OneOpenAttempt ==
    \A old, new \in intents :
        old.scope = new.scope /\ old.sequence < new.sequence => OutcomesOf(old) # {}

\* An explicit conflict over an intent means that a request with the other
\* overwrite policy took the attempt slot; identical requests never conflict
\* there.  (Over an outcome they do: RecordOutcome.)
ConflictMeansDivergence ==
    \A c \in Command : command[c].result = "conflict" =>
        \E row \in intents : /\ row.scope = command[c].scope
                             /\ row.target # command[c].overwrite

OwnStep == interference' = interference

RecordedChange(l) ==
    \E row \in intents :
        /\ LocationOf(row) = l
        /\ IF file[l] = None THEN file'[l] = PayloadFor(row) ELSE row.target

\* A delivery puts bytes in place only under a durable intent for exactly
\* those bytes at that location (record-first), and it takes bytes away only
\* under an intent recorded with overwrite.
DestinationFollowsRecord ==
    [][OwnStep => \A l \in Location : file'[l] # file[l] => RecordedChange(l)]_vars

\* The deliveries on record, with the state that state() derives for each.
StateOf(row) ==
    IF OutcomesOf(row) = {} THEN "pending"
    ELSE IF \E o \in OutcomesOf(row) : o.state = "delivered" THEN "delivered"
    ELSE "failed"

Ledger == INSTANCE DeliveryLedger
    WITH Nothing <- None, Content <- Bytes \union {None, Obstacle}, PayloadOf <- PayloadFor,
         outcome <- [row \in intents |-> StateOf(row)], placed <- witnessed

\* Commands, writers, reconciliations and deaths together implement the ledger
\* of deliveries: whoever closes an attempt closes it once and for all, and
\* every file operation is a change of one destination.
ImplementsLedger == Ledger!Spec

Finalizing == {"inspect", "unlink", "link", "verify", "record", "observe"}

\* Every attempt a command works on is eventually closed by a terminal outcome,
\* unless its process is killed, cut off from storage, or ended by an error of
\* the inspection of the destination that nothing handles (InspectionRaises).
LiveAttemptsClose ==
    \A c \in Command, row \in [scope : Materialization \X Location, target : BOOLEAN,
                               sequence : {0}, previous : {NoIdentity}, note : {None}] :
        command[c].pc \in Finalizing /\ command[c].row = row
            ~> OutcomesOf(row) # {} \/ command[c].pc = "killed"
                                    \/ command[c].result \in {"error", "raised"}
=============================================================================

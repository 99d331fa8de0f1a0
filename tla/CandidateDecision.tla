-------------------------- MODULE CandidateDecision --------------------------
(***************************************************************************)
(* Correction Candidate Decision: concurrent `decide` commands recording a *)
(* human Accept or Reject of an admitted Correction Candidate, and the     *)
(* `authority` query deriving a candidate's current status.                *)
(*                                                                         *)
(* The service has the shape of Raw Transcript Selection with two          *)
(* differences that matter: a decision carries provenance (reviewer and    *)
(* rationale, here a note) that its content fingerprint covers and its     *)
(* identity does not; and a collision is resolved by looking up the        *)
(* identity the command itself computed, not the current decision.         *)
(***************************************************************************)
EXTENDS AuthorityHistory

CONSTANTS
    Candidate,       \* correction candidate identities a command may name
    Admitted,        \* those that have an admission
    Note,            \* provenance: a reviewer with a rationale
    Command,         \* the decide commands of a behaviour, one process each
    Reader           \* the authority queries of a behaviour

ASSUME AdmittedAssumption == Admitted \subseteq Candidate

Decidable == {"accept", "reject"}
Kind == Decidable \union {"modify"}    \* what a caller may ask for
Outcomes == {"recorded", "changed", "reused", "rejected", "conflict", "collision", "error"}

ASSUME NoneAssumption == None \notin Candidate \union Note \union Kind \union Outcomes

VARIABLES
    decisions,       \* table correction_candidate_decisions
    command,         \* the local state of each decide command
    reader,          \* the local state of each authority query
    heightAtStart    \* observation only: history length at invocation

vars == <<decisions, command, reader, heightAtStart>>

NotStarted ==
    [pc |-> "idle", candidate |-> None, kind |-> None, note |-> None,
     current |-> NoRow, outcome |-> None, decision |-> NoRow]

NotAsked == [pc |-> "idle", candidate |-> None, count |-> 0, current |-> NoRow]

Init ==
    /\ decisions = {}
    /\ command = [c \in Command |-> NotStarted]
    /\ reader = [r \in Reader |-> NotAsked]
    /\ heightAtStart = [r \in Reader |-> 0]

Return(c, outcome, row) ==
    command' = [command EXCEPT ![c].pc = "returned",
                               ![c].outcome = outcome,
                               ![c].decision = row]

-----------------------------------------------------------------------------
(* The steps of decide(candidate_id, kind, reviewer, rationale). *)

Invoke(c, k, kind, note) ==
    /\ command[c].pc = "idle"
    /\ command' = [command EXCEPT ![c].pc = "read", ![c].candidate = k,
                                  ![c].kind = kind, ![c].note = note]
    /\ UNCHANGED <<decisions, reader, heightAtStart>>

WellFormed(c) == command[c].candidate \in Admitted /\ command[c].kind \in Decidable

RejectInput(c) ==
    /\ command[c].pc = "read"
    /\ ~WellFormed(c)
    /\ Return(c, "rejected", NoRow)
    /\ UNCHANGED <<decisions, reader, heightAtStart>>

\* Mutant: the reuse of the current decision is forgotten.
ReadCurrentWithoutReuse(c) ==
    /\ command[c].pc = "read" /\ WellFormed(c)
    /\ \E current \in CurrentAnswers(decisions, command[c].candidate) :
          command' = [command EXCEPT ![c].pc = "lookup", ![c].current = current]
    /\ UNCHANGED <<decisions, reader, heightAtStart>>

ReadCurrent(c) ==
    /\ command[c].pc = "read"
    /\ WellFormed(c)
    /\ \E current \in CurrentAnswers(decisions, command[c].candidate) :
          \/ /\ current # NoRow
             /\ current.target = command[c].kind
             /\ Return(c, "reused", current)
          \/ /\ current = NoRow \/ current.target # command[c].kind
             /\ command' = [command EXCEPT ![c].pc = "lookup",
                                           ![c].current = current]
    /\ UNCHANGED <<decisions, reader, heightAtStart>>

NewDecision(c) ==
    Successor(command[c].current, command[c].candidate, command[c].kind,
              command[c].note)

\* The recorded decisions with the identity this command computed.
SameIdentity(c) == {row \in decisions : Identity(row) = Identity(NewDecision(c))}

\* Mutant: the content fingerprint leaves the provenance out.
SameFingerprintWithoutProvenance(row, other) == TRUE

\* With equal identities the content fingerprints differ exactly when the
\* provenance does.
SameFingerprint(row, other) == row.note = other.note

OutcomeOf(row) == IF row.sequence = 0 THEN "recorded" ELSE "changed"

LookupExisting(c) ==
    /\ command[c].pc = "lookup"
    /\ IF SameIdentity(c) = {}
       THEN command' = [command EXCEPT ![c].pc = "persist"]
       ELSE \E row \in SameIdentity(c) :
              IF SameFingerprint(row, NewDecision(c))
              THEN Return(c, OutcomeOf(row), row)
              ELSE Return(c, "conflict", NoRow)
    /\ UNCHANGED <<decisions, reader, heightAtStart>>

Persist(c) ==
    /\ command[c].pc = "persist"
    /\ ~IdentityExists(decisions, NewDecision(c))
    /\ ValidSupersession(decisions, NewDecision(c))
    /\ ~SlotTaken(decisions, NewDecision(c))
    /\ decisions' = decisions \union {NewDecision(c)}
    /\ Return(c, IF command[c].current = NoRow THEN "recorded" ELSE "changed",
              NewDecision(c))
    /\ UNCHANGED <<reader, heightAtStart>>

PersistCollides(c) ==
    /\ command[c].pc = "persist"
    /\ \/ IdentityExists(decisions, NewDecision(c))
       \/ /\ ValidSupersession(decisions, NewDecision(c))
          /\ SlotTaken(decisions, NewDecision(c))
    /\ command' = [command EXCEPT ![c].pc = "resolve"]
    /\ UNCHANGED <<decisions, reader, heightAtStart>>

\* A refused supersession, a locked database or an I/O error.
PersistFails(c) ==
    /\ command[c].pc = "persist"
    /\ Return(c, "error", NoRow)
    /\ UNCHANGED <<decisions, reader, heightAtStart>>

\* Mutant: a collision is always raised.
ResolvesToNothing(c) == {}

\* After a collision: the very decision this command wanted is there, or the
\* collision is raised.
ResolvesTo(c) ==
    {row \in SameIdentity(c) : SameFingerprint(row, NewDecision(c))}

Resolve(c) ==
    /\ command[c].pc = "resolve"
    /\ IF ResolvesTo(c) # {}
       THEN \E row \in ResolvesTo(c) : Return(c, OutcomeOf(row), row)
       ELSE Return(c, "collision", NoRow)
    /\ UNCHANGED <<decisions, reader, heightAtStart>>

Running == {"read", "lookup", "persist", "resolve"}

Kill(c) ==
    /\ command[c].pc \in Running
    /\ command' = [command EXCEPT ![c].pc = "killed"]
    /\ UNCHANGED <<decisions, reader, heightAtStart>>

-----------------------------------------------------------------------------
(* The steps of authority(candidate_id): the history, then the current row. *)

AskAuthority(r, k) ==
    /\ reader[r].pc = "idle"
    /\ reader' = [reader EXCEPT ![r].pc = "history", ![r].candidate = k]
    /\ heightAtStart' = [heightAtStart EXCEPT ![r] = Height(decisions, k)]
    /\ UNCHANGED <<decisions, command>>

\* Mutant: the count is off by one.
ReadHistoryOffByOne(r) ==
    /\ reader[r].pc = "history"
    /\ reader' = [reader EXCEPT ![r].pc = "current",
                                ![r].count = Height(decisions, reader[r].candidate) + 1]
    /\ UNCHANGED <<decisions, command, heightAtStart>>

ReadHistory(r) ==
    /\ reader[r].pc = "history"
    /\ reader' = [reader EXCEPT ![r].pc = "current",
                                ![r].count = Height(decisions, reader[r].candidate)]
    /\ UNCHANGED <<decisions, command, heightAtStart>>

\* With no current decision the status is undecided and the count is 0.
ReadAuthority(r) ==
    /\ reader[r].pc = "current"
    /\ \E current \in CurrentAnswers(decisions, reader[r].candidate) :
          reader' = [reader EXCEPT ![r].pc = "returned", ![r].current = current,
                                   ![r].count = IF current = NoRow THEN 0 ELSE @]
    /\ UNCHANGED <<decisions, command, heightAtStart>>

Next ==
    \/ \E c \in Command :
        \/ \E k \in Candidate, kind \in Kind, note \in Note : Invoke(c, k, kind, note)
        \/ RejectInput(c)
        \/ ReadCurrent(c)
        \/ LookupExisting(c)
        \/ Persist(c)
        \/ PersistCollides(c)
        \/ PersistFails(c)
        \/ Resolve(c)
        \/ Kill(c)
    \/ \E r \in Reader :
        \/ \E k \in Admitted : AskAuthority(r, k)
        \/ ReadHistory(r)
        \/ ReadAuthority(r)

Spec == Init /\ [][Next]_vars

-----------------------------------------------------------------------------
(* Properties. *)

\* A command told "recorded" or "changed" is never shown somebody else's
\* judgement as its own: the record carries its reviewer and rationale, also
\* when it converged on a record a concurrent process inserted.
NoMisattribution ==
    \A c \in Command : command[c].outcome \in {"recorded", "changed"} =>
        command[c].decision.note = command[c].note

Differs(c, d) ==
    /\ command[d].candidate = command[c].candidate
    /\ <<command[d].kind, command[d].note>> # <<command[c].kind, command[c].note>>

\* A command fails with a conflict or a collision only if another command on
\* the same candidate asked for another kind or gave another provenance
\* (implementation/099: a near-concurrent duplicate converges).
DuplicatesConverge ==
    \A c \in Command : command[c].outcome \in {"collision", "conflict"} =>
        \E d \in Command : Differs(c, d)

\* The authority query reads the history and the current decision in two
\* statements.  Its count may lag behind the decision it reports but never
\* exceeds the number of decisions up to it, and both are at least as recent
\* as the call.
ReportedAuthorityIsOrdered ==
    \A r \in Reader : reader[r].pc = "returned" =>
        /\ reader[r].count <= reader[r].current.sequence + 1
        /\ reader[r].count >= heightAtStart[r]

\* The decisions of each candidate implement the abstract register.
Register ==
    INSTANCE AuthorityRegister
        WITH Scope <- Candidate, Target <- Decidable,
             log <- [k \in Candidate |-> TargetsOf(decisions, k)]

ImplementsRegister == Register!Spec
=============================================================================

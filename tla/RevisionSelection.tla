-------------------------- MODULE RevisionSelection --------------------------
(***************************************************************************)
(* Corrected Revision Selection: concurrent commands choosing, per intake, *)
(* the corrected revision to use (`select_revision`) or an explicit return *)
(* to the Raw Transcript (`select_raw_fallback`).                          *)
(*                                                                         *)
(* A revision is eligible while its parent transcript is the intake's      *)
(* current raw selection and every correction candidate it applied is      *)
(* currently accepted.  A command reads these authorities one statement at *)
(* a time, before the transaction that appends its selection; the          *)
(* registers of RawTranscriptSelection and CandidateDecision move between. *)
(* Revisions are immutable and already generated: text revisions, timing   *)
(* aggregates and same-source compositions differ only in their members.   *)
(* EffectiveConsumption instantiates this module and states the            *)
(* assumptions on the constants they share.                                *)
(***************************************************************************)
EXTENDS RepositoryValidator, Sequences

CONSTANTS
    Intake, Transcript, Candidate, Revision,
    IntakeOf,            \* the intake a revision's lineage leads to
    ParentOf,            \* the raw transcript a revision corrects
    MembersOf,           \* the candidates it applied, in the order they are read
    LineageOf,           \* which of the four generation relations owns it
    RawFallback,         \* the target of a fallback selection
    Command,             \* the selection commands, one process each
    RawAtStart,          \* raw selections recorded before the behaviour starts
    MaxRawSelections,    \* bound on the raw selections of an intake
    MaxDecisions         \* bound on the decisions of a candidate

Decidable == {"accept", "reject"}
Target == Revision \union {RawFallback}

VARIABLES
    rawLog,              \* per intake, the raw transcripts selected so far
    decisionLog,         \* per candidate, the decisions recorded so far
    selections,          \* table corrected_revision_selections
    command              \* the local state of each command; its field since
                         \* is observation only

vars == <<rawLog, decisionLog, selections, command>>

Raw == INSTANCE AuthorityRegister
           WITH Scope <- Intake, Target <- Transcript, log <- rawLog
Decision == INSTANCE AuthorityRegister
           WITH Scope <- Candidate, Target <- Decidable, log <- decisionLog

NotStarted ==
    [pc |-> "idle", intake |-> None, target |-> None, unread |-> <<>>,
     current |-> NoRow, since |-> <<>>, outcome |-> None]

Init ==
    /\ rawLog = RawAtStart
    /\ decisionLog = [k \in Candidate |-> <<"accept">>]
    /\ selections = {}
    /\ command = [c \in Command |-> NotStarted]

\* What is left of a command that returned or died: its request and its end.
Leave(c, pc, outcome) ==
    command' = [command EXCEPT
        ![c] = [pc |-> pc, intake |-> command[c].intake, target |-> command[c].target,
                unread |-> <<>>, current |-> NoRow, since |-> <<>>, outcome |-> outcome]]

Return(c, outcome) == Leave(c, "returned", outcome)

\* How long the histories that revision r depends on are, to tell later what
\* was current since.
LengthsFor(r) ==
    [raw      |-> Len(rawLog[IntakeOf[r]]),
     decision |-> [n \in DOMAIN MembersOf[r] |-> Len(decisionLog[MembersOf[r][n]])]]

-----------------------------------------------------------------------------
(* Other processes: raw selections and decisions recorded meanwhile. *)

SelectRaw(i, t) ==
    /\ Len(rawLog[i]) < MaxRawSelections
    /\ Raw!Take(i, t)
    /\ UNCHANGED <<decisionLog, selections, command>>

Decide(k, kind) ==
    /\ Len(decisionLog[k]) < MaxDecisions
    /\ Decision!Take(k, kind)
    /\ UNCHANGED <<rawLog, selections, command>>

-----------------------------------------------------------------------------
(* The steps of select_revision(revision_id) and select_raw_fallback(...). *)

SelectRevision(c, r) ==
    /\ command[c].pc = "idle"
    /\ command' = [command EXCEPT ![c].pc = "raw", ![c].intake = IntakeOf[r],
                                  ![c].target = r, ![c].unread = MembersOf[r],
                                  ![c].since = LengthsFor(r)]
    /\ UNCHANGED <<rawLog, decisionLog, selections>>

SelectRawFallback(c, i) ==
    /\ command[c].pc = "idle"
    /\ command' = [command EXCEPT ![c].pc = "read", ![c].intake = i,
                                  ![c].target = RawFallback]
    /\ UNCHANGED <<rawLog, decisionLog, selections>>

CheckParent(c) ==
    /\ command[c].pc = "raw"
    /\ IF Raw!CurrentlyHolds(command[c].intake, ParentOf[command[c].target])
       THEN command' = [command EXCEPT ![c].pc = "members"]
       ELSE Return(c, "not_eligible")
    /\ UNCHANGED <<rawLog, decisionLog, selections>>

\* Mutant: the decisions of the members are not consulted.
SkipMember(c) ==
    /\ command[c].pc = "members"
    /\ command[c].unread # <<>>
    /\ command' = [command EXCEPT ![c].unread = Tail(@)]
    /\ UNCHANGED <<rawLog, decisionLog, selections>>

CheckMember(c) ==
    /\ command[c].pc = "members"
    /\ command[c].unread # <<>>
    /\ IF Decision!CurrentlyHolds(Head(command[c].unread), "accept")
       THEN command' = [command EXCEPT ![c].unread = Tail(@)]
       ELSE Return(c, "not_eligible")
    /\ UNCHANGED <<rawLog, decisionLog, selections>>

\* Mutant: the reuse of the current selection is forgotten.
ReadCurrentWithoutReuse(c) ==
    /\ \/ command[c].pc = "read"
       \/ command[c].pc = "members" /\ command[c].unread = <<>>
    /\ \E current \in CurrentAnswers(selections, command[c].intake) :
          command' = [command EXCEPT ![c].pc = "persist", ![c].current = current]
    /\ UNCHANGED <<rawLog, decisionLog, selections>>

ReadCurrent(c) ==
    /\ \/ command[c].pc = "read"
       \/ command[c].pc = "members" /\ command[c].unread = <<>>
    /\ \E current \in CurrentAnswers(selections, command[c].intake) :
          \/ /\ current # NoRow
             /\ current.target = command[c].target
             /\ Return(c, "reused")
          \/ /\ current = NoRow \/ current.target # command[c].target
             /\ command' = [command EXCEPT ![c].pc = "persist",
                                           ![c].current = current]
    /\ UNCHANGED <<rawLog, decisionLog, selections>>

NewSelection(c) ==
    Successor(command[c].current, command[c].intake, command[c].target, None)

Persist(c) ==
    /\ command[c].pc = "persist"
    /\ ~IdentityExists(selections, NewSelection(c))
    /\ ValidSupersession(selections, NewSelection(c))
    /\ ~SlotTaken(selections, NewSelection(c))
    /\ selections' = selections \union {NewSelection(c)}
    /\ Return(c, IF command[c].current = NoRow THEN "recorded" ELSE "changed")
    /\ UNCHANGED <<rawLog, decisionLog>>

PersistCollides(c) ==
    /\ command[c].pc = "persist"
    /\ \/ IdentityExists(selections, NewSelection(c))
       \/ /\ ValidSupersession(selections, NewSelection(c))
          /\ SlotTaken(selections, NewSelection(c))
    /\ command' = [command EXCEPT ![c].pc = "resolve"]
    /\ UNCHANGED <<rawLog, decisionLog, selections>>

PersistFails(c) ==
    /\ command[c].pc = "persist"
    /\ Return(c, "error")
    /\ UNCHANGED <<rawLog, decisionLog, selections>>

\* Mutant: a collision is always raised.
ResolveNothing(c) ==
    /\ command[c].pc = "resolve"
    /\ Return(c, "collision")
    /\ UNCHANGED <<rawLog, decisionLog, selections>>

\* Converge on a current selection of the same target; eligibility is not
\* checked again.
Resolve(c) ==
    /\ command[c].pc = "resolve"
    /\ \E current \in CurrentAnswers(selections, command[c].intake) :
          IF current # NoRow /\ current.target = command[c].target
          THEN Return(c, "reused")
          ELSE Return(c, "collision")
    /\ UNCHANGED <<rawLog, decisionLog, selections>>

Running == {"raw", "members", "read", "persist", "resolve"}

Kill(c) ==
    /\ command[c].pc \in Running
    /\ Leave(c, "killed", None)
    /\ UNCHANGED <<rawLog, decisionLog, selections>>

Next ==
    \/ \E i \in Intake, t \in Transcript : SelectRaw(i, t)
    \/ \E k \in Candidate, kind \in Decidable : Decide(k, kind)
    \/ \E c \in Command :
        \/ \E r \in Revision : SelectRevision(c, r)
        \/ \E i \in Intake : SelectRawFallback(c, i)
        \/ CheckParent(c)
        \/ CheckMember(c)
        \/ ReadCurrent(c)
        \/ Persist(c)
        \/ PersistCollides(c)
        \/ PersistFails(c)
        \/ Resolve(c)
        \/ Kill(c)

Spec == Init /\ [][Next]_vars

-----------------------------------------------------------------------------
(* Properties. *)

Applicable(r) ==
    /\ Raw!CurrentlyHolds(IntakeOf[r], ParentOf[r])
    /\ \A n \in DOMAIN MembersOf[r] : Decision!CurrentlyHolds(MembersOf[r][n], "accept")

\* x was the current entry of a log at some moment since the log had length n.
CurrentSince(history, n, x) ==
    \E m \in DOMAIN history : m >= n /\ history[m] = x

\* A command that is about to record a revision saw every condition of its
\* eligibility hold at some moment of the call: the parent was the current raw
\* transcript and each member was accepted since the command was invoked.  A
\* revision that stayed ineligible throughout the call is never recorded.
EligibilityWasObserved ==
    \A c \in Command :
        command[c].pc = "persist" /\ command[c].target \in Revision =>
            LET r     == command[c].target
                since == command[c].since
            IN  /\ CurrentSince(rawLog[IntakeOf[r]], since.raw, ParentOf[r])
                /\ \A n \in DOMAIN MembersOf[r] :
                      CurrentSince(decisionLog[MembersOf[r][n]], since.decision[n], "accept")

\* Divergent concurrent requests surface as a collision, identical ones never
\* do (implementation/101).
CollisionMeansDivergence ==
    \A c \in Command : command[c].outcome = "collision" =>
        \E d \in Command : /\ command[d].intake = command[c].intake
                           /\ command[d].target # command[c].target

\* The selections of each intake implement the abstract register.
Register ==
    INSTANCE AuthorityRegister
        WITH Scope <- Intake,
             log <- [i \in Intake |-> TargetsOf(selections, i)]

ImplementsRegister == Register!Spec

(***************************************************************************)
(* What the repository says and the code does not do.                      *)
(***************************************************************************)

\* The lineages in which the validator looks for the intake of a selection.
LineagesSearched == {"text", "timing", "aggregate"}

ContextMismatches ==
    {row \in selections :
        /\ row.target \in Revision
        /\ ~ /\ LineageOf[row.target] \in LineagesSearched
             /\ IntakeOf[row.target] = row.scope}

\* "A selected revision's lineage does not belong to the selection's intake
\* context": the validator says so of no selection the service records, since
\* the service only records revisions of that very intake.
SelectedContextIsRecognized == ContextMismatches = {}
=============================================================================

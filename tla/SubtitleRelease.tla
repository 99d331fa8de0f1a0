--------------------------- MODULE SubtitleRelease ---------------------------
(***************************************************************************)
(* From a reviewed subtitle to an SRT artifact: concurrent `select_final`  *)
(* commands choosing an accepted review subject for an intake, and         *)
(* `generate_srt_artifact` commands exporting a selection.                 *)
(*                                                                         *)
(* Both derive permission from three authorities other processes move: the *)
(* human decisions on a subject, the intake's effective source, and (for   *)
(* an export) the selection itself.  No authority is copied, none is       *)
(* locked, and each is read in a statement of its own.                     *)
(*                                                                         *)
(* A review subject stands for the chain below it, which never changes:    *)
(* one candidate, generated from one consumed source and rendered by one   *)
(* generator.  Decisions are the register that CandidateDecision           *)
(* implements for the correction candidates; the effective source is what  *)
(* EffectiveConsumption's resolver answers, with the guarantee checked     *)
(* there: an answer is right if nothing moved while it was derived.        *)
(***************************************************************************)
EXTENDS RepositoryValidator, Sequences, Functions

CONSTANTS
    Intake, Subject,
    Source,              \* what the resolver may answer
    IntakeOf,            \* the intake of each prepared review subject
    SourceOf,            \* the source its candidate was generated from
    Deliverable,         \* the subjects without blocking readability findings
    Unresolvable,        \* the answer that there is no source
    Selector,            \* who selects, and why
    ReleaseCommand,      \* the commands of a behaviour, one process each
    SourcesAtStart,      \* the effective sources each intake has had so far
    MaxSources,          \* bound on the effective sources of an intake
    DecisionKind,        \* the kinds of decision that occur
    MaxDecisions         \* bound on the decisions of all subjects together

ASSUME ReleaseLineageAssumption ==
    /\ IntakeOf \in [Subject -> Intake]
    /\ SourceOf \in [Subject -> Source \ {Unresolvable}]
    /\ Deliverable \subseteq Subject
    /\ DecisionKind \subseteq {"accept", "reject", "modify"}
\* A candidate was generated while its source was effective.
ASSUME SourcesAssumption ==
    /\ SourcesAtStart \in [Intake -> Seq(Source)]
    /\ \A i \in Intake : SourcesAtStart[i] # <<>>
    /\ \A s \in Subject : \E n \in DOMAIN SourcesAtStart[IntakeOf[s]] :
           SourcesAtStart[IntakeOf[s]][n] = SourceOf[s]
ASSUME ReleaseBoundsAssumption == MaxSources \in Nat /\ MaxDecisions \in Nat

\* What a selection chooses: a subject on the strength of its n-th decision.
SelectionTarget == Subject \X (Nat \ {0})

\* How a command ends, and what an export reports of its artifact's selection.
Selected == {"recorded", "changed", "reused", "converged"}
Currentness == {"current", "superseded", "decision_superseded", "stale", "unresolvable"}
ReleaseOutcomes == Selected \union Currentness \union {"not_eligible", "conflict", "error"}

ASSUME ReleaseNoneAssumption ==
    /\ None \notin Subject \union SelectionTarget
    /\ None \notin ReleaseOutcomes \union {"created"}

VARIABLES
    sourceLog,           \* per intake, the effective sources so far
    decisionLog,         \* per subject, the decisions recorded so far
    selections,          \* table subtitle_effective_final_selections
    artifacts,           \* table subtitle_effective_srt_artifacts
    release,             \* the local state of each command
    start                \* observation only: all history lengths at invocation

releaseVars == <<sourceLog, decisionLog, selections, artifacts, release, start>>
tables == <<selections, artifacts>>

Effective == INSTANCE AuthorityRegister
    WITH Scope <- Intake, Target <- Source, log <- sourceLog
Decision == INSTANCE AuthorityRegister
    WITH Scope <- Subject, Target <- DecisionKind, log <- decisionLog

NotReleasing ==
    [pc |-> "idle", op |-> None, subject |-> None, note |-> None,
     supporting |-> 0, row |-> NoRow, made |-> None, outcome |-> None]

ReleaseInit ==
    /\ sourceLog = SourcesAtStart
    /\ decisionLog = [s \in Subject |-> <<>>]
    /\ selections = {}
    /\ artifacts = {}
    /\ release = [c \in ReleaseCommand |-> NotReleasing]
    /\ start = [c \in ReleaseCommand |-> <<>>]

ReleaseGoto(c, pc) == release' = [release EXCEPT ![c].pc = pc]

ReleaseReturn(c, outcome) ==
    release' = [release EXCEPT ![c].pc = "returned", ![c].outcome = outcome]

\* A command that failed, or died, leaves nothing but that fact.
ReleaseLeave(c, pc, outcome) ==
    release' = [release EXCEPT ![c] = [NotReleasing EXCEPT !.pc = pc, !.outcome = outcome]]

\* The lengths of the histories a command on subject s depends on.
Lengths(s) == [source    |-> Len(sourceLog[IntakeOf[s]]),
               decision  |-> Len(decisionLog[s]),
               selection |-> Height(selections, IntakeOf[s])]

-----------------------------------------------------------------------------
(* Other processes. *)

SumOfLengths == FoldFunction(LAMBDA log, sum : Len(log) + sum, 0, decisionLog)

\* The raw selection, the revision selection or a decision on a member moves
\* what the resolver answers, which disturbs a command that is asking.
MoveSource(i, source) ==
    /\ Len(sourceLog[i]) < MaxSources
    /\ Effective!Take(i, source)
    /\ release' = [c \in ReleaseCommand |->
          IF release[c].pc = "source" /\ IntakeOf[release[c].subject] = i
          THEN [release[c] EXCEPT !.pc = "disturbed"] ELSE release[c]]
    /\ UNCHANGED <<decisionLog, tables, start>>

Decide(s, kind) ==
    /\ SumOfLengths < MaxDecisions
    /\ Decision!Take(s, kind)
    /\ UNCHANGED <<sourceLog, tables, release, start>>

-----------------------------------------------------------------------------
(* Both commands: is the supporting decision still applicable? *)

\* Mutant: a decision counts although a later one superseded it.
RecheckKindOnly(c) ==
    /\ release[c].pc = "recheck"
    /\ ReleaseGoto(c, "source")
    /\ UNCHANGED <<sourceLog, decisionLog, tables, start>>

\* Where a command goes with an answer: a gate lets only "current" pass, the
\* report that ends an export passes it on to the caller.
Judge(c, answer) ==
    IF release[c].made # None
    THEN ReleaseReturn(c, answer)
    ELSE IF answer # "current" THEN ReleaseLeave(c, "returned", "not_eligible")
    ELSE IF release[c].op = "export" THEN ReleaseGoto(c, "lookup")
    ELSE IF release[c].subject \in Deliverable THEN ReleaseGoto(c, "current")
    ELSE ReleaseLeave(c, "returned", "not_eligible")

\* decisions.applicability(supporting) reads the current decision again...
RecheckDecision(c) ==
    /\ release[c].pc = "recheck"
    /\ IF Len(decisionLog[release[c].subject]) = release[c].supporting
       THEN ReleaseGoto(c, "source")
       ELSE Judge(c, "decision_superseded")
    /\ UNCHANGED <<sourceLog, decisionLog, tables, start>>

\* ...and then derives the currentness of the candidate's source.
Verdicts(c) ==
    LET s == release[c].subject
    IN  IF release[c].pc = "disturbed" THEN {"current", "stale", "unresolvable"}
        ELSE IF Effective!CurrentlyHolds(IntakeOf[s], SourceOf[s]) THEN {"current"}
        ELSE IF Effective!CurrentlyHolds(IntakeOf[s], Unresolvable) THEN {"unresolvable"}
        ELSE {"stale"}

\* Mutant: the verdict on the source is ignored.
ReadNoSource(c) ==
    /\ release[c].pc \in {"source", "disturbed"}
    /\ Judge(c, "current")
    /\ UNCHANGED <<sourceLog, decisionLog, tables, start>>

ReadSource(c) ==
    /\ release[c].pc \in {"source", "disturbed"}
    /\ \E verdict \in Verdicts(c) : Judge(c, verdict)
    /\ UNCHANGED <<sourceLog, decisionLog, tables, start>>

-----------------------------------------------------------------------------
(* select_final(review_subject_id, selector, rationale). *)

SelectFinal(c, s, note) ==
    /\ release[c].pc = "idle"
    /\ release' = [release EXCEPT ![c].pc = "decision", ![c].op = "select",
                                  ![c].subject = s, ![c].note = note]
    /\ start' = [start EXCEPT ![c] = Lengths(s)]
    /\ UNCHANGED <<sourceLog, decisionLog, tables>>

\* eligibility() takes the subject's current decision as the supporting one.
ReadDecision(c) ==
    /\ release[c].pc = "decision"
    /\ LET s == release[c].subject
       IN  IF Decision!CurrentlyHolds(s, "accept")
           THEN release' = [release EXCEPT ![c].pc = "recheck",
                                           ![c].supporting = Len(decisionLog[s])]
           ELSE ReleaseLeave(c, "returned", "not_eligible")
    /\ UNCHANGED <<sourceLog, decisionLog, tables, start>>

IntakeFor(c) == IntakeOf[release[c].subject]
TargetFor(c) == <<release[c].subject, release[c].supporting>>

ReadCurrentSelection(c) ==
    /\ release[c].pc = "current"
    /\ \E current \in CurrentAnswers(selections, IntakeFor(c)) :
          release' = [release EXCEPT
              ![c].row = current,
              ![c].pc = IF current.target = TargetFor(c) THEN "returned" ELSE "persist",
              ![c].outcome = IF current.target = TargetFor(c) THEN "reused" ELSE None]
    /\ UNCHANGED <<sourceLog, decisionLog, tables, start>>

NewSelection(c) ==
    Successor(release[c].row, IntakeFor(c), TargetFor(c), release[c].note)

Selecting(c) == release[c].pc = "persist" /\ release[c].op = "select"

PersistSelection(c) ==
    /\ Selecting(c)
    /\ ~IdentityExists(selections, NewSelection(c))
    /\ ValidSupersession(selections, NewSelection(c))
    /\ ~SlotTaken(selections, NewSelection(c))
    /\ selections' = selections \union {NewSelection(c)}
    /\ release' = [release EXCEPT
          ![c].pc = "returned", ![c].row = NewSelection(c),
          ![c].outcome = IF release[c].row = NoRow THEN "recorded" ELSE "changed"]
    /\ UNCHANGED <<sourceLog, decisionLog, artifacts, start>>

SelectionCollides(c) ==
    /\ Selecting(c)
    /\ \/ IdentityExists(selections, NewSelection(c))
       \/ /\ ValidSupersession(selections, NewSelection(c))
          /\ SlotTaken(selections, NewSelection(c))
    /\ ReleaseGoto(c, "resolve")
    /\ UNCHANGED <<sourceLog, decisionLog, tables, start>>

\* Mutant: the provenance is not compared.
SelectionConvergesOnAnybody(c, row) == row.target = TargetFor(c)

\* After a collision only the very selection this command wanted will do.
SelectionConverges(c, row) ==
    row.target = TargetFor(c) /\ row.note = release[c].note

ResolveSelection(c) ==
    /\ release[c].pc = "resolve"
    /\ \E current \in CurrentAnswers(selections, IntakeFor(c)) :
          release' = [release EXCEPT
              ![c].pc = "returned", ![c].row = current,
              ![c].outcome = IF SelectionConverges(c, current) THEN "converged" ELSE "conflict"]
    /\ UNCHANGED <<sourceLog, decisionLog, tables, start>>

-----------------------------------------------------------------------------
(* generate_srt_artifact(final_selection_id). *)

GenerateArtifact(c, row) ==
    /\ release[c].pc = "idle"
    /\ release' = [release EXCEPT ![c].pc = "head", ![c].op = "export",
                                  ![c].subject = row.target[1],
                                  ![c].supporting = row.target[2], ![c].row = row]
    /\ start' = [start EXCEPT ![c] = Lengths(row.target[1])]
    /\ UNCHANGED <<sourceLog, decisionLog, tables>>

\* export_eligibility() asks whether the selection is the intake's current
\* one, and applicability() asks it again.
ReadHead(c) ==
    /\ release[c].pc = "head"
    /\ IF release[c].row \in CurrentAnswers(selections, IntakeFor(c))
       THEN ReleaseGoto(c, "applies")
       ELSE ReleaseLeave(c, "returned", "not_eligible")
    /\ UNCHANGED <<sourceLog, decisionLog, tables, start>>

ReadHeadAgain(c) ==
    /\ release[c].pc = "applies"
    /\ IF release[c].row \in CurrentAnswers(selections, IntakeFor(c))
       THEN ReleaseGoto(c, "recheck")
       ELSE Judge(c, "superseded")
    /\ UNCHANGED <<sourceLog, decisionLog, tables, start>>

\* The artifact's identity covers the selection, its candidate and the
\* serialized cues of that immutable candidate.
ArtifactOf(row) == [selection |-> Identity(row), subject |-> row.target[1]]

\* What follows the artifact: its currentness, derived afresh.
Report(c, made) ==
    release' = [release EXCEPT ![c].pc = "applies", ![c].made = made]

LookupArtifact(c) ==
    /\ release[c].pc = "lookup"
    /\ IF ArtifactOf(release[c].row) \in artifacts
       THEN Report(c, "reused")
       ELSE ReleaseGoto(c, "persist")
    /\ UNCHANGED <<sourceLog, decisionLog, tables, start>>

Exporting(c) == release[c].pc = "persist" /\ release[c].op = "export"

\* Mutant: nothing keeps the artifact from being stored twice.
ReplayAnchorNeverTaken(row) == FALSE

\* PRIMARY KEY and UNIQUE (final_selection_id, serializer).
ReplayAnchorTaken(row) ==
    \E old \in artifacts : old.selection = Identity(row)

PersistArtifact(c) ==
    /\ Exporting(c)
    /\ ~ReplayAnchorTaken(release[c].row)
    /\ artifacts' = artifacts \union {ArtifactOf(release[c].row)}
    /\ Report(c, "created")
    /\ UNCHANGED <<sourceLog, decisionLog, selections, start>>

\* The winner of the race stored the same payload.
ArtifactCollides(c) ==
    /\ Exporting(c)
    /\ ReplayAnchorTaken(release[c].row)
    /\ ReleaseGoto(c, "converge")
    /\ UNCHANGED <<sourceLog, decisionLog, tables, start>>

ConvergeArtifact(c) ==
    /\ release[c].pc = "converge"
    /\ IF ArtifactOf(release[c].row) \in artifacts
       THEN Report(c, "reused")
       ELSE ReleaseReturn(c, "conflict")
    /\ UNCHANGED <<sourceLog, decisionLog, tables, start>>

-----------------------------------------------------------------------------

\* A locked database, an I/O error or a refused supersession.
ReleaseFails(c) ==
    /\ release[c].pc = "persist"
    /\ ReleaseLeave(c, "returned", "error")
    /\ UNCHANGED <<sourceLog, decisionLog, tables, start>>

ReleaseRunning == {"decision", "recheck", "source", "disturbed", "current", "persist",
            "resolve", "head", "applies", "lookup", "converge"}

KillRelease(c) ==
    /\ release[c].pc \in ReleaseRunning
    /\ ReleaseLeave(c, "killed", None)
    /\ UNCHANGED <<sourceLog, decisionLog, tables, start>>

ReleaseNext ==
    \/ \E i \in Intake, source \in Source : MoveSource(i, source)
    \/ \E s \in Subject, kind \in DecisionKind : Decide(s, kind)
    \/ \E c \in ReleaseCommand :
        \/ \E s \in Subject, note \in Selector : SelectFinal(c, s, note)
        \/ ReadDecision(c)
        \/ RecheckDecision(c)
        \/ ReadSource(c)
        \/ ReadCurrentSelection(c)
        \/ PersistSelection(c)
        \/ SelectionCollides(c)
        \/ ResolveSelection(c)
        \/ \E row \in selections : GenerateArtifact(c, row)
        \/ ReadHead(c)
        \/ ReadHeadAgain(c)
        \/ LookupArtifact(c)
        \/ PersistArtifact(c)
        \/ ArtifactCollides(c)
        \/ ConvergeArtifact(c)
        \/ ReleaseFails(c)
        \/ KillRelease(c)

ReleaseSpec == ReleaseInit /\ [][ReleaseNext]_releaseVars

-----------------------------------------------------------------------------
(* Properties. *)

\* The supporting decision was an Accept and its subject's current decision
\* at some moment of the call; and unless the effective source moved during
\* the call, the subject's source was the effective one.
HeldDuringCall(c) ==
    LET s == release[c].subject
        i == IntakeOf[s]
    IN  /\ decisionLog[s][release[c].supporting] = "accept"
        /\ release[c].supporting >= start[c].decision
        /\ Len(sourceLog[i]) = start[c].source
              => Effective!CurrentlyHolds(i, SourceOf[s])

\* A selection is made only of a deliverable subject whose acceptance and
\* source held during the call: an Accept withdrawn before the command
\* started, or a source replaced before it, selects nothing.
SelectionHadAuthority ==
    \A c \in ReleaseCommand :
        release[c].op = "select" /\ release[c].outcome \in Selected =>
            /\ HeldDuringCall(c)
            /\ release[c].subject \in Deliverable
            /\ release[c].row \in selections
            /\ release[c].row.sequence + 1 >= start[c].selection

\* An export yields an artifact only of a selection that was the intake's
\* current one during the call and whose acceptance and source held then; a
\* selection superseded before the export started is never exported.
ExportHadAuthority ==
    \A c \in ReleaseCommand :
        release[c].op = "export" /\ release[c].made # None =>
            /\ HeldDuringCall(c)
            /\ release[c].row.sequence + 1 >= start[c].selection

Created == {c \in ReleaseCommand : release[c].made = "created"}

\* However exports race, a selection is rendered once: one command creates its
\* artifact and every other one reuses that very artifact.
OneCreatorPerSelection ==
    /\ \A c, d \in Created : release[c].row = release[d].row => c = d
    /\ \A c \in ReleaseCommand :
          release[c].made # None => ArtifactOf(release[c].row) \in artifacts

\* An explicit human command is never silently discarded nor attributed to
\* somebody else: a command that lost the race for its slot converges only on
\* its own choice under its own name, recorded while it ran, and is refused only
\* if a different selection was recorded while it ran.
SelectionsAreHonoured ==
    \A c \in ReleaseCommand :
        /\ release[c].outcome = "converged" =>
              /\ release[c].row \in RowsOf(selections, IntakeFor(c))
              /\ release[c].row.sequence >= start[c].selection
              /\ release[c].row.target = TargetFor(c) /\ release[c].row.note = release[c].note
        /\ release[c].outcome = "conflict" =>
              \E row \in RowsOf(selections, IntakeFor(c)) :
                  /\ row.sequence >= start[c].selection
                  /\ <<row.target, row.note>> # <<TargetFor(c), release[c].note>>

\* What the validator says of final selections...
SelectionComplaints ==
    {row \in selections :
        LET s == row.target[1]
        IN  \/ row.target[2] \notin DOMAIN decisionLog[s]
            \/ decisionLog[s][row.target[2]] # "accept"
            \/ row.scope # IntakeOf[s]}

\* ...and of artifacts.
ArtifactComplaints ==
    {a \in artifacts :
        ~\E row \in selections : /\ Identity(row) = a.selection
                                 /\ row.target[1] = a.subject
                                 /\ row.scope = IntakeOf[a.subject]}

\* The repository validator has nothing to say against any state the commands
\* reach, whatever the interleaving and whoever dies.
ReleasesAreValid ==
    /\ HistoryIsValid(selections)
    /\ SelectionComplaints = {}
    /\ ArtifactComplaints = {}
=============================================================================

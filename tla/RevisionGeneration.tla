------------------------- MODULE RevisionGeneration -------------------------
(***************************************************************************)
(* Corrected Revision Generation: concurrent commands apply currently      *)
(* accepted candidates to their source Raw Transcript and record one       *)
(* immutable revision per set of authorizing decisions.  There are three:  *)
(*                                                                         *)
(*   text          `generate` of one text candidate                        *)
(*   timing        `generate_set` of one or more timing candidates         *)
(*   composition   `generate` of a text and a timing candidate of one      *)
(*                 source segment                                          *)
(*                                                                         *)
(* They read the same authorities in the same order; the last two read     *)
(* them once more inside the transaction that inserts the revision.        *)
(*                                                                         *)
(* The authorities, the candidates' decisions and the intake's raw         *)
(* selection, are the registers that CandidateDecision and                 *)
(* RawTranscriptSelection implement; other processes move them between any *)
(* two reads of a command.  The transcript, its segments and the candidates *)
(* never change once stored, so whether a set of candidates fits together  *)
(* is a constant of the set, and two commands with the same anchor compute *)
(* the same content.                                                       *)
(***************************************************************************)
EXTENDS Integers, FiniteSets, Sequences

CONSTANTS
    Intake, Transcript, Candidate,
    IntakeOf, SourceOf,  \* the intake and raw transcript a candidate is about
    SegmentOf,           \* the segment of that transcript it corrects
    KindOf,              \* whether it corrects "text" or "timing"
    Overlapping,         \* sets of candidates whose intervals do not fit together
    Command,             \* the generate commands, one process each
    Request,             \* the candidate lists a command may name
    RawAtStart, AcceptedAtStart,   \* authorities recorded before
    MaxRawSelections,    \* bound on the raw selections of an intake
    MaxDecisions,        \* bound on the decisions of a candidate
    None

ASSUME CandidateAssumption ==
    /\ IntakeOf \in [Candidate -> Intake]
    /\ SourceOf \in [Candidate -> Transcript]
    /\ KindOf \in [Candidate -> {"text", "timing"}]
    /\ AcceptedAtStart \subseteq Candidate
    /\ RawAtStart \in [Intake -> Seq(Transcript)]
ASSUME BoundsAssumption == MaxRawSelections \in Nat /\ MaxDecisions \in Nat

\* _require_explicit_set and _require_roles: what each command accepts.
Lineage(request) ==
    IF \A n \in DOMAIN request : KindOf[request[n]] = "timing" THEN "timing"
    ELSE IF Len(request) = 1 THEN "text" ELSE "composition"

WellFormed(request) ==
    /\ request # <<>>
    /\ Cardinality({request[n] : n \in DOMAIN request}) = Len(request)
    /\ Lineage(request) = "composition" =>
          Len(request) = 2 /\ KindOf[request[1]] = "text" /\ KindOf[request[2]] = "timing"

ASSUME RequestAssumption == \A request \in Request :
    request \in Seq(Candidate) /\ WellFormed(request)

Decidable == {"accept", "reject"}

\* How a command ends.
Outcomes == {"not_accepted", "not_applicable", "reused", "created", "stale", "collision",
             "error"}

ASSUME NoneAssumption == None \notin Outcomes

VARIABLES
    rawLog,              \* per intake, the raw transcripts selected so far
    decisionLog,         \* per candidate, the decisions recorded so far
    generations,         \* the three tables of generations
    command,             \* the local state of each command
    start                \* observation only: the log lengths at invocation

vars == <<rawLog, decisionLog, generations, command, start>>

Raw == INSTANCE AuthorityRegister
           WITH Scope <- Intake, Target <- Transcript, log <- rawLog
Decision == INSTANCE AuthorityRegister
           WITH Scope <- Candidate, Target <- Decidable, log <- decisionLog

NotStarted == [pc |-> "idle", request |-> <<>>, decisions |-> <<>>, outcome |-> None]

Lengths == [raw |-> [i \in Intake |-> Len(rawLog[i])],
            decision |-> [k \in Candidate |-> Len(decisionLog[k])]]

Init ==
    /\ rawLog = RawAtStart
    /\ decisionLog = [k \in Candidate |->
                         IF k \in AcceptedAtStart THEN <<"accept">> ELSE <<>>]
    /\ generations = {}
    /\ command = [c \in Command |-> NotStarted]
    /\ start = [c \in Command |-> Lengths]

Return(c, outcome) ==
    command' = [command EXCEPT ![c].pc = "returned", ![c].outcome = outcome]
Goto(c, pc) == command' = [command EXCEPT ![c].pc = pc]

-----------------------------------------------------------------------------
(* Other processes: selections and decisions recorded meanwhile. *)

SelectRaw(i, t) ==
    /\ Len(rawLog[i]) < MaxRawSelections
    /\ Raw!Take(i, t)
    /\ UNCHANGED <<decisionLog, generations, command, start>>

Decide(k, kind) ==
    /\ Len(decisionLog[k]) < MaxDecisions
    /\ Decision!Take(k, kind)
    /\ UNCHANGED <<rawLog, generations, command, start>>

-----------------------------------------------------------------------------
(* The steps of a command. *)

Invoke(c, request) ==
    /\ command[c].pc = "idle"
    /\ command' = [command EXCEPT ![c].pc = "decision", ![c].request = request]
    /\ start' = [start EXCEPT ![c] = Lengths]
    /\ UNCHANGED <<rawLog, decisionLog, generations>>

\* The members whose decision is read, and the one to be read next.
Member(c, n) == command[c].request[n]
NextMember(c) == Member(c, Len(command[c].decisions) + 1)
Base(k) == <<IntakeOf[k], SourceOf[k]>>

\* One base for all, and one segment for the two roles of a composition.
Fits(c, k) ==
    /\ Base(k) = Base(Member(c, 1))
    /\ Lineage(command[c].request) = "composition" => SegmentOf[k] = SegmentOf[Member(c, 1)]

\* Mutant: any decision authorizes.
ReadAnyDecision(c) ==
    /\ command[c].pc = "decision"
    /\ LET k == NextMember(c)
           read == Append(command[c].decisions, Len(decisionLog[k]))
       IN  IF decisionLog[k] # <<>> /\ Fits(c, k)
           THEN command' = [command EXCEPT
                   ![c].decisions = read,
                   ![c].pc = IF Len(read) = Len(command[c].request) THEN "raw" ELSE @]
           ELSE Return(c, "not_accepted")
    /\ UNCHANGED <<rawLog, decisionLog, generations, start>>

\* The current authority of each member must be an Accept; the record read
\* here authorizes the revision.
ReadDecision(c) ==
    /\ command[c].pc = "decision"
    /\ LET k == NextMember(c)
           read == Append(command[c].decisions, Len(decisionLog[k]))
       IN  IF ~Decision!CurrentlyHolds(k, "accept") THEN Return(c, "not_accepted")
           ELSE IF ~Fits(c, k) THEN Return(c, "not_applicable")
           ELSE command' = [command EXCEPT
                   ![c].decisions = read,
                   ![c].pc = IF Len(read) = Len(command[c].request) THEN "raw" ELSE @]
    /\ UNCHANGED <<rawLog, decisionLog, generations, start>>

Members(request) == {request[n] : n \in DOMAIN request}

\* Timing candidates compete for a segment or do not fit together: the former
\* is refused, and so is a combination that is structurally invalid.
Combines(request) ==
    /\ Members(request) \notin Overlapping
    /\ Lineage(request) = "timing" =>
          \A j, k \in Members(request) : SegmentOf[j] = SegmentOf[k] => j = k

SourceIsCurrent(c) ==
    Raw!CurrentlyHolds(IntakeOf[Member(c, 1)], SourceOf[Member(c, 1)])

\* Mutant: a transcript that was ever selected counts as current.
ReadAnyRawSelection(c) ==
    /\ command[c].pc = "raw"
    /\ \E n \in DOMAIN rawLog[IntakeOf[Member(c, 1)]] :
          rawLog[IntakeOf[Member(c, 1)]][n] = SourceOf[Member(c, 1)]
    /\ Goto(c, "lookup")
    /\ UNCHANGED <<rawLog, decisionLog, generations, start>>

ReadRawSelection(c) ==
    /\ command[c].pc = "raw"
    /\ IF SourceIsCurrent(c) /\ Combines(command[c].request)
       THEN Goto(c, "lookup")
       ELSE Return(c, "not_applicable")
    /\ UNCHANGED <<rawLog, decisionLog, generations, start>>

\* Generation, revision and composed segment identities all derive from the
\* anchor: the members, in canonical order, with their authorizing decisions.
Anchor(c) ==
    {<<Member(c, n), command[c].decisions[n]>> : n \in DOMAIN command[c].decisions}

NewGeneration(c) ==
    [lineage |-> Lineage(command[c].request), anchor |-> Anchor(c),
     parent |-> SourceOf[Member(c, 1)]]

\* Mutant: the existence check looks for nothing.
ExistsNever(c) == FALSE

Exists(c) ==
    \E old \in generations : /\ old.lineage = Lineage(command[c].request)
                             /\ old.anchor = Anchor(c)

LookupExisting(c) ==
    /\ command[c].pc = "lookup"
    /\ IF Exists(c) THEN Return(c, "reused") ELSE Goto(c, "persist")
    /\ UNCHANGED <<rawLog, decisionLog, generations, start>>

\* Mutant: the revalidation asks whether the members are accepted (again).
RevalidatesByKind(c) ==
    /\ SourceIsCurrent(c)
    /\ \A n \in DOMAIN command[c].request : Decision!CurrentlyHolds(Member(c, n), "accept")

\* _require_snapshot_unchanged: the source is selected and the very decisions
\* that were read are current.
SnapshotHolds(c) ==
    /\ SourceIsCurrent(c)
    /\ \A n \in DOMAIN command[c].request :
          /\ Decision!CurrentlyHolds(Member(c, n), "accept")
          /\ Len(decisionLog[Member(c, n)]) = command[c].decisions[n]

Revalidates(c) == Lineage(command[c].request) # "text" => SnapshotHolds(c)

\* One transaction revalidates the snapshot and stores the replacement
\* segments, the revision, its result and the generation, or nothing.
Persist(c) ==
    /\ command[c].pc = "persist"
    /\ Revalidates(c)
    /\ ~Exists(c)
    /\ generations' = generations \union {NewGeneration(c)}
    /\ Return(c, "created")
    /\ UNCHANGED <<rawLog, decisionLog, start>>

PersistIsStale(c) ==
    /\ command[c].pc = "persist"
    /\ ~Revalidates(c)
    /\ Return(c, "stale")
    /\ UNCHANGED <<rawLog, decisionLog, generations, start>>

PersistCollides(c) ==
    /\ command[c].pc = "persist"
    /\ Revalidates(c)
    /\ Exists(c)
    /\ Goto(c, "resolve")
    /\ UNCHANGED <<rawLog, decisionLog, generations, start>>

PersistFails(c) ==
    /\ command[c].pc = "persist"
    /\ Return(c, "error")
    /\ UNCHANGED <<rawLog, decisionLog, generations, start>>

\* Mutant: a collision is always raised.
ResolveNothing(c) ==
    /\ command[c].pc = "resolve"
    /\ Return(c, "collision")
    /\ UNCHANGED <<rawLog, decisionLog, generations, start>>

Resolve(c) ==
    /\ command[c].pc = "resolve"
    /\ Return(c, IF Exists(c) THEN "reused" ELSE "collision")
    /\ UNCHANGED <<rawLog, decisionLog, generations, start>>

Running == {"decision", "raw", "lookup", "persist", "resolve"}

Kill(c) ==
    /\ command[c].pc \in Running
    /\ command' = [command EXCEPT ![c] = [NotStarted EXCEPT !.pc = "killed"]]
    /\ UNCHANGED <<rawLog, decisionLog, generations, start>>

Next ==
    \/ \E i \in Intake, t \in Transcript : SelectRaw(i, t)
    \/ \E k \in Candidate, kind \in Decidable : Decide(k, kind)
    \/ \E c \in Command :
        \/ \E request \in Request : Invoke(c, request)
        \/ ReadDecision(c)
        \/ ReadRawSelection(c)
        \/ LookupExisting(c)
        \/ Persist(c)
        \/ PersistIsStale(c)
        \/ PersistCollides(c)
        \/ PersistFails(c)
        \/ Resolve(c)
        \/ Kill(c)

Spec == Init /\ [][Next]_vars

-----------------------------------------------------------------------------
(* Properties. *)

\* What the validator says of generations: a member whose authorizing decision
\* is missing or no Accept, a parent or a source segment other than the
\* members', two members on one timing segment.
Unauthorized ==
    {g \in generations : \E m \in g.anchor :
        m[2] \notin DOMAIN decisionLog[m[1]] \/ decisionLog[m[1]][m[2]] # "accept"}

Misplaced ==
    {g \in generations :
        \/ \E m \in g.anchor : SourceOf[m[1]] # g.parent
        \/ \E m, other \in g.anchor : m # other /\
              (g.lineage = "timing") = (SegmentOf[m[1]] = SegmentOf[other[1]])}

RepositoryIsValid == Unauthorized = {} /\ Misplaced = {}

\* One act of authority is applied once: of the commands that act on the same
\* authorizing decisions at most one reports that it created the revision, and
\* the others reuse it; only a new acceptance can lead to another revision.
OneCreatorPerAnchor ==
    \A c, d \in {c \in Command : command[c].outcome = "created"} :
        NewGeneration(c) = NewGeneration(d) => c = d

Succeeded(c) == command[c].outcome \in {"created", "reused"}

\* A command that reports a created or reused revision found the acceptance of
\* every member, and their source transcript, each current at some moment of
\* the call: an acceptance withdrawn before the command started never
\* authorizes anything.
AuthorityWasCurrentDuringCall ==
    \A c \in Command : Succeeded(c) =>
        /\ Exists(c)
        /\ \A n \in DOMAIN command[c].request :
              command[c].decisions[n] >= start[c].decision[Member(c, n)]
        /\ LET i == IntakeOf[Member(c, 1)]
           IN  \E n \in DOMAIN rawLog[i] :
                  n >= start[c].raw[i] /\ rawLog[i][n] = SourceOf[Member(c, 1)]

\* Near-concurrent duplicates always converge: no generate command ever ends
\* in an unresolved collision (implementation/100: identical replay reuses,
\* also under near-concurrent duplicates).
CollisionsAlwaysConverge ==
    \A c \in Command : command[c].outcome # "collision"

\* A revision with timing in it is never recorded on authority that moved: at
\* the moment it appears, all its authorizing decisions are the current ones
\* of their candidates and its source is the selected one, at once, although
\* the command read them one after the other (accept, reject, accept is a
\* different authority).
AuthorityHoldsAtInsert ==
    [][\A g \in generations' \ generations : g.lineage # "text" =>
          \A m \in g.anchor :
              /\ Decision!CurrentlyHolds(m[1], "accept")
              /\ Len(decisionLog[m[1]]) = m[2]
              /\ Raw!CurrentlyHolds(IntakeOf[m[1]], g.parent)]_vars
=============================================================================

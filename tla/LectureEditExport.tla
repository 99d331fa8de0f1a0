-------------------------- MODULE LectureEditExport --------------------------
(***************************************************************************)
(* Lecture Edit Export Assembly over Lecture Review: `admit_assembly`      *)
(* gathers every export-eligible approved edit of one Source Timeline and  *)
(* records the set as an immutable assembly.                               *)
(*                                                                         *)
(* Eligible is the approval of a candidate's operative judgment, if exactly *)
(* one person has judged the candidate and its chain is current.  The      *)
(* command derives that candidate after candidate, with three reads each   *)
(* and no transaction around them, while people go on judging.             *)
(***************************************************************************)
EXTENDS LectureReview, Sequences

CONSTANTS
    Timeline,            \* the timeline's candidates in the order of the query
    Exporter             \* the admit_assembly commands

ASSUME TimelineAssumption == Timeline \in Seq(Candidate) /\ Timeline # <<>>

\* What an admit_assembly command reports.
ExportResults == {"admitted", "reused", "collision", "undecided", "error"}

ASSUME ExportNoneAssumption == None \notin ExportResults

VARIABLES
    assemblies,          \* table lecture_edit_export_assemblies, as member sets
    exporter,            \* the local state of each exporter
    witnessed            \* observation only: the scopes that held during each call

NotExporting ==
    [pc |-> "idle", at |-> 0, actor |-> None, decision |-> None,
     members |-> {}, conflict |-> FALSE, outcome |-> None]

ExportInit ==
    /\ Init
    /\ assemblies = {}
    /\ exporter = [e \in Exporter |-> NotExporting]
    /\ witnessed = [e \in Exporter |-> {}]

-----------------------------------------------------------------------------
(* What holds at one moment. *)

ActorsOf(k) == {actor \in Actor : RowsOf(positions, <<k, actor>>) # {}}

OnTimeline == {Timeline[n] : n \in DOMAIN Timeline}

OperativeDecisions(k) ==
    {row.target : row \in UNION {Newest(positions, <<k, actor>>) : actor \in ActorsOf(k)}}

EligibleNow ==
    UNION {ApprovalsOf(d) : d \in
        UNION {OperativeDecisions(k) : k \in
            {k \in OnTimeline \intersect standing : Cardinality(ActorsOf(k)) = 1}}}

Scope ==
    [eligible |-> EligibleNow,
     conflict |-> \E k \in OnTimeline : Cardinality(ActorsOf(k)) > 1,
     standing |-> OnTimeline \intersect standing]

Observing == {"actors", "head", "anchor"}

Observe ==
    witnessed' = [e \in Exporter |->
        IF exporter[e].pc \in Observing \/ exporter'[e].pc \in Observing
        THEN witnessed[e] \union {Scope'} ELSE witnessed[e]]

\* The lecture review goes on.
Review == ReviewNext /\ UNCHANGED <<assemblies, exporter>> /\ Observe

-----------------------------------------------------------------------------
(* The steps of admit_assembly(source_timeline_id). *)

InvokeExport(e) ==
    /\ exporter[e].pc = "idle"
    /\ exporter' = [exporter EXCEPT ![e].pc = "actors", ![e].at = 1]
    /\ UNCHANGED <<vars, assemblies>>
    /\ Observe

\* With one candidate done: the next one, or _require_decided.
Proceed(e, members, conflict) ==
    exporter' = [exporter EXCEPT
        ![e].members = members, ![e].conflict = conflict,
        ![e].actor = None, ![e].decision = None,
        ![e].at = @ + 1,
        ![e].pc = IF exporter[e].at < Len(Timeline) THEN "actors"
                  ELSE IF conflict \/ members = {} THEN "returned" ELSE "lookup",
        ![e].outcome = IF exporter[e].at = Len(Timeline) /\ (conflict \/ members = {})
                       THEN "undecided" ELSE None]

\* Mutant: the first of several people decides.
ReadAnyActor(e) ==
    /\ exporter[e].pc = "actors"
    /\ LET actors == ActorsOf(Timeline[exporter[e].at])
       IN  \/ /\ actors = {}
              /\ Proceed(e, exporter[e].members, exporter[e].conflict)
           \/ \E actor \in actors :
                 exporter' = [exporter EXCEPT ![e].pc = "head", ![e].actor = actor]
    /\ UNCHANGED <<vars, assemblies, witnessed>>

\* observe_candidate_authority: who has a history on the candidate...
ReadActors(e) ==
    /\ exporter[e].pc = "actors"
    /\ LET actors == ActorsOf(Timeline[exporter[e].at])
       IN  \/ /\ Cardinality(actors) # 1
              /\ Proceed(e, exporter[e].members,
                         exporter[e].conflict \/ Cardinality(actors) > 1)
           \/ \E actor \in actors :
                 /\ actors = {actor}
                 /\ exporter' = [exporter EXCEPT ![e].pc = "head", ![e].actor = actor]
    /\ UNCHANGED <<vars, assemblies, witnessed>>

\* ...then the head of that one history, with the decision it refers to...
ReadHead(e) ==
    /\ exporter[e].pc = "head"
    /\ \E head \in CurrentAnswers(positions, <<Timeline[exporter[e].at], exporter[e].actor>>) :
          IF ApprovalsOf(head.target) = {}
          THEN Proceed(e, exporter[e].members, exporter[e].conflict)
          ELSE exporter' = [exporter EXCEPT ![e].pc = "anchor", ![e].decision = head.target]
    /\ UNCHANGED <<vars, assemblies, witnessed>>

\* ...and the standing of the chain that decision hangs on.
ReadAnchor(e) ==
    /\ exporter[e].pc = "anchor"
    /\ Proceed(e,
               IF Timeline[exporter[e].at] \in standing
               THEN exporter[e].members \union ApprovalsOf(exporter[e].decision)
               ELSE exporter[e].members,
               exporter[e].conflict)
    /\ UNCHANGED <<vars, assemblies, witnessed>>

ReturnExport(e, result) ==
    exporter' = [exporter EXCEPT ![e].pc = "returned", ![e].outcome = result]

\* The identity of an assembly is its timeline and its members.
LookupAssembly(e) ==
    /\ exporter[e].pc = "lookup"
    /\ IF exporter[e].members \in assemblies
       THEN ReturnExport(e, "reused")
       ELSE exporter' = [exporter EXCEPT ![e].pc = "persist"]
    /\ UNCHANGED <<vars, assemblies, witnessed>>

\* A collision is not resolved: it reaches the caller.
PersistAssembly(e) ==
    /\ exporter[e].pc = "persist"
    /\ assemblies' = assemblies \union {exporter[e].members}
    /\ ReturnExport(e, IF exporter[e].members \in assemblies THEN "collision" ELSE "admitted")
    /\ UNCHANGED <<vars, witnessed>>

PersistAssemblyFails(e) ==
    /\ exporter[e].pc = "persist"
    /\ ReturnExport(e, "error")
    /\ UNCHANGED <<vars, assemblies, witnessed>>

KillExport(e) ==
    /\ exporter[e].pc \in Observing \union {"lookup", "persist"}
    /\ exporter' = [exporter EXCEPT ![e] = [NotExporting EXCEPT !.pc = "killed"]]
    /\ UNCHANGED <<vars, assemblies, witnessed>>

ExportNext ==
    \/ Review
    \/ \E e \in Exporter :
        \/ InvokeExport(e)
        \/ ReadActors(e)
        \/ ReadHead(e)
        \/ ReadAnchor(e)
        \/ LookupAssembly(e)
        \/ PersistAssembly(e)
        \/ PersistAssemblyFails(e)
        \/ KillExport(e)

exportVars == <<vars, assemblies, exporter, witnessed>>

Spec == ExportInit /\ [][ExportNext]_exportVars

-----------------------------------------------------------------------------
(* Properties. *)

\* The validator has nothing to say against the review records, and every
\* assembly has members, all of them recorded approvals.
RepositoryIsValid ==
    /\ ReviewRecordsAreValid
    /\ \A members \in assemblies : members # {} /\ members \subseteq approvals

Exported == {"admitted", "reused", "collision"}

\* An assembly is the complete eligible scope and holds no arbitrated edit:
\* if neither the timeline's scope nor the standing of its chains changed
\* during the observation, the assembly is exactly that scope, whatever
\* judgments were passed meanwhile, and a command that saw no conflict stops
\* only for an empty scope.  (A stop in the face of a conflict is the subject of
\* ConflictIsNoVeto.)  An unchanged scope alone would not do: a chain that is
\* cut off while its accept is read, and stands again after a reject,
\* contributes an edit that was eligible at no moment.
StableScopeIsExported ==
    \A e \in Exporter : \A scope \in witnessed[e] :
        witnessed[e] = {scope} =>
            /\ exporter[e].outcome \in Exported => exporter[e].members = scope.eligible
            /\ exporter[e].outcome = "undecided" /\ ~scope.conflict => scope.eligible = {}

\* A conflict over one candidate is no veto over the timeline: while some
\* approved edit is eligible, the assembly is admitted without the conflicted
\* candidate (044 CD-2).  The code breaks this: see Proceed.
ConflictIsNoVeto ==
    \A e \in Exporter : \A scope \in witnessed[e] :
        witnessed[e] = {scope} /\ scope.eligible # {} => exporter[e].outcome # "undecided"

===============================================================================

------------------------ MODULE EffectiveConsumption ------------------------
(***************************************************************************)
(* Effective transcript resolution and consumption: `consume` commands     *)
(* resolve the transcript that is effective for an intake and bind their   *)
(* consumer to that exact source; `currentness` queries tell whether an    *)
(* earlier binding is still current.                                       *)
(*                                                                         *)
(* Both go through the one resolver, which reads the raw selection, the    *)
(* revision selection, then the raw selection again and the members'       *)
(* decisions, each in a statement of its own.  This module runs consumers  *)
(* beside the selection commands of RevisionSelection and beside the       *)
(* processes that move the raw selection and the decisions.                *)
(***************************************************************************)
EXTENDS RepositoryValidator, Sequences

CONSTANTS
    Intake, Transcript, Candidate, Revision,
    IntakeOf, ParentOf, MembersOf, LineageOf, RawFallback, Command,
    RawAtStart, MaxRawSelections, MaxDecisions,
    Consumer         \* the consume and currentness calls, one process each

ASSUME LineageAssumption ==
    /\ IntakeOf \in [Revision -> Intake]
    /\ ParentOf \in [Revision -> Transcript]
    /\ MembersOf \in [Revision -> Seq(Candidate)]
    /\ LineageOf \in [Revision -> {"text", "timing", "aggregate", "composition"}]
    /\ RawFallback \notin Revision

\* What a currentness query answers, and how a call of any kind ends.
Verdicts == {"current", "raw_changed", "selection_changed", "inapplicable"}
Outcomes == {"recorded", "changed", "reused", "not_eligible", "collision", "error",
             "created", "retry", "unresolvable"} \union Verdicts

ASSUME NoneAssumption ==
    None \notin Intake \union Revision \union {RawFallback} \union Outcomes
ASSUME BoundsAssumption == MaxRawSelections \in Nat /\ MaxDecisions \in Nat

\* A generated revision implies that its parent had been selected.
ASSUME StartAssumption ==
    /\ RawAtStart \in [Intake -> Seq(Transcript)]
    /\ \A r \in Revision : \E n \in DOMAIN RawAtStart[IntakeOf[r]] :
           RawAtStart[IntakeOf[r]][n] = ParentOf[r]

VARIABLES
    rawLog, decisionLog, selections, command,
    consumptions,    \* table effective_transcript_consumptions
    consumer,        \* the local state of each consumer
    witnessed        \* observation only: what was effective during the call

authorities == <<rawLog, decisionLog, selections, command>>
vars == <<authorities, consumptions, consumer, witnessed>>

Selection == INSTANCE RevisionSelection

NoBinding == [intake |-> None, source |-> <<None, None>>, parent |-> None,
              raw |-> 0, selection |-> NoIdentity, state |-> None]

NotStarted ==
    [pc |-> "idle", asked |-> NoBinding, intake |-> None, raw |-> 0,
     selection |-> NoRow, unread |-> <<>>, resolution |-> None,
     outcome |-> None, binding |-> NoBinding]

-----------------------------------------------------------------------------
(* What is effective at one moment, by the rules of the resolver. *)

\* Nothing is effective without a raw selection, or because the selected
\* revision is not applicable: the conditions that fail are part of the answer.
NothingEffective(reason) == <<"nothing", reason>>

Unmet(r) ==
    [revision |-> r,
     parent   |-> Selection!Raw!CurrentlyHolds(IntakeOf[r], ParentOf[r]),
     members  |-> {n \in DOMAIN MembersOf[r] :
                      ~Selection!Decision!CurrentlyHolds(MembersOf[r][n], "accept")}]

EffectiveSource(i) ==
    LET chosen == CurrentAnswers(selections, i)
    IN  IF rawLog[i] = <<>> THEN NothingEffective(None)
        ELSE IF \E row \in chosen : row = NoRow \/ row.target = RawFallback
        THEN <<"raw", rawLog[i][Len(rawLog[i])]>>
        ELSE IF \E row \in chosen : row.target \in Revision
                                     /\ Selection!Applicable(row.target)
        THEN <<"corrected", (CHOOSE row \in chosen : TRUE).target>>
        ELSE NothingEffective({Unmet(row.target) : row \in chosen})

Running == {"raw", "selection", "reread", "members", "resolved", "persist", "resolve"}

EffectiveFor(u) == EffectiveSource(consumer[u].intake)

\* The steps that start a call or move an authority observe what is effective.
Observe ==
    witnessed' = [u \in Consumer |->
        IF consumer[u].pc \in Running \/ consumer'[u].pc \in Running
        THEN witnessed[u] \union {EffectiveFor(u)'}
        ELSE witnessed[u]]

-----------------------------------------------------------------------------
(* resolve_effective_transcript(intake_id). *)

Consume(u, i) ==
    /\ consumer[u].pc = "idle"
    /\ consumer' = [consumer EXCEPT ![u].pc = "raw", ![u].intake = i]
    /\ UNCHANGED <<authorities, consumptions>>
    /\ Observe

AskCurrentness(u, b) ==
    /\ consumer[u].pc = "idle"
    /\ consumer' = [consumer EXCEPT ![u].pc = "raw", ![u].asked = b,
                                    ![u].intake = b.intake]
    /\ UNCHANGED <<authorities, consumptions>>
    /\ Observe

\* What is left of a call that returned or died: its request and its end.
Leave(u, pc, outcome, binding) ==
    consumer' = [consumer EXCEPT
        ![u] = [pc |-> pc, asked |-> consumer[u].asked, intake |-> consumer[u].intake,
                raw |-> 0, selection |-> NoRow, unread |-> <<>>, resolution |-> None,
                outcome |-> outcome, binding |-> binding]]

Return(u, outcome, binding) == Leave(u, "returned", outcome, binding)

Resolved(u, resolution) ==
    consumer' = [consumer EXCEPT ![u].pc = "resolved",
                                 ![u].resolution = resolution]

ReadRaw(u) ==
    /\ consumer[u].pc = "raw"
    /\ LET history == rawLog[consumer[u].intake]
       IN  IF history = <<>>
           THEN Return(u, "unresolvable", NoBinding)
           ELSE consumer' = [consumer EXCEPT ![u].pc = "selection",
                                             ![u].raw = Len(history)]
    /\ UNCHANGED <<authorities, consumptions, witnessed>>

ReadSelection(u) ==
    /\ consumer[u].pc = "selection"
    /\ \E row \in CurrentAnswers(selections, consumer[u].intake) :
          consumer' =
              [consumer EXCEPT
                  ![u].selection = row,
                  ![u].pc = IF row.target \in Revision THEN "reread" ELSE "resolved",
                  ![u].resolution = IF row.target \in Revision THEN None ELSE "raw",
                  ![u].unread =
                      IF row.target \in Revision THEN MembersOf[row.target] ELSE <<>>]
    /\ UNCHANGED <<authorities, consumptions, witnessed>>

\* The applicability of the selected revision reads the raw selection anew.
RereadRaw(u) ==
    /\ consumer[u].pc = "reread"
    /\ IF Selection!Raw!CurrentlyHolds(consumer[u].intake,
                                       ParentOf[consumer[u].selection.target])
       THEN consumer' = [consumer EXCEPT ![u].pc = "members"]
       ELSE Resolved(u, "parent_not_current")
    /\ UNCHANGED <<authorities, consumptions, witnessed>>

CheckMember(u) ==
    /\ consumer[u].pc = "members"
    /\ \/ /\ consumer[u].unread = <<>>
          /\ Resolved(u, "corrected")
       \/ /\ consumer[u].unread # <<>>
          /\ IF Selection!Decision!CurrentlyHolds(Head(consumer[u].unread), "accept")
             THEN consumer' = [consumer EXCEPT ![u].unread = Tail(@)]
             ELSE Resolved(u, "not_accepted")
    /\ UNCHANGED <<authorities, consumptions, witnessed>>

ResolvedRaw(u) == rawLog[consumer[u].intake][consumer[u].raw]

-----------------------------------------------------------------------------
(* consume(intake_id): acquisition of the source, then its binding. *)

\* Mutant: an inapplicable selection silently falls back to the raw transcript.
RefusedNever(u) == FALSE

\* An inapplicable selection is refused, never replaced by the raw
\* transcript; and a corrected revision is taken only if its parent is the
\* transcript that was current at the first read.
Refused(u) == consumer[u].resolution \in {"parent_not_current", "not_accepted"}

\* Mutant: the parent is not compared with the transcript read first.
AuthorityNeverMoved(u) == FALSE

AuthorityMoved(u) ==
    /\ consumer[u].resolution = "corrected"
    /\ ParentOf[consumer[u].selection.target] # ResolvedRaw(u)

NewBinding(u) ==
    LET row == consumer[u].selection
    IN  [intake    |-> consumer[u].intake,
         source    |-> IF consumer[u].resolution = "corrected"
                       THEN <<"corrected", row.target>>
                       ELSE <<"raw", ResolvedRaw(u)>>,
         parent    |-> ResolvedRaw(u),
         raw       |-> consumer[u].raw,
         selection |-> IF row = NoRow THEN NoIdentity ELSE Identity(row),
         state     |-> IF consumer[u].resolution = "corrected" THEN "selected"
                       ELSE IF row = NoRow THEN "no_history" ELSE "raw_fallback"]

\* The bindings with the identity (intake, source) of the new one.
SameBinding(u) ==
    {b \in consumptions : /\ b.intake = NewBinding(u).intake
                          /\ b.source = NewBinding(u).source}

Consuming(u) == consumer[u].asked = NoBinding

Refuse(u) ==
    /\ consumer[u].pc = "resolved" /\ Consuming(u)
    /\ \/ Refused(u) /\ Return(u, "inapplicable", NoBinding)
       \/ AuthorityMoved(u) /\ Return(u, "retry", NoBinding)
    /\ UNCHANGED <<authorities, consumptions, witnessed>>

Acquire(u) ==
    /\ consumer[u].pc = "resolved" /\ Consuming(u)
    /\ ~Refused(u) /\ ~AuthorityMoved(u)
    /\ IF SameBinding(u) = {}
       THEN consumer' = [consumer EXCEPT ![u].pc = "persist"]
       ELSE \E b \in SameBinding(u) : Return(u, "reused", b)
    /\ UNCHANGED <<authorities, consumptions, witnessed>>

Persist(u) ==
    /\ consumer[u].pc = "persist"
    /\ SameBinding(u) = {}
    /\ consumptions' = consumptions \union {NewBinding(u)}
    /\ Return(u, "created", NewBinding(u))
    /\ UNCHANGED <<authorities, witnessed>>

PersistCollides(u) ==
    /\ consumer[u].pc = "persist"
    /\ SameBinding(u) # {}
    /\ consumer' = [consumer EXCEPT ![u].pc = "resolve"]
    /\ UNCHANGED <<authorities, consumptions, witnessed>>

PersistFails(u) ==
    /\ consumer[u].pc = "persist"
    /\ Return(u, "error", NoBinding)
    /\ UNCHANGED <<authorities, consumptions, witnessed>>

Resolve(u) ==
    /\ consumer[u].pc = "resolve"
    /\ \E b \in SameBinding(u) : Return(u, "reused", b)
    /\ UNCHANGED <<authorities, consumptions, witnessed>>

-----------------------------------------------------------------------------
(* currentness(consumption): derived from a fresh resolution. *)

\* Mutant: a raw binding outlives a switch of the raw selection.
VerdictIgnoringRawSwitch(b, resolution, r, transcript) ==
    CASE resolution = "raw" /\ b.source[1] = "raw" -> "current"
      [] resolution = "corrected" /\ b.source = <<"corrected", r>> -> "current"
      [] OTHER -> "selection_changed"

Verdict(b, resolution, r, transcript) ==
    LET rawBound == b.source[1] = "raw"
        bound(x) == b.source = <<"corrected", x>>
    IN  CASE resolution = "raw" ->
               IF ~rawBound THEN "selection_changed"
               ELSE IF b.parent = transcript THEN "current" ELSE "raw_changed"
          [] resolution = "corrected" ->
               IF bound(r) THEN "current" ELSE "selection_changed"
          [] OTHER ->
               CASE bound(r) -> IF resolution = "parent_not_current"
                                THEN "raw_changed" ELSE "inapplicable"
                 [] rawBound /\ b.parent # transcript -> "raw_changed"
                 [] OTHER -> "selection_changed"

Judge(u) ==
    /\ consumer[u].pc = "resolved" /\ ~Consuming(u)
    /\ Return(u, Verdict(consumer[u].asked, consumer[u].resolution,
                         consumer[u].selection.target, ResolvedRaw(u)),
              consumer[u].asked)
    /\ UNCHANGED <<authorities, consumptions, witnessed>>

Kill(u) ==
    /\ consumer[u].pc \in Running
    /\ Leave(u, "killed", None, NoBinding)
    /\ UNCHANGED <<authorities, consumptions, witnessed>>

-----------------------------------------------------------------------------

Init ==
    /\ Selection!Init
    /\ consumptions = {}
    /\ consumer = [u \in Consumer |-> NotStarted]
    /\ witnessed = [u \in Consumer |-> {}]

AuthorityStep ==
    /\ Selection!Next
    /\ UNCHANGED <<consumptions, consumer>>
    /\ Observe

ConsumerStep(u) ==
    \/ \E i \in Intake : Consume(u, i)
    \/ \E b \in consumptions : AskCurrentness(u, b)
    \/ ReadRaw(u)
    \/ ReadSelection(u)
    \/ RereadRaw(u)
    \/ CheckMember(u)
    \/ Refuse(u)
    \/ Acquire(u)
    \/ Persist(u)
    \/ PersistCollides(u)
    \/ PersistFails(u)
    \/ Resolve(u)
    \/ Judge(u)
    \/ Kill(u)

Next ==
    \/ AuthorityStep
    \/ \E u \in Consumer : ConsumerStep(u)

Spec == Init /\ [][Next]_vars

-----------------------------------------------------------------------------
(* Properties. *)

Source == ({"raw"} \X Transcript) \union ({"corrected"} \X Revision)

\* The commands that record a revision saw it eligible during their call.
EligibilityWasObserved == Selection!EligibilityWasObserved

\* A selection command fails on a collision only beside a divergent one.
CollisionMeansDivergence == Selection!CollisionMeansDivergence

\* Whatever consumers read, the selections implement the abstract register.
ImplementsRegister == Selection!ImplementsRegister

SelectionNamed(b) == {row \in selections : Identity(row) = b.selection}

\* Source kind, source identity and resolution state must agree.
KindDisagreements ==
    {b \in consumptions :
        ~ \/ /\ b.source = <<"raw", b.parent>>
             /\ b.state = IF b.selection = NoIdentity THEN "no_history" ELSE "raw_fallback"
          \/ /\ b.source[1] = "corrected" /\ b.state = "selected"
             /\ b.selection # NoIdentity}

ParentMismatches ==
    {b \in consumptions : b.source[1] = "corrected" /\ ParentOf[b.source[2]] # b.parent}

\* The raw selection and the revision selection that the binding names.
AuthorityMismatches ==
    {b \in consumptions :
        \/ b.raw \notin DOMAIN rawLog[b.intake]
        \/ rawLog[b.intake][b.raw] # b.parent
        \/ b.selection # NoIdentity /\ SelectionNamed(b) = {}
        \/ \E row \in SelectionNamed(b) :
              \/ row.scope # b.intake
              \/ row.target # IF b.state = "selected" THEN b.source[2] ELSE RawFallback}

\* The validator has nothing to say against the selections and the bindings:
\* each binding names authority records that exist and agree with the source
\* it binds, and a raw source rests on no selection history or on an explicit
\* fallback, never on a selected revision that could not be used (no silent
\* fallback), although the resolver read these records one by one.
RepositoryIsValid ==
    /\ HistoryIsValid(selections)
    /\ KindDisagreements = {}
    /\ ParentMismatches = {}
    /\ AuthorityMismatches = {}

Consumed(u) == consumer[u].outcome \in {"created", "reused"}

\* While one source stays effective during a whole call, the call consumes
\* that source; and while none is, for one and the same reason during the whole
\* call, the call consumes nothing.  (If the members of a revision take turns in
\* being unaccepted, each may be accepted when it is looked at.)
StableSourceIsConsumed ==
    \A u \in Consumer : \A source \in witnessed[u] :
        Consumed(u) /\ witnessed[u] = {source} => consumer[u].binding.source = source

\* A verdict of a currentness query is right whenever what is effective, or why
\* nothing is, did not move during the query: current exactly when the bound
\* source is the effective one.
StableVerdictIsRight ==
    \A u \in Consumer : \A source \in witnessed[u] :
        ~Consuming(u) /\ consumer[u].outcome \in Verdicts /\ witnessed[u] = {source} =>
            (consumer[u].outcome = "current" <=> consumer[u].asked.source = source)

\* "A selected revision's lineage does not belong to the selection's intake
\* context": the validator says so of no selection the service records.
SelectedContextIsRecognized == Selection!SelectedContextIsRecognized
=============================================================================

---------------------------- MODULE SrtChainProofs ----------------------------
(***************************************************************************)
(* Proofs about the three authorities that stand behind a released SRT     *)
(* file, in the order of the pipeline: the selection of a reviewed         *)
(* subtitle and the export of its artifact (SubtitleRelease), the delivery *)
(* of the file (SrtDelivery), and its publication (SrtPublication).        *)
(*                                                                         *)
(* Each part defines the inductive invariant of its component, shows in a  *)
(* lemma per action that the action keeps it, and derives the properties.  *)
(* The three rest on the same lemmas about the append-only table, and on   *)
(* nothing of each other.                                                  *)
(***************************************************************************)
EXTENDS SubtitleRelease, SrtDelivery, SrtPublication, AuthorityHistoryProofs


(*****************************************************************************)
(* I. SubtitleRelease: final selections and SRT artifacts.                   *)
(*                                                                           *)
(* None of the three authorities a command reads is locked, so the invariant *)
(* says of each what a later read may still rely on: the supporting decision *)
(* is an Accept no older than the call; the source was the effective one, or *)
(* the effective source has moved since the call; and the selection in hand  *)
(* was not superseded before it.                                             *)
(*****************************************************************************)

SelectionRow ==
    [scope : Intake, target : SelectionTarget, sequence : Nat,
     previous : {NoIdentity} \union (Intake \X SelectionTarget \X Nat), note : Selector]

MaybeSelection == SelectionRow \union {NoRow}

Artifact == [selection : Intake \X SelectionTarget \X Nat, subject : Subject]

ReleaseState ==
    [pc : ReleaseRunning \union {"idle", "returned", "killed"},
     op : {"select", "export", None}, subject : Subject \union {None},
     note : Selector \union {None}, supporting : Nat, row : MaybeSelection,
     made : {"created", "reused", None}, outcome : ReleaseOutcomes \union {None}]

Moment == [source : Nat, decision : Nat, selection : Nat]

ReleaseTypeInv ==
    /\ sourceLog \in [Intake -> Seq(Source)]
    /\ decisionLog \in [Subject -> Seq(DecisionKind)]
    /\ selections \subseteq SelectionRow /\ IsFiniteSet(selections)
    /\ artifacts \subseteq Artifact
    /\ release \in [ReleaseCommand -> ReleaseState]
    /\ start \in [ReleaseCommand -> Moment \union {<<>>}]

\* The selections of each intake form a chain, every one rests on an Accept of
\* a subject of its own intake, and every artifact renders one of them.
ReleaseTableInv ==
    /\ History(selections)
    /\ \A i \in Intake : Contiguous(selections, i)
    /\ SelectionComplaints = {}
    /\ ArtifactComplaints = {}

SelectPlaces ==
    {"decision", "recheck", "source", "disturbed", "current", "persist", "resolve", "returned"}
ExportPlaces ==
    {"head", "applies", "recheck", "source", "disturbed", "lookup", "persist", "converge",
     "returned"}

\* Where an export is once it has its artifact.
Reporting == {"applies", "recheck", "source", "disturbed", "returned"}

\* Past the gate on the candidate's source, ...
Passed(c) ==
    \/ release[c].pc \in {"current", "persist", "resolve", "lookup", "converge"}
    \/ release[c].made # None
    \/ release[c].outcome \in Selected

\* ... or at least past the gate on the supporting decision, which a selection
\* has chosen itself.
Supported(c) ==
    \/ Passed(c)
    \/ release[c].pc \in {"source", "disturbed"}
    \/ release[c].op = "select" /\ release[c].pc = "recheck"

\* The local state alone: what belongs to which command, and when.
ReleaseShape(c) ==
    /\ release[c].pc = "idle" => release[c] = NotReleasing
    /\ release[c].pc # "returned" => release[c].outcome = None
    /\ release[c].pc \in ReleaseRunning => release[c].subject # None
    /\ release[c].made # None => release[c].pc \in Reporting
    /\ release[c].subject = None =>
          /\ release[c].made = None
          /\ release[c].outcome \notin Selected \union {"conflict"}
    /\ release[c].subject # None =>
          \/ /\ release[c].op = "select" /\ release[c].pc \in SelectPlaces
             /\ release[c].note \in Selector /\ release[c].made = None
          \/ /\ release[c].op = "export" /\ release[c].pc \in ExportPlaces
             /\ release[c].outcome \notin Selected \union {"conflict"}

\* The histories are no shorter than they were when the command was called.
ReleaseStarted(c) ==
    release[c].subject # None =>
        /\ start[c] \in Moment
        /\ start[c].source <= Len(sourceLog[IntakeFor(c)])
        /\ start[c].decision <= Len(decisionLog[release[c].subject])
        /\ start[c].selection <= Height(selections, IntakeFor(c))

\* The supporting decision is an Accept, and not one that was superseded
\* before the command was called.
ReleaseRelies(c) ==
    /\ release[c].subject # None /\ release[c].pc # "decision" =>
          /\ release[c].supporting \in DOMAIN decisionLog[release[c].subject]
          /\ decisionLog[release[c].subject][release[c].supporting] = "accept"
    /\ Supported(c) => release[c].supporting >= start[c].decision

\* The source was the effective one, or the effective source has moved since
\* the command was called.
ReleaseSourced(c) ==
    /\ release[c].pc = "disturbed" => Len(sourceLog[IntakeFor(c)]) > start[c].source
    /\ Passed(c) =>
          /\ Len(sourceLog[IntakeFor(c)]) = start[c].source
                => Effective!CurrentlyHolds(IntakeFor(c), SourceOf[release[c].subject])
          /\ release[c].op = "select" => release[c].subject \in Deliverable

\* Somebody else's choice, recorded while c ran.
Outrun(c) ==
    \E row \in RowsOf(selections, IntakeFor(c)) :
        /\ row.sequence >= start[c].selection
        /\ <<row.target, row.note>> # <<TargetFor(c), release[c].note>>

\* The same choice by the same person for the same reason, recorded while c ran.
Seconded(c) ==
    /\ release[c].row \in RowsOf(selections, IntakeFor(c))
    /\ release[c].row.sequence >= start[c].selection
    /\ release[c].row.target = TargetFor(c) /\ release[c].row.note = release[c].note

\* The row in hand: the selection an export renders, the current one a
\* selection is about to supersede, or the one it ended with.
ReleaseChose(c) ==
    /\ release[c].op = "export" /\ release[c].subject # None =>
          /\ release[c].row \in selections
          /\ release[c].row.target = TargetFor(c)
          /\ release[c].pc # "head" => release[c].row.sequence + 1 >= start[c].selection
    /\ release[c].op = "select" /\ release[c].pc \in {"persist", "resolve"} =>
          /\ Usable(selections, release[c].row, IntakeFor(c), TargetFor(c))
          /\ release[c].row.sequence + 1 >= start[c].selection
    /\ release[c].pc = "resolve" => SlotTaken(selections, NewSelection(c))
    /\ release[c].outcome \in Selected =>
          /\ release[c].row \in selections
          /\ release[c].row.sequence + 1 >= start[c].selection
    /\ release[c].outcome = "converged" => Seconded(c)
    /\ release[c].outcome = "conflict" => Outrun(c)

\* What an export has made, or found made by the winner of the race, is there.
ReleaseMade(c) ==
    release[c].pc = "converge" \/ release[c].made # None
        => ArtifactOf(release[c].row) \in artifacts

ReleaseCallInv(c) ==
    /\ ReleaseShape(c)
    /\ ReleaseStarted(c)
    /\ ReleaseRelies(c)
    /\ ReleaseSourced(c)
    /\ ReleaseChose(c)
    /\ ReleaseMade(c)

CreatorsDiffer == \A c, d \in Created : release[c].row = release[d].row => c = d

ReleaseInv ==
    /\ ReleaseTypeInv
    /\ ReleaseTableInv
    /\ \A c \in ReleaseCommand : ReleaseCallInv(c)
    /\ CreatorsDiffer

-----------------------------------------------------------------------------
(* What the steps of a command do to its local state. *)

LEMMA ReleaseFields ==
    ASSUME ReleaseTypeInv, NEW c \in ReleaseCommand
    PROVE  /\ release \in [ReleaseCommand -> ReleaseState] /\ release[c] \in ReleaseState
           /\ release[c].pc \in ReleaseRunning \union {"idle", "returned", "killed"}
           /\ release[c].op \in {"select", "export", None}
           /\ release[c].subject \in Subject \union {None}
           /\ release[c].note \in Selector \union {None}
           /\ release[c].supporting \in Nat
           /\ release[c].row \in MaybeSelection
           /\ release[c].made \in {"created", "reused", None}
           /\ release[c].outcome \in ReleaseOutcomes \union {None}
           /\ release[c].subject # None =>
                 release[c].subject \in Subject /\ IntakeFor(c) \in Intake
<1>1. release \in [ReleaseCommand -> ReleaseState] /\ release[c] \in ReleaseState
  BY DEF ReleaseTypeInv
<1> QED
  BY <1>1, ReleaseLineageAssumption DEF ReleaseState, IntakeFor

ReleaseBecomes(c, pc, supporting, row, made, result) ==
    /\ release' \in [ReleaseCommand -> ReleaseState]
    /\ \A d \in ReleaseCommand \ {c} : release'[d] = release[d]
    /\ release'[c].pc = pc /\ release'[c].supporting = supporting
    /\ release'[c].row = row /\ release'[c].made = made /\ release'[c].outcome = result
    /\ release'[c].op = release[c].op
    /\ release'[c].subject = release[c].subject
    /\ release'[c].note = release[c].note

LEMMA ReleaseSet ==
    ASSUME ReleaseTypeInv, NEW c \in ReleaseCommand,
           NEW pc \in ReleaseRunning \union {"returned", "killed"},
           NEW supporting \in Nat, NEW row \in MaybeSelection,
           NEW made \in {"created", "reused", None}, NEW result \in ReleaseOutcomes \union {None},
           release' = [release EXCEPT ![c].pc = pc, ![c].supporting = supporting,
                          ![c].row = row, ![c].made = made, ![c].outcome = result]
    PROVE  ReleaseBecomes(c, pc, supporting, row, made, result)
<1>1. release \in [ReleaseCommand -> ReleaseState] /\ release[c] \in ReleaseState
  BY ReleaseFields
<1>2. release'[c] =
        [pc |-> pc, op |-> release[c].op, subject |-> release[c].subject,
         note |-> release[c].note, supporting |-> supporting, row |-> row,
         made |-> made, outcome |-> result]
  BY <1>1 DEF ReleaseState
<1>3. /\ release'[c] \in ReleaseState
      /\ release'[c].pc = pc /\ release'[c].supporting = supporting
      /\ release'[c].row = row /\ release'[c].made = made /\ release'[c].outcome = result
      /\ release'[c].op = release[c].op
      /\ release'[c].subject = release[c].subject
      /\ release'[c].note = release[c].note
  BY <1>1, <1>2 DEF ReleaseState
<1>4. /\ release' \in [ReleaseCommand -> ReleaseState]
      /\ \A d \in ReleaseCommand \ {c} : release'[d] = release[d]
  BY <1>1, <1>3
<1> QED
  BY <1>3, <1>4 DEF ReleaseBecomes

\* A step that reads a row and may end the command with it.
LEMMA ReleaseReads ==
    ASSUME ReleaseTypeInv, NEW c \in ReleaseCommand,
           NEW pc \in ReleaseRunning \union {"returned", "killed"},
           NEW row \in MaybeSelection, NEW result \in ReleaseOutcomes \union {None},
           release' = [release EXCEPT ![c].pc = pc, ![c].row = row, ![c].outcome = result]
    PROVE  ReleaseBecomes(c, pc, release[c].supporting, row, release[c].made, result)
<1>1. /\ release \in [ReleaseCommand -> ReleaseState] /\ release[c] \in ReleaseState
      /\ release[c].supporting \in Nat /\ release[c].made \in {"created", "reused", None}
  BY ReleaseFields
<1>2. release'[c] =
        [pc |-> pc, op |-> release[c].op, subject |-> release[c].subject,
         note |-> release[c].note, supporting |-> release[c].supporting, row |-> row,
         made |-> release[c].made, outcome |-> result]
  BY <1>1 DEF ReleaseState
<1>3. release' = [release EXCEPT ![c] = release'[c]]
  BY <1>1, <1>2
<1>4. release'[c] \in ReleaseState
  BY <1>1, <1>2 DEF ReleaseState
<1>5. /\ release' \in [ReleaseCommand -> ReleaseState]
      /\ \A d \in ReleaseCommand \ {c} : release'[d] = release[d]
  BY <1>1, <1>3, <1>4
<1> QED
  BY <1>2, <1>5 DEF ReleaseBecomes

LEMMA ReleaseGoes ==
    ASSUME ReleaseTypeInv, NEW c \in ReleaseCommand, NEW pc \in ReleaseRunning,
           ReleaseGoto(c, pc)
    PROVE  ReleaseBecomes(c, pc, release[c].supporting, release[c].row, release[c].made,
                          release[c].outcome)
<1>1. release' = [release EXCEPT ![c].pc = pc, ![c].row = release[c].row,
                                 ![c].outcome = release[c].outcome]
  BY ReleaseFields DEF ReleaseGoto, ReleaseState
<1> QED
  BY <1>1, ReleaseFields, ReleaseReads

LEMMA ReleaseReturns ==
    ASSUME ReleaseTypeInv, NEW c \in ReleaseCommand, NEW result \in ReleaseOutcomes,
           ReleaseReturn(c, result)
    PROVE  ReleaseBecomes(c, "returned", release[c].supporting, release[c].row,
                          release[c].made, result)
<1>1. release' = [release EXCEPT ![c].pc = "returned", ![c].row = release[c].row,
                                 ![c].outcome = result]
  BY ReleaseFields DEF ReleaseReturn, ReleaseState
<1> QED
  BY <1>1, ReleaseFields, ReleaseReads

LEMMA ReleaseReports ==
    ASSUME ReleaseTypeInv, NEW c \in ReleaseCommand, NEW made \in {"created", "reused"},
           Report(c, made)
    PROVE  ReleaseBecomes(c, "applies", release[c].supporting, release[c].row, made,
                          release[c].outcome)
<1>1. release' = [release EXCEPT ![c].pc = "applies", ![c].supporting = release[c].supporting,
                     ![c].row = release[c].row, ![c].made = made,
                     ![c].outcome = release[c].outcome]
  BY ReleaseFields DEF Report, ReleaseState
<1> QED
  BY <1>1, ReleaseFields, ReleaseSet DEF ReleaseRunning

LEMMA ReleaseLeaves ==
    ASSUME ReleaseTypeInv, NEW c \in ReleaseCommand, NEW pc \in {"returned", "killed"},
           NEW result \in ReleaseOutcomes \union {None}, ReleaseLeave(c, pc, result)
    PROVE  /\ release' \in [ReleaseCommand -> ReleaseState]
           /\ \A d \in ReleaseCommand \ {c} : release'[d] = release[d]
           /\ release'[c].pc = pc /\ release'[c].outcome = result
           /\ release'[c].subject = None /\ release'[c].op = None
           /\ release'[c].made = None
<1>1. release \in [ReleaseCommand -> ReleaseState]
  BY ReleaseFields
<1>2. release'[c] = [NotReleasing EXCEPT !.pc = pc, !.outcome = result]
  BY <1>1 DEF ReleaseLeave
<1>3. release'[c] =
        [pc |-> pc, op |-> None, subject |-> None, note |-> None, supporting |-> 0,
         row |-> NoRow, made |-> None, outcome |-> result]
  BY <1>2 DEF NotReleasing
<1>4. release'[c] \in ReleaseState
  BY <1>3 DEF ReleaseState, MaybeSelection
<1>5. /\ release' \in [ReleaseCommand -> ReleaseState]
      /\ \A d \in ReleaseCommand \ {c} : release'[d] = release[d]
  BY <1>1, <1>4 DEF ReleaseLeave
<1> QED
  BY <1>3, <1>5

-----------------------------------------------------------------------------
(* Steps seen by those who do not take them. *)

\* The histories a release depends on only grow.
HistoriesGrow ==
    /\ \A i \in Intake : sourceLog'[i] = sourceLog[i] \/ Len(sourceLog'[i]) > Len(sourceLog[i])
    /\ \A s \in Subject :
          /\ Len(decisionLog[s]) <= Len(decisionLog'[s])
          /\ \A n \in DOMAIN decisionLog[s] :
                n \in DOMAIN decisionLog'[s] /\ decisionLog'[s][n] = decisionLog[s][n]
    /\ selections \subseteq selections'
    /\ artifacts \subseteq artifacts'

LEMMA LengthsAreNatural ==
    ASSUME ReleaseTypeInv
    PROVE  /\ \A i \in Intake : Len(sourceLog[i]) \in Nat
           /\ \A s \in Subject : Len(decisionLog[s]) \in Nat
           /\ \A i : Height(selections, i) \in Nat
BY HeightType DEF ReleaseTypeInv

\* What was right of a command stays right while others move, as long as it
\* stays where it is or, asking for its source, notices that this one moved.
LEMMA ReleaseKept ==
    ASSUME ReleaseTypeInv, ReleaseTypeInv', HistoriesGrow,
           NEW c \in ReleaseCommand, ReleaseCallInv(c),
           release'[c] = release[c], start'[c] = start[c]
    PROVE  ReleaseCallInv(c)'
<1> DEFINE s == release[c].subject
           i == IntakeOf[s]
<1>1. /\ s \in Subject \union {None}
      /\ s # None => s \in Subject /\ i \in Intake
  BY ReleaseFields DEF IntakeFor
<1>2. /\ ReleaseShape(c) /\ ReleaseStarted(c) /\ ReleaseRelies(c)
      /\ ReleaseSourced(c) /\ ReleaseChose(c) /\ ReleaseMade(c)
  BY DEF ReleaseCallInv
<1>3. Supported(c) \/ Passed(c) => s # None
  BY <1>2 DEF Supported, Passed, ReleaseShape, Reporting, ReleaseRunning
<1>4. /\ s # None => /\ Len(sourceLog[i]) \in Nat /\ Len(sourceLog'[i]) \in Nat
                     /\ Len(decisionLog[s]) \in Nat /\ Len(decisionLog'[s]) \in Nat
      /\ Height(selections, i) \in Nat /\ Height(selections', i) \in Nat
      /\ Height(selections, i) <= Height(selections', i)
  <2>1. IsFiniteSet(selections') /\ selections \subseteq selections'
    BY DEF ReleaseTypeInv, HistoriesGrow
  <2> QED
    BY <1>1, <2>1, LengthsAreNatural, HeightGrows DEF ReleaseTypeInv
<1>5. ReleaseShape(c)'
  BY <1>2 DEF ReleaseShape
<1>6. ReleaseStarted(c)'
  <2> SUFFICES ASSUME s # None
               PROVE  /\ start[c] \in Moment
                      /\ start[c].source <= Len(sourceLog'[i])
                      /\ start[c].decision <= Len(decisionLog'[s])
                      /\ start[c].selection <= Height(selections', i)
    BY DEF ReleaseStarted, IntakeFor
  <2>1. /\ start[c] \in Moment
        /\ start[c].source <= Len(sourceLog[i])
        /\ start[c].decision <= Len(decisionLog[s])
        /\ start[c].selection <= Height(selections, i)
    BY <1>2 DEF ReleaseStarted, IntakeFor
  <2>2. /\ Len(sourceLog[i]) <= Len(sourceLog'[i])
        /\ Len(decisionLog[s]) <= Len(decisionLog'[s])
    BY <1>1, <1>4 DEF HistoriesGrow
  <2>3. start[c].source \in Nat /\ start[c].decision \in Nat /\ start[c].selection \in Nat
    BY <2>1 DEF Moment
  <2>4. \A n, m, k \in Nat : n <= m /\ m <= k => n <= k
    OBVIOUS
  <2>5. start[c].source <= Len(sourceLog'[i])
    BY <2>1, <2>2, <2>3, <2>4, <1>4, Zenon
  <2>6. start[c].decision <= Len(decisionLog'[s])
    BY <2>1, <2>2, <2>3, <2>4, <1>4, Zenon
  <2>7. start[c].selection <= Height(selections', i)
    BY <2>1, <2>3, <1>4
  <2> QED
    BY <2>1, <2>5, <2>6, <2>7
<1>7. ReleaseRelies(c)'
  <2>1. s # None /\ release[c].pc # "decision" =>
            /\ release[c].supporting \in DOMAIN decisionLog'[s]
            /\ decisionLog'[s][release[c].supporting] = "accept"
    BY <1>1, <1>2 DEF ReleaseRelies, HistoriesGrow
  <2>2. Supported(c)' = Supported(c)
    BY DEF Supported, Passed
  <2> QED
    BY <1>2, <2>1, <2>2 DEF ReleaseRelies
<1>8. ReleaseSourced(c)'
  <2>1. Passed(c)' = Passed(c)
    BY DEF Passed
  <2>2. s # None => start[c].source <= Len(sourceLog[i]) /\ start[c].source \in Nat
    BY <1>2 DEF ReleaseStarted, IntakeFor, Moment
  <2>3. release[c].pc = "disturbed" => s # None
    BY <1>2 DEF ReleaseShape, Reporting, ReleaseRunning
  <2>4. s # None => sourceLog'[i] = sourceLog[i] \/ Len(sourceLog'[i]) > Len(sourceLog[i])
    BY <1>1 DEF HistoriesGrow
  <2>5. release[c].pc = "disturbed" => Len(sourceLog'[i]) > start[c].source
    BY <1>2, <1>4, <2>2, <2>3, <2>4 DEF ReleaseSourced, IntakeFor
  <2>6. Passed(c) /\ Len(sourceLog'[i]) = start[c].source
           => sourceLog'[i] # <<>> /\ sourceLog'[i][Len(sourceLog'[i])] = SourceOf[s]
    <3> SUFFICES ASSUME Passed(c), Len(sourceLog'[i]) = start[c].source
                 PROVE  sourceLog'[i] # <<>> /\ sourceLog'[i][Len(sourceLog'[i])] = SourceOf[s]
      OBVIOUS
    <3>1. sourceLog'[i] = sourceLog[i]
      BY <1>3, <1>4, <2>2, <2>4
    <3> QED
      BY <1>2, <3>1 DEF ReleaseSourced, Effective!CurrentlyHolds, IntakeFor
  <2> QED
    BY <1>2, <2>1, <2>5, <2>6 DEF ReleaseSourced, Effective!CurrentlyHolds, IntakeFor
<1>9. ReleaseChose(c)'
  <2>1. Usable(selections, release[c].row, i, TargetFor(c))
          => Usable(selections', release[c].row, i, TargetFor(c))
    <3>1. \A row \in selections : row.sequence \in Int
      BY DEF ReleaseTypeInv, SelectionRow
    <3> QED
      BY <3>1, UsableStays DEF ReleaseTypeInv, HistoriesGrow
  <2>2. NewSelection(c)' = NewSelection(c) /\ TargetFor(c)' = TargetFor(c)
    BY DEF NewSelection, IntakeFor, TargetFor
  <2>3. SlotTaken(selections, NewSelection(c)) => SlotTaken(selections, NewSelection(c))'
    BY <2>2 DEF SlotTaken, HistoriesGrow
  <2>4. (Outrun(c) => Outrun(c)') /\ (Seconded(c) => Seconded(c)')
    BY DEF Outrun, Seconded, RowsOf, IntakeFor, TargetFor, HistoriesGrow
  <2>5. selections \subseteq selections' /\ IntakeFor(c)' = i /\ IntakeFor(c) = i
    BY DEF HistoriesGrow, IntakeFor
  <2> QED
    BY <1>2, <2>1, <2>2, <2>3, <2>4, <2>5 DEF ReleaseChose
<1>10. ReleaseMade(c)'
  BY <1>2 DEF ReleaseMade, HistoriesGrow
<1> QED
  BY <1>5, <1>6, <1>7, <1>8, <1>9, <1>10 DEF ReleaseCallInv

\* A step of a command that changes nothing but its own state, and does not
\* claim to have created what it did not create.
LEMMA ReleaseLocal ==
    ASSUME ReleaseInv, NEW c \in ReleaseCommand,
           release' \in [ReleaseCommand -> ReleaseState],
           start' \in [ReleaseCommand -> Moment \union {<<>>}],
           \A d \in ReleaseCommand \ {c} : release'[d] = release[d] /\ start'[d] = start[d],
           UNCHANGED <<sourceLog, decisionLog, tables>>,
           release'[c].made = "created" =>
               release[c].made = "created" /\ release'[c].row = release[c].row,
           ReleaseCallInv(c)'
    PROVE  ReleaseInv'
<1>1. UNCHANGED <<sourceLog, decisionLog, selections, artifacts>>
  BY DEF tables
<1>2. ReleaseTypeInv /\ ReleaseTypeInv' /\ HistoriesGrow
  BY <1>1 DEF ReleaseInv, ReleaseTypeInv, HistoriesGrow
<1>3. ReleaseTableInv'
  BY <1>1 DEF ReleaseInv, ReleaseTableInv, SelectionComplaints, ArtifactComplaints
<1>4. \A d \in ReleaseCommand : ReleaseCallInv(d)'
  <2>1. ASSUME NEW d \in ReleaseCommand \ {c} PROVE ReleaseCallInv(d)'
    BY <1>2, ReleaseKept DEF ReleaseInv
  <2> QED
    BY <2>1
<1>5. CreatorsDiffer'
  <2>1. \A d \in ReleaseCommand : release'[d].made = "created" =>
            release[d].made = "created" /\ release'[d].row = release[d].row
    OBVIOUS
  <2> QED
    BY <2>1 DEF ReleaseInv, CreatorsDiffer, Created
<1> QED
  BY <1>2, <1>3, <1>4, <1>5 DEF ReleaseInv

\* A command that ends without a result has nothing left to justify.
LEMMA ReleaseLeavesKeeps ==
    ASSUME ReleaseInv, NEW c \in ReleaseCommand,
           NEW pc \in {"returned", "killed"}, NEW result \in {"not_eligible", "error", None},
           pc = "killed" => result = None,
           ReleaseLeave(c, pc, result),
           UNCHANGED <<sourceLog, decisionLog, tables, start>>
    PROVE  ReleaseInv'
<1>1. ReleaseTypeInv /\ result \in ReleaseOutcomes \union {None}
  BY DEF ReleaseInv, ReleaseOutcomes
<1>2. /\ release' \in [ReleaseCommand -> ReleaseState]
      /\ \A d \in ReleaseCommand \ {c} : release'[d] = release[d]
      /\ release'[c].pc = pc /\ release'[c].outcome = result
      /\ release'[c].subject = None /\ release'[c].op = None
      /\ release'[c].made = None
  BY <1>1, ReleaseLeaves
<1>3. result \notin Selected \union {"conflict"}
  BY ReleaseNoneAssumption DEF Selected, ReleaseOutcomes
<1>4. result # "converged" /\ result # "conflict"
  BY <1>3 DEF Selected
<1>5. ReleaseShape(c)' /\ ReleaseStarted(c)'
  BY <1>2, <1>3 DEF ReleaseShape, Reporting, ReleaseStarted, ReleaseRunning
<1>6. ~Passed(c)' /\ ~Supported(c)'
  BY <1>2, <1>3 DEF Passed, Supported
<1>7. ReleaseRelies(c)' /\ ReleaseSourced(c)' /\ ReleaseMade(c)'
  BY <1>2, <1>6 DEF ReleaseRelies, ReleaseSourced, ReleaseMade
<1>8. ReleaseChose(c)'
  BY <1>2, <1>3, <1>4 DEF ReleaseChose
<1>9. ReleaseCallInv(c)'
  BY <1>5, <1>7, <1>8 DEF ReleaseCallInv
<1>10. start' \in [ReleaseCommand -> Moment \union {<<>>}]
  BY <1>1 DEF ReleaseTypeInv
<1>11. release'[c].made # "created"
  BY <1>2, ReleaseNoneAssumption
<1> QED
  BY <1>2, <1>9, <1>10, <1>11, ReleaseLocal

\* A command that goes on has to justify where it stands now.
LEMMA ReleaseMoves ==
    ASSUME ReleaseInv, NEW c \in ReleaseCommand, release[c].subject # None,
           NEW pc, NEW supporting, NEW row, NEW made, NEW result,
           ReleaseBecomes(c, pc, supporting, row, made, result),
           made = "created" => release[c].made = "created" /\ row = release[c].row,
           UNCHANGED <<sourceLog, decisionLog, tables, start>>,
           ReleaseShape(c)', ReleaseRelies(c)', ReleaseSourced(c)', ReleaseChose(c)',
           ReleaseMade(c)'
    PROVE  ReleaseInv'
<1>1. /\ release' \in [ReleaseCommand -> ReleaseState]
      /\ \A d \in ReleaseCommand \ {c} : release'[d] = release[d]
      /\ release'[c].subject = release[c].subject
      /\ release'[c].made = made /\ release'[c].row = row
  BY DEF ReleaseBecomes
<1>2. UNCHANGED <<sourceLog, decisionLog, selections, artifacts, start>>
  BY DEF tables
<1>3. ReleaseStarted(c)'
  BY <1>1, <1>2 DEF ReleaseInv, ReleaseCallInv, ReleaseStarted, IntakeFor
<1>4. ReleaseCallInv(c)'
  BY <1>3 DEF ReleaseCallInv
<1>5. start' \in [ReleaseCommand -> Moment \union {<<>>}]
  BY DEF ReleaseInv, ReleaseTypeInv
<1> QED
  BY <1>1, <1>2, <1>4, <1>5, ReleaseLocal

\* What a step of a running command may start from.
LEMMA ReleaseRuns ==
    ASSUME ReleaseInv, NEW c \in ReleaseCommand, release[c].pc \in ReleaseRunning
    PROVE  /\ ReleaseTypeInv /\ ReleaseTableInv
           /\ ReleaseShape(c) /\ ReleaseStarted(c) /\ ReleaseRelies(c)
           /\ ReleaseSourced(c) /\ ReleaseChose(c) /\ ReleaseMade(c)
           /\ release[c].subject # None /\ release[c].subject \in Subject
           /\ IntakeFor(c) \in Intake
           /\ release[c].outcome = None
           /\ None \notin Selected \union {"conflict"} /\ None # "converged"
           /\ None # "created" /\ None # "reused"
           /\ start[c].selection \in Nat /\ start[c].decision \in Nat /\ start[c].source \in Nat
<1>1. /\ ReleaseTypeInv /\ ReleaseTableInv
      /\ ReleaseShape(c) /\ ReleaseStarted(c) /\ ReleaseRelies(c)
      /\ ReleaseSourced(c) /\ ReleaseChose(c) /\ ReleaseMade(c)
  BY DEF ReleaseInv, ReleaseCallInv
<1>2. release[c].subject # None /\ release[c].outcome = None
  BY <1>1 DEF ReleaseShape, Reporting, ReleaseRunning
<1>3. None \notin Selected \union {"conflict"} /\ None # "converged" /\ None # "created"
      /\ None # "reused"
  BY ReleaseNoneAssumption DEF ReleaseOutcomes, Selected
<1>4. start[c] \in Moment
  BY <1>1, <1>2 DEF ReleaseStarted
<1> QED
  BY <1>1, <1>2, <1>3, <1>4, ReleaseFields DEF Moment

-----------------------------------------------------------------------------
(* Both commands. *)

\* A gate passed with the answer "current", and what follows it.
LEMMA JudgeKeeps ==
    ASSUME ReleaseInv, NEW c \in ReleaseCommand,
           release[c].pc \in {"applies", "recheck", "source", "disturbed"},
           NEW answer \in Currentness, Judge(c, answer),
           answer = "current" =>
               /\ release[c].pc \in {"source", "disturbed"}
               /\ Len(sourceLog[IntakeFor(c)]) = start[c].source =>
                     Effective!CurrentlyHolds(IntakeFor(c), SourceOf[release[c].subject]),
           UNCHANGED <<sourceLog, decisionLog, tables, start>>
    PROVE  ReleaseInv'
<1> DEFINE r == release[c]
<1>1. release[c].pc \in ReleaseRunning
  BY DEF ReleaseRunning
<1>2. UNCHANGED <<sourceLog, decisionLog, selections, artifacts, start>>
  BY DEF tables
<1>3. CASE release[c].made # None
  <2>1. ReleaseReturn(c, answer) /\ answer \in ReleaseOutcomes
    BY <1>3 DEF Judge, ReleaseOutcomes
  <2>2. ReleaseBecomes(c, "returned", r.supporting, r.row, r.made, answer)
    BY <2>1, <1>1, ReleaseRuns, ReleaseReturns
  <2>3. answer \notin Selected \union {"conflict"} /\ answer # "converged"
    BY DEF Currentness, Selected
  <2>4. r.op = "export" /\ Passed(c) /\ r.pc # "head" /\ r.pc # "decision"
    BY <1>1, <1>3, ReleaseRuns DEF ReleaseShape, Passed
  <2>5. ReleaseShape(c)'
    BY <2>2, <2>3, <2>4, <1>1, ReleaseRuns
       DEF ReleaseBecomes, ReleaseShape, Reporting, ReleaseRunning, ExportPlaces
  <2>6. ReleaseRelies(c)'
    BY <2>2, <2>4, <1>1, <1>2, ReleaseRuns DEF ReleaseBecomes, ReleaseRelies, Supported
  <2>7. ReleaseSourced(c)'
    BY <2>2, <2>4, <1>1, <1>2, ReleaseRuns
       DEF ReleaseBecomes, ReleaseSourced, Effective!CurrentlyHolds, IntakeFor
  <2>8. ReleaseChose(c)'
    BY <2>2, <2>3, <2>4, <1>1, <1>2, ReleaseRuns DEF ReleaseBecomes, ReleaseChose, TargetFor
  <2>9. ReleaseMade(c)'
    BY <2>2, <1>1, <1>2, <1>3, ReleaseRuns DEF ReleaseBecomes, ReleaseMade
  <2> QED
    BY <2>2, <2>5, <2>6, <2>7, <2>8, <2>9, <1>1, ReleaseRuns, ReleaseMoves
<1>4. CASE ReleaseLeave(c, "returned", "not_eligible")
  BY <1>4, ReleaseLeavesKeeps
<1>5. CASE /\ r.made = None /\ answer = "current"
           /\ \/ r.op = "export" /\ ReleaseGoto(c, "lookup")
              \/ r.op # "export" /\ r.subject \in Deliverable /\ ReleaseGoto(c, "current")
  <2>1. PICK pc \in {"lookup", "current"} :
            /\ ReleaseGoto(c, pc)
            /\ pc = "lookup" => r.op = "export"
            /\ pc = "current" => r.op # "export" /\ r.subject \in Deliverable
    BY <1>5
  <2>2. ReleaseBecomes(c, pc, r.supporting, r.row, r.made, r.outcome)
    BY <2>1, <1>1, ReleaseRuns, ReleaseGoes DEF ReleaseRunning
  <2>3. r.pc \in {"source", "disturbed"} /\ Supported(c) /\ r.outcome = None
    BY <1>1, <1>5, ReleaseRuns DEF Supported
  <2>4. (r.op = "select" /\ r.note \in Selector) \/ r.op = "export"
    BY <1>1, ReleaseRuns DEF ReleaseShape
  <2>5. ReleaseShape(c)'
    BY <2>1, <2>2, <2>3, <2>4, <1>1, <1>5, ReleaseRuns
       DEF ReleaseBecomes, ReleaseShape, Reporting, ReleaseRunning, ExportPlaces, SelectPlaces
  <2>6. ReleaseRelies(c)'
    BY <2>1, <2>2, <2>3, <1>1, <1>2, ReleaseRuns DEF ReleaseBecomes, ReleaseRelies
  <2>7. ReleaseSourced(c)'
    BY <2>1, <2>2, <2>4, <1>1, <1>2, <1>5, ReleaseRuns
       DEF ReleaseBecomes, ReleaseSourced, Effective!CurrentlyHolds, IntakeFor
  <2>8. ReleaseChose(c)'
    BY <2>1, <2>2, <2>3, <1>1, <1>2, ReleaseRuns DEF ReleaseBecomes, ReleaseChose, TargetFor
  <2>9. ReleaseMade(c)'
    BY <2>1, <2>2, <1>5 DEF ReleaseBecomes, ReleaseMade
  <2> QED
    BY <2>2, <2>5, <2>6, <2>7, <2>8, <2>9, <1>1, <1>5, ReleaseRuns, ReleaseMoves
<1> QED
  BY <1>3, <1>4, <1>5 DEF Judge

LEMMA RecheckDecisionKeeps ==
    ASSUME ReleaseInv, NEW c \in ReleaseCommand, RecheckDecision(c)
    PROVE  ReleaseInv'
<1> DEFINE r == release[c]
<1>1. /\ r.pc = "recheck" /\ r.pc \in ReleaseRunning
      /\ UNCHANGED <<sourceLog, decisionLog, tables, start>>
  BY DEF RecheckDecision, ReleaseRunning
<1>2. UNCHANGED <<sourceLog, decisionLog, selections, artifacts, start>>
  BY <1>1 DEF tables
<1>3. CASE Judge(c, "decision_superseded")
  BY <1>1, <1>3, JudgeKeeps DEF Currentness
<1>4. CASE Len(decisionLog[r.subject]) = r.supporting /\ ReleaseGoto(c, "source")
  <2>1. ReleaseBecomes(c, "source", r.supporting, r.row, r.made, r.outcome)
    BY <1>1, <1>4, ReleaseRuns, ReleaseGoes DEF ReleaseRunning
  <2>2. ReleaseShape(c)'
    BY <2>1, <1>1, ReleaseRuns
       DEF ReleaseBecomes, ReleaseShape, Reporting, ReleaseRunning, ExportPlaces, SelectPlaces
  <2>3. ReleaseRelies(c)'
    BY <2>1, <1>1, <1>2, <1>4, ReleaseRuns DEF ReleaseBecomes, ReleaseRelies, ReleaseStarted
  <2>4. ReleaseSourced(c)'
    BY <2>1, <1>1, <1>2, ReleaseRuns
       DEF ReleaseBecomes, ReleaseSourced, Passed, Effective!CurrentlyHolds, IntakeFor
  <2>5. ReleaseChose(c)'
    BY <2>1, <1>1, <1>2, ReleaseRuns DEF ReleaseBecomes, ReleaseChose, TargetFor
  <2>6. ReleaseMade(c)'
    BY <2>1, <1>1, <1>2, ReleaseRuns DEF ReleaseBecomes, ReleaseMade
  <2> QED
    BY <2>1, <2>2, <2>3, <2>4, <2>5, <2>6, <1>1, ReleaseRuns, ReleaseMoves
<1> QED
  BY <1>3, <1>4 DEF RecheckDecision

LEMMA ReadSourceKeeps ==
    ASSUME ReleaseInv, NEW c \in ReleaseCommand, ReadSource(c)
    PROVE  ReleaseInv'
<1>1. /\ release[c].pc \in {"source", "disturbed"} /\ release[c].pc \in ReleaseRunning
      /\ UNCHANGED <<sourceLog, decisionLog, tables, start>>
  BY DEF ReadSource, ReleaseRunning
<1>2. PICK verdict \in Verdicts(c) : Judge(c, verdict)
  BY DEF ReadSource
<1>3. verdict \in Currentness
  BY DEF Verdicts, Currentness
<1>4. verdict = "current" =>
          (Len(sourceLog[IntakeFor(c)]) = start[c].source =>
             Effective!CurrentlyHolds(IntakeFor(c), SourceOf[release[c].subject]))
  <2>1. CASE release[c].pc = "disturbed"
    <3>1. Len(sourceLog[IntakeFor(c)]) > start[c].source /\ start[c].source \in Nat
      BY <1>1, <2>1, ReleaseRuns DEF ReleaseSourced
    <3>2. Len(sourceLog[IntakeFor(c)]) \in Nat
      BY <1>1, ReleaseRuns, LengthsAreNatural
    <3> QED
      BY <3>1, <3>2
  <2>2. CASE release[c].pc # "disturbed"
    BY <2>2 DEF Verdicts, IntakeFor
  <2> QED
    BY <2>1, <2>2
<1> QED
  BY <1>1, <1>2, <1>3, <1>4, JudgeKeeps

LEMMA ReleaseFailsKeeps ==
    ASSUME ReleaseInv, NEW c \in ReleaseCommand, ReleaseFails(c)
    PROVE  ReleaseInv'
BY ReleaseLeavesKeeps DEF ReleaseFails

LEMMA KillReleaseKeeps ==
    ASSUME ReleaseInv, NEW c \in ReleaseCommand, KillRelease(c)
    PROVE  ReleaseInv'
BY ReleaseLeavesKeeps DEF KillRelease

-----------------------------------------------------------------------------
(* select_final(). *)

LEMMA SelectFinalKeeps ==
    ASSUME ReleaseInv, NEW c \in ReleaseCommand, NEW s \in Subject, NEW note \in Selector,
           SelectFinal(c, s, note)
    PROVE  ReleaseInv'
<1>1. /\ ReleaseTypeInv /\ release[c] = NotReleasing
      /\ release \in [ReleaseCommand -> ReleaseState]
      /\ start \in [ReleaseCommand -> Moment \union {<<>>}]
      /\ UNCHANGED <<sourceLog, decisionLog, tables>>
      /\ UNCHANGED <<sourceLog, decisionLog, selections, artifacts>>
  BY DEF SelectFinal, ReleaseInv, ReleaseTypeInv, ReleaseCallInv, ReleaseShape, tables
<1>2. PICK moment : moment = Lengths(s)
  OBVIOUS
<1>3. /\ moment \in Moment
      /\ moment.source = Len(sourceLog[IntakeOf[s]])
      /\ moment.decision = Len(decisionLog[s])
      /\ moment.selection = Height(selections, IntakeOf[s])
  BY <1>1, <1>2, LengthsAreNatural, ReleaseLineageAssumption DEF Lengths, Moment
<1>4. start' = [start EXCEPT ![c] = moment]
  BY <1>2 DEF SelectFinal
<1>5. /\ start' \in [ReleaseCommand -> Moment \union {<<>>}]
      /\ start'[c] = moment
      /\ \A d \in ReleaseCommand \ {c} : start'[d] = start[d]
  BY <1>1, <1>3, <1>4
<1>6. release'[c] =
        [pc |-> "decision", op |-> "select", subject |-> s, note |-> note,
         supporting |-> 0, row |-> NoRow, made |-> None, outcome |-> None]
  <2>1. release'[c] = [NotReleasing EXCEPT !.pc = "decision", !.op = "select",
                                           !.subject = s, !.note = note]
    BY <1>1 DEF SelectFinal
  <2> QED
    BY <2>1 DEF NotReleasing
<1>7. release'[c] \in ReleaseState
  BY <1>6 DEF ReleaseState, ReleaseRunning, MaybeSelection
<1>8. /\ release' \in [ReleaseCommand -> ReleaseState]
      /\ \A d \in ReleaseCommand \ {c} : release'[d] = release[d]
  BY <1>1, <1>7 DEF SelectFinal
<1>9. /\ None \notin Selected \union {"conflict"} /\ None # "converged" /\ None # "created"
      /\ s # None
  BY ReleaseNoneAssumption DEF ReleaseOutcomes, Selected
<1>10. ReleaseShape(c)'
  BY <1>6, <1>9 DEF ReleaseShape, Reporting, ReleaseRunning, SelectPlaces
<1>11. ReleaseStarted(c)'
  <2>1. /\ Len(sourceLog[IntakeOf[s]]) \in Nat /\ Len(decisionLog[s]) \in Nat
        /\ Height(selections, IntakeOf[s]) \in Nat
    BY <1>1, LengthsAreNatural, ReleaseLineageAssumption
  <2> QED
    BY <1>1, <1>3, <1>5, <1>6, <2>1 DEF ReleaseStarted, IntakeFor
<1>12. ~Passed(c)' /\ ~Supported(c)'
  BY <1>6, <1>9 DEF Passed, Supported
<1>13. ReleaseRelies(c)' /\ ReleaseSourced(c)' /\ ReleaseMade(c)'
  BY <1>6, <1>12 DEF ReleaseRelies, ReleaseSourced, ReleaseMade
<1>14. ReleaseChose(c)'
  BY <1>6, <1>9 DEF ReleaseChose
<1>15. ReleaseCallInv(c)'
  BY <1>10, <1>11, <1>13, <1>14 DEF ReleaseCallInv
<1>16. release'[c].made # "created"
  BY <1>6, <1>9
<1> QED
  BY <1>1, <1>5, <1>8, <1>15, <1>16, ReleaseLocal

\* The decision that is current now is the one a selection rests on.
LEMMA ReadDecisionKeeps ==
    ASSUME ReleaseInv, NEW c \in ReleaseCommand, ReadDecision(c)
    PROVE  ReleaseInv'
<1> DEFINE r == release[c]
           s == r.subject
           last == Len(decisionLog[s])
<1>1. /\ r.pc = "decision" /\ r.pc \in ReleaseRunning
      /\ UNCHANGED <<sourceLog, decisionLog, tables, start>>
  BY DEF ReadDecision, ReleaseRunning
<1>2. UNCHANGED <<sourceLog, decisionLog, selections, artifacts, start>>
  BY <1>1 DEF tables
<1>3. CASE ReleaseLeave(c, "returned", "not_eligible")
  BY <1>1, <1>3, ReleaseLeavesKeeps
<1>4. CASE /\ Decision!CurrentlyHolds(s, "accept")
           /\ release' = [release EXCEPT ![c].pc = "recheck", ![c].supporting = last]
  <2>1. /\ s \in Subject /\ decisionLog[s] \in Seq(DecisionKind) /\ last \in Nat
        /\ r.op = "select" /\ r.made = None /\ r.note \in Selector /\ r.outcome = None
    BY <1>1, ReleaseRuns, LengthsAreNatural
       DEF ReleaseTypeInv, ReleaseShape, SelectPlaces, ExportPlaces
  <2>2. last \in DOMAIN decisionLog[s] /\ decisionLog[s][last] = "accept"
    BY <1>4, <2>1 DEF Decision!CurrentlyHolds
  <2>3. PICK n \in Nat : n = last
    BY <2>1
  <2>4. release' = [release EXCEPT ![c].pc = "recheck", ![c].supporting = n,
                       ![c].row = r.row, ![c].made = r.made, ![c].outcome = r.outcome]
    BY <1>1, <1>4, <2>3, ReleaseRuns, ReleaseFields DEF ReleaseState
  <2>5. ReleaseBecomes(c, "recheck", n, r.row, r.made, r.outcome)
    <3> HIDE <1>4
    <3>1. ReleaseTypeInv
      BY <1>1, ReleaseRuns
    <3>2. /\ r.row \in MaybeSelection /\ r.made \in {"created", "reused", None}
          /\ r.outcome \in ReleaseOutcomes \union {None}
      BY <3>1, ReleaseFields
    <3> QED
      BY <2>4, <3>1, <3>2, ReleaseSet DEF ReleaseRunning
  <2>6. ReleaseShape(c)'
    BY <2>1, <2>5, <1>1, ReleaseRuns
       DEF ReleaseBecomes, ReleaseShape, Reporting, ReleaseRunning, SelectPlaces
  <2>7. ReleaseRelies(c)'
    BY <2>2, <2>3, <2>5, <1>1, <1>2, ReleaseRuns
       DEF ReleaseBecomes, ReleaseRelies, ReleaseStarted
  <2>8. ~Passed(c)'
    BY <2>1, <2>5, <1>1, ReleaseRuns DEF ReleaseBecomes, Passed
  <2>9. ReleaseSourced(c)'
    BY <2>5, <2>8 DEF ReleaseBecomes, ReleaseSourced
  <2>10. ReleaseChose(c)' /\ ReleaseMade(c)'
    BY <2>1, <2>5, <1>1, ReleaseRuns DEF ReleaseBecomes, ReleaseChose, ReleaseMade
  <2> QED
    BY <2>1, <2>5, <2>6, <2>7, <2>9, <2>10, <1>1, ReleaseRuns, ReleaseMoves
<1> QED
  BY <1>3, <1>4 DEF ReadDecision

LEMMA SelectionAnswerType ==
    ASSUME ReleaseTypeInv, NEW i
    PROVE  CurrentAnswers(selections, i) \subseteq MaybeSelection
BY DEF ReleaseTypeInv, CurrentAnswers, Newest, RowsOf, MaybeSelection

\* What is current is at least as recent as the call, so it may be reused as
\* it is, or superseded.
LEMMA ReadCurrentSelectionKeeps ==
    ASSUME ReleaseInv, NEW c \in ReleaseCommand, ReadCurrentSelection(c)
    PROVE  ReleaseInv'
<1> DEFINE r == release[c]
           i == IntakeFor(c)
           target == TargetFor(c)
<1>1. /\ r.pc = "current" /\ r.pc \in ReleaseRunning
      /\ UNCHANGED <<sourceLog, decisionLog, tables, start>>
  BY DEF ReadCurrentSelection, ReleaseRunning
<1>2. UNCHANGED <<sourceLog, decisionLog, selections, artifacts, start>>
  BY <1>1 DEF tables
<1>3. PICK current \in CurrentAnswers(selections, i) :
          release' = [release EXCEPT
              ![c].row = current,
              ![c].pc = IF current.target = target THEN "returned" ELSE "persist",
              ![c].outcome = IF current.target = target THEN "reused" ELSE None]
  BY DEF ReadCurrentSelection
<1>4. PICK pc \in {"returned", "persist"}, result \in {"reused", None} :
          /\ pc = IF current.target = target THEN "returned" ELSE "persist"
          /\ result = IF current.target = target THEN "reused" ELSE None
  OBVIOUS
<1>5. release' = [release EXCEPT ![c].pc = pc, ![c].row = current, ![c].outcome = result]
  BY <1>1, <1>3, <1>4, ReleaseRuns, ReleaseFields DEF ReleaseState
<1>6. /\ current \in MaybeSelection
      /\ current.sequence + 1 = Height(selections, i)
      /\ current # NoRow => current \in selections /\ current.scope = i
  BY <1>1, SelectionAnswerType, CurrentIsLast, ReleaseRuns DEF ReleaseTableInv, ReleaseTypeInv
<1>7. ReleaseBecomes(c, pc, r.supporting, current, r.made, result)
  <2> HIDE <1>3
  <2> QED
    BY <1>1, <1>5, <1>6, ReleaseRuns, ReleaseReads DEF ReleaseRunning, ReleaseOutcomes, Selected
<1>8. /\ r.op = "select" /\ r.made = None /\ r.note \in Selector /\ Passed(c) /\ Supported(c)
      /\ target \in SelectionTarget /\ target # None
  <2>1. r.op = "select" /\ r.made = None /\ r.note \in Selector /\ Passed(c) /\ Supported(c)
    BY <1>1, ReleaseRuns DEF ReleaseShape, ExportPlaces, Passed, Supported
  <2>2. /\ decisionLog[r.subject] \in Seq(DecisionKind)
        /\ r.supporting \in DOMAIN decisionLog[r.subject]
    BY <1>1, ReleaseRuns DEF ReleaseRelies, ReleaseTypeInv
  <2>3. r.supporting \in Nat \ {0}
    BY <2>2
  <2> QED
    BY <2>1, <2>3, <1>1, ReleaseRuns, ReleaseNoneAssumption DEF TargetFor, SelectionTarget
<1>9. current.target = target => current # NoRow
  BY <1>8 DEF NoRow
<1>10. current.target # target => Usable(selections, current, i, target)
  BY <1>1, <1>8, ReleaseRuns, FreshReadIsUsable DEF ReleaseTableInv, ReleaseTypeInv
<1>11. current.sequence + 1 >= start[c].selection
  <2>1. start[c].selection <= Height(selections, i)
    BY <1>1, ReleaseRuns DEF ReleaseStarted
  <2>2. Height(selections, i) \in Nat /\ start[c].selection \in Nat
    BY <1>1, ReleaseRuns, LengthsAreNatural
  <2> QED
    BY <1>6, <2>1, <2>2
<1>12. TargetFor(c)' = target /\ IntakeFor(c)' = i
  BY <1>7 DEF ReleaseBecomes, TargetFor, IntakeFor
<1>13. ReleaseShape(c)'
  BY <1>1, <1>4, <1>7, <1>8, ReleaseRuns
     DEF ReleaseBecomes, ReleaseShape, Reporting, ReleaseRunning, SelectPlaces
<1>14. ReleaseRelies(c)'
  BY <1>1, <1>2, <1>7, <1>8, ReleaseRuns DEF ReleaseBecomes, ReleaseRelies
<1>15. ReleaseSourced(c)'
  BY <1>1, <1>2, <1>4, <1>7, <1>8, ReleaseRuns
     DEF ReleaseBecomes, ReleaseSourced, Effective!CurrentlyHolds, IntakeFor
<1>16. ReleaseChose(c)'
  BY <1>1, <1>2, <1>4, <1>6, <1>7, <1>8, <1>9, <1>10, <1>11, <1>12, ReleaseRuns
     DEF ReleaseBecomes, ReleaseChose
<1>17. ReleaseMade(c)'
  BY <1>1, <1>2, <1>4, <1>7, <1>8 DEF ReleaseBecomes, ReleaseMade
<1> QED
  BY <1>1, <1>7, <1>8, <1>13, <1>14, <1>15, <1>16, <1>17, ReleaseRuns, ReleaseMoves

LEMMA SelectionCollidesKeeps ==
    ASSUME ReleaseInv, NEW c \in ReleaseCommand, SelectionCollides(c)
    PROVE  ReleaseInv'
<1> DEFINE r == release[c]
<1>1. /\ r.pc = "persist" /\ r.pc \in ReleaseRunning /\ r.op = "select"
      /\ ReleaseGoto(c, "resolve")
      /\ UNCHANGED <<sourceLog, decisionLog, tables, start>>
  BY DEF SelectionCollides, Selecting, ReleaseRunning
<1>2. UNCHANGED <<sourceLog, decisionLog, selections, artifacts, start>>
  BY <1>1 DEF tables
<1>3. SlotTaken(selections, NewSelection(c))
  BY DEF SelectionCollides, IdentityExists, SlotTaken, Identity
<1>4. ReleaseBecomes(c, "resolve", r.supporting, r.row, r.made, r.outcome)
  BY <1>1, ReleaseRuns, ReleaseGoes DEF ReleaseRunning
<1>5. Passed(c) /\ Supported(c)
  BY <1>1 DEF Passed, Supported
<1>6. /\ NewSelection(c)' = NewSelection(c) /\ IntakeFor(c)' = IntakeFor(c)
      /\ TargetFor(c)' = TargetFor(c)
  BY <1>4 DEF ReleaseBecomes, NewSelection, IntakeFor, TargetFor
<1>7. ReleaseShape(c)'
  BY <1>1, <1>4, ReleaseRuns
     DEF ReleaseBecomes, ReleaseShape, Reporting, ReleaseRunning, SelectPlaces
<1>8. ReleaseRelies(c)'
  BY <1>1, <1>2, <1>4, <1>5, ReleaseRuns DEF ReleaseBecomes, ReleaseRelies
<1>9. ReleaseSourced(c)'
  BY <1>1, <1>2, <1>4, <1>5, ReleaseRuns
     DEF ReleaseBecomes, ReleaseSourced, Effective!CurrentlyHolds, IntakeFor
<1>10. SlotTaken(selections, NewSelection(c))'
  BY <1>2, <1>3, <1>6 DEF SlotTaken
<1>11. ReleaseChose(c)'
  BY <1>1, <1>2, <1>4, <1>6, <1>10, ReleaseRuns DEF ReleaseBecomes, ReleaseChose
<1>12. ReleaseMade(c)'
  BY <1>1, <1>2, <1>4, ReleaseRuns DEF ReleaseBecomes, ReleaseMade
<1> QED
  BY <1>1, <1>4, <1>7, <1>8, <1>9, <1>11, <1>12, ReleaseRuns, ReleaseMoves

\* The place the command wanted is taken, so what is current now was recorded
\* after what it had read, and thus after it was called.
LEMMA ResolveSelectionKeeps ==
    ASSUME ReleaseInv, NEW c \in ReleaseCommand, ResolveSelection(c)
    PROVE  ReleaseInv'
<1> DEFINE r == release[c]
           i == IntakeFor(c)
<1>1. /\ r.pc = "resolve" /\ r.pc \in ReleaseRunning
      /\ UNCHANGED <<sourceLog, decisionLog, tables, start>>
  BY DEF ResolveSelection, ReleaseRunning
<1>2. UNCHANGED <<sourceLog, decisionLog, selections, artifacts, start>>
  BY <1>1 DEF tables
<1>3. PICK current \in CurrentAnswers(selections, i) :
          release' = [release EXCEPT
              ![c].pc = "returned", ![c].row = current,
              ![c].outcome = IF SelectionConverges(c, current) THEN "converged" ELSE "conflict"]
  BY DEF ResolveSelection
<1>4. PICK result \in {"converged", "conflict"} :
          result = IF SelectionConverges(c, current) THEN "converged" ELSE "conflict"
  OBVIOUS
<1>5. release' = [release EXCEPT ![c].pc = "returned", ![c].row = current,
                                 ![c].outcome = result]
  BY <1>3, <1>4
<1>6. /\ current \in MaybeSelection
      /\ current.sequence + 1 = Height(selections, i)
      /\ current # NoRow => current \in selections /\ current.scope = i
  BY <1>1, SelectionAnswerType, CurrentIsLast, ReleaseRuns DEF ReleaseTableInv, ReleaseTypeInv
<1>7. ReleaseBecomes(c, "returned", r.supporting, current, r.made, result)
  <2> HIDE <1>3
  <2> QED
    BY <1>1, <1>5, <1>6, ReleaseRuns, ReleaseReads DEF ReleaseRunning, ReleaseOutcomes, Selected
<1>8. /\ r.op = "select" /\ r.made = None /\ r.note \in Selector /\ Passed(c) /\ Supported(c)
      /\ SlotTaken(selections, NewSelection(c))
      /\ r.row.sequence + 1 >= start[c].selection
      /\ r.row \in MaybeSelection
  BY <1>1, ReleaseRuns, ReleaseFields
     DEF ReleaseShape, ExportPlaces, Passed, Supported, ReleaseChose
<1>9. PICK old \in selections : old.scope = i /\ old.sequence = r.row.sequence + 1
  BY <1>8 DEF SlotTaken, NewSelection, Successor
<1>10. old.sequence \in 0 .. Height(selections, i) - 1
  BY <1>1, <1>9, ReleaseRuns DEF ReleaseTableInv, Contiguous, RowsOf
<1>11. current \in RowsOf(selections, i) /\ current.sequence >= start[c].selection
  <2>1. Height(selections, i) \in Nat /\ start[c].selection \in Nat
    BY <1>1, ReleaseRuns, LengthsAreNatural
  <2>2. current.sequence \in Int /\ r.row.sequence \in Int
    BY <1>6, <1>8 DEF MaybeSelection, SelectionRow, NoRow
  <2>3. current.sequence >= r.row.sequence + 1 /\ current.sequence >= 0
    BY <1>6, <1>9, <1>10, <2>1, <2>2
  <2>4. current # NoRow
    BY <2>3 DEF NoRow
  <2> QED
    BY <1>6, <1>8, <2>1, <2>2, <2>3, <2>4 DEF RowsOf
<1>12. TargetFor(c)' = TargetFor(c) /\ IntakeFor(c)' = i
  BY <1>7 DEF ReleaseBecomes, TargetFor, IntakeFor
<1>13. ReleaseShape(c)'
  BY <1>1, <1>7, <1>8, ReleaseRuns
     DEF ReleaseBecomes, ReleaseShape, Reporting, ReleaseRunning, SelectPlaces
<1>14. ReleaseRelies(c)'
  BY <1>1, <1>2, <1>7, <1>8, ReleaseRuns DEF ReleaseBecomes, ReleaseRelies
<1>15. ReleaseSourced(c)'
  BY <1>1, <1>2, <1>7, <1>8, ReleaseRuns
     DEF ReleaseBecomes, ReleaseSourced, Effective!CurrentlyHolds, IntakeFor
<1>16. result = "conflict" => Outrun(c)'
  <2> SUFFICES ASSUME result = "conflict" PROVE Outrun(c)'
    OBVIOUS
  <2>1. <<current.target, current.note>> # <<TargetFor(c), r.note>>
    BY <1>4 DEF SelectionConverges
  <2> QED
    BY <1>2, <1>7, <1>11, <1>12, <2>1 DEF Outrun, ReleaseBecomes
<1>17. result = "converged" => Seconded(c)'
  <2>1. result = "converged" => current.target = TargetFor(c) /\ current.note = r.note
    BY <1>4 DEF SelectionConverges
  <2> QED
    BY <1>2, <1>7, <1>11, <1>12, <2>1 DEF Seconded, ReleaseBecomes
<1>18. current \in selections /\ current.sequence + 1 >= start[c].selection
  <2>1. start[c].selection \in Nat /\ current.sequence \in Int
    BY <1>1, <1>6, ReleaseRuns DEF MaybeSelection, SelectionRow, NoRow
  <2> QED
    BY <1>11, <2>1 DEF RowsOf
<1>19. ReleaseChose(c)'
  BY <1>1, <1>2, <1>7, <1>8, <1>16, <1>17, <1>18 DEF ReleaseBecomes, ReleaseChose
<1>20. ReleaseMade(c)'
  BY <1>1, <1>7, <1>8 DEF ReleaseBecomes, ReleaseMade
<1> QED
  BY <1>1, <1>7, <1>8, <1>13, <1>14, <1>15, <1>19, <1>20, ReleaseRuns, ReleaseMoves

\* The insert takes the top of the intake's history, for an accepted subject.
LEMMA PersistSelectionKeeps ==
    ASSUME ReleaseInv, NEW c \in ReleaseCommand, PersistSelection(c)
    PROVE  ReleaseInv'
<1> DEFINE r == release[c]
           i == IntakeFor(c)
           target == TargetFor(c)
<1>1. PICK new : new = NewSelection(c)
  OBVIOUS
<1>2. PICK result \in {"recorded", "changed"} :
          result = IF r.row = NoRow THEN "recorded" ELSE "changed"
  OBVIOUS
<1>3. /\ r.pc = "persist" /\ r.op = "select" /\ r.pc \in ReleaseRunning
      /\ ~SlotTaken(selections, new)
      /\ selections' = selections \union {new}
      /\ release' = [release EXCEPT ![c].pc = "returned", ![c].row = new,
                                    ![c].outcome = result]
      /\ UNCHANGED <<sourceLog, decisionLog, artifacts, start>>
  BY <1>1, <1>2 DEF PersistSelection, Selecting, ReleaseRunning
<1>4. /\ r.row \in MaybeSelection /\ r.made = None /\ r.note \in Selector
      /\ Passed(c) /\ Supported(c)
      /\ Usable(selections, r.row, i, target)
      /\ r.row.sequence + 1 >= start[c].selection
      /\ i \in Intake /\ r.subject \in Subject
      /\ r.supporting \in DOMAIN decisionLog[r.subject]
      /\ decisionLog[r.subject][r.supporting] = "accept"
  BY <1>3, ReleaseRuns, ReleaseFields
     DEF ReleaseShape, Passed, Supported, ReleaseChose, ReleaseRelies
<1>5. target \in SelectionTarget
  <2>1. decisionLog[r.subject] \in Seq(DecisionKind)
    BY <1>3, <1>4, ReleaseRuns DEF ReleaseTypeInv
  <2>2. r.supporting \in Nat \ {0}
    BY <1>4, <2>1
  <2> QED
    BY <1>4, <2>2 DEF TargetFor, SelectionTarget
<1>6. new = Successor(r.row, i, target, r.note)
  BY <1>1 DEF NewSelection
<1>7. /\ new.scope = i /\ new.target = target /\ new.note = r.note
      /\ new.sequence \in Nat /\ new.sequence = r.row.sequence + 1
      /\ History(selections') /\ Contiguous(selections', i)
      /\ \A other : other # i =>
           (Contiguous(selections, other) => Contiguous(selections', other))
  <2>1. History(selections) /\ Contiguous(selections, i)
    BY <1>3, <1>4, ReleaseRuns DEF ReleaseTableInv
  <2>2. Usable(selections, r.row, i, target) /\ ~SlotTaken(selections, new)
    BY <1>3, <1>4
  <2>3. selections' = selections \union {new}
    BY <1>3
  <2>4. /\ new.scope = i /\ new.target = target /\ new.note = r.note
        /\ new.sequence = r.row.sequence + 1
    BY <1>6 DEF Successor
  <2>5. /\ History(selections \union {new}) /\ new.sequence \in Nat
        /\ Contiguous(selections \union {new}, i)
        /\ \A other : other # i =>
             (Contiguous(selections, other) => Contiguous(selections \union {new}, other))
    <3>1. PICK row, note, scope, wanted :
              row = r.row /\ note = r.note /\ scope = i /\ wanted = target
      OBVIOUS
    <3>2. /\ new = Successor(row, scope, wanted, note)
          /\ History(selections) /\ Contiguous(selections, scope)
          /\ Usable(selections, row, scope, wanted) /\ ~SlotTaken(selections, new)
      BY <1>6, <2>1, <2>2, <3>1
    <3>3. /\ History(selections \union {new}) /\ new.sequence \in Nat
          /\ Contiguous(selections \union {new}, scope)
          /\ \A other : other # scope =>
               (Contiguous(selections, other) => Contiguous(selections \union {new}, other))
      BY <3>2, AppendKeepsTable
    <3> QED
      BY <3>1, <3>3
  <2> QED
    BY <2>3, <2>4, <2>5
<1>8. new \in SelectionRow
  <2>1. (IF r.row = NoRow THEN NoIdentity ELSE Identity(r.row))
            \in {NoIdentity} \union (Intake \X SelectionTarget \X Nat)
    BY <1>4 DEF MaybeSelection, SelectionRow, Identity
  <2>2. r.row.sequence + 1 \in Nat
    BY <1>7
  <2> QED
    BY <1>4, <1>5, <1>6, <2>1, <2>2 DEF Successor, SelectionRow
<1>9. ReleaseBecomes(c, "returned", r.supporting, new, r.made, result)
  BY <1>3, <1>8, ReleaseRuns, ReleaseReads DEF MaybeSelection, ReleaseOutcomes, Selected
<1>10. ReleaseTypeInv'
  <2>1. IsFiniteSet(selections')
    BY <1>7 DEF History
  <2> QED
    BY <1>3, <1>8, <1>9, <2>1, ReleaseRuns DEF ReleaseTypeInv, ReleaseBecomes
<1>11. HistoriesGrow
  BY <1>3, <1>10, ReleaseRuns DEF HistoriesGrow, ReleaseTypeInv
<1>12. ReleaseTableInv'
  <2>1. History(selections') /\ \A k \in Intake : Contiguous(selections', k)
    BY <1>3, <1>7, ReleaseRuns DEF ReleaseTableInv
  <2>2. new.target[1] = r.subject /\ new.target[2] = r.supporting
    BY <1>7 DEF TargetFor
  <2>3. SelectionComplaints' = {}
    BY <1>3, <1>4, <1>7, <2>2, ReleaseRuns DEF ReleaseTableInv, SelectionComplaints, IntakeFor
  <2>4. ArtifactComplaints' = {}
    BY <1>3, ReleaseRuns DEF ReleaseTableInv, ArtifactComplaints
  <2> QED
    BY <2>1, <2>3, <2>4 DEF ReleaseTableInv
<1>13. TargetFor(c)' = target /\ IntakeFor(c)' = i
  BY <1>9 DEF ReleaseBecomes, TargetFor, IntakeFor
<1>14. ReleaseShape(c)'
  BY <1>3, <1>4, <1>9, ReleaseRuns
     DEF ReleaseBecomes, ReleaseShape, Reporting, ReleaseRunning, SelectPlaces
<1>15. ReleaseStarted(c)'
  <2>1. /\ Height(selections, i) \in Nat /\ Height(selections', i) \in Nat
        /\ Height(selections, i) <= Height(selections', i)
    BY <1>3, <1>10, HeightGrows DEF ReleaseTypeInv
  <2>2. /\ start[c] \in Moment /\ start[c].selection <= Height(selections, i)
        /\ start[c].selection \in Nat
    BY <1>3, ReleaseRuns DEF ReleaseStarted
  <2>3. start[c].selection <= Height(selections', i)
    BY <2>1, <2>2
  <2> QED
    BY <1>3, <1>9, <1>13, <2>2, <2>3, ReleaseRuns DEF ReleaseStarted, ReleaseBecomes
<1>16. ReleaseRelies(c)'
  BY <1>3, <1>4, <1>9, ReleaseRuns DEF ReleaseBecomes, ReleaseRelies
<1>17. ReleaseSourced(c)'
  BY <1>3, <1>4, <1>9, <1>13, ReleaseRuns
     DEF ReleaseBecomes, ReleaseSourced, Effective!CurrentlyHolds
<1>18. ReleaseChose(c)'
  <2>1. new.sequence + 1 >= start[c].selection /\ new \in selections'
    BY <1>3, <1>4, <1>7, ReleaseRuns
  <2> QED
    BY <1>3, <1>9, <2>1 DEF ReleaseBecomes, ReleaseChose
<1>19. ReleaseMade(c)'
  BY <1>3, <1>4, <1>9 DEF ReleaseBecomes, ReleaseMade
<1>20. ReleaseCallInv(c)'
  BY <1>14, <1>15, <1>16, <1>17, <1>18, <1>19 DEF ReleaseCallInv
<1>21. ASSUME NEW d \in ReleaseCommand \ {c} PROVE ReleaseCallInv(d)'
  BY <1>3, <1>9, <1>10, <1>11, ReleaseKept DEF ReleaseBecomes, ReleaseInv
<1>22. CreatorsDiffer'
  <2>1. \A d \in ReleaseCommand : release'[d].made = "created" =>
            release[d].made = "created" /\ release'[d].row = release[d].row
    BY <1>3, <1>4, <1>9, ReleaseRuns DEF ReleaseBecomes
  <2> QED
    BY <2>1 DEF ReleaseInv, CreatorsDiffer, Created
<1> QED
  BY <1>10, <1>12, <1>20, <1>21, <1>22 DEF ReleaseInv

-----------------------------------------------------------------------------
(* generate_srt_artifact(). *)

LEMMA GenerateArtifactKeeps ==
    ASSUME ReleaseInv, NEW c \in ReleaseCommand, NEW row \in selections,
           GenerateArtifact(c, row)
    PROVE  ReleaseInv'
<1> DEFINE s == row.target[1]
           n == row.target[2]
<1>1. /\ ReleaseTypeInv /\ ReleaseTableInv /\ release[c] = NotReleasing
      /\ release \in [ReleaseCommand -> ReleaseState]
      /\ start \in [ReleaseCommand -> Moment \union {<<>>}]
      /\ UNCHANGED <<sourceLog, decisionLog, tables>>
      /\ UNCHANGED <<sourceLog, decisionLog, selections, artifacts>>
  BY DEF GenerateArtifact, ReleaseInv, ReleaseTypeInv, ReleaseCallInv, ReleaseShape, tables
<1>2. /\ row \in SelectionRow /\ row.target \in SelectionTarget
      /\ s \in Subject /\ n \in Nat /\ row.target = <<s, n>>
  BY <1>1 DEF ReleaseTypeInv, SelectionRow, SelectionTarget
<1>3. n \in DOMAIN decisionLog[s] /\ decisionLog[s][n] = "accept"
  BY <1>1 DEF ReleaseTableInv, SelectionComplaints
<1>4. PICK moment : moment = Lengths(s)
  OBVIOUS
<1>5. /\ moment \in Moment
      /\ moment.source = Len(sourceLog[IntakeOf[s]])
      /\ moment.decision = Len(decisionLog[s])
      /\ moment.selection = Height(selections, IntakeOf[s])
  BY <1>1, <1>2, <1>4, LengthsAreNatural, ReleaseLineageAssumption DEF Lengths, Moment
<1>6. start' = [start EXCEPT ![c] = moment]
  BY <1>4 DEF GenerateArtifact
<1>7. /\ start' \in [ReleaseCommand -> Moment \union {<<>>}]
      /\ start'[c] = moment
      /\ \A d \in ReleaseCommand \ {c} : start'[d] = start[d]
  BY <1>1, <1>5, <1>6
<1>8. release'[c] =
        [pc |-> "head", op |-> "export", subject |-> s, note |-> None,
         supporting |-> n, row |-> row, made |-> None, outcome |-> None]
  <2>1. release'[c] = [NotReleasing EXCEPT !.pc = "head", !.op = "export", !.subject = s,
                                           !.supporting = n, !.row = row]
    BY <1>1 DEF GenerateArtifact
  <2> QED
    BY <2>1 DEF NotReleasing
<1>9. release'[c] \in ReleaseState
  BY <1>2, <1>8 DEF ReleaseState, ReleaseRunning, MaybeSelection
<1>10. /\ release' \in [ReleaseCommand -> ReleaseState]
       /\ \A d \in ReleaseCommand \ {c} : release'[d] = release[d]
  BY <1>1, <1>9 DEF GenerateArtifact
<1>11. /\ None \notin Selected \union {"conflict"} /\ None # "converged" /\ None # "created"
       /\ s # None
  BY <1>2, ReleaseNoneAssumption DEF ReleaseOutcomes, Selected
<1>12. ReleaseShape(c)'
  BY <1>8, <1>11 DEF ReleaseShape, Reporting, ReleaseRunning, ExportPlaces
<1>13. ReleaseStarted(c)'
  <2>1. /\ Len(sourceLog[IntakeOf[s]]) \in Nat /\ Len(decisionLog[s]) \in Nat
        /\ Height(selections, IntakeOf[s]) \in Nat
    BY <1>1, <1>2, LengthsAreNatural, ReleaseLineageAssumption
  <2> QED
    BY <1>1, <1>5, <1>7, <1>8, <2>1 DEF ReleaseStarted, IntakeFor
<1>14. ~Passed(c)' /\ ~Supported(c)'
  BY <1>8, <1>11 DEF Passed, Supported
<1>15. ReleaseRelies(c)' /\ ReleaseSourced(c)' /\ ReleaseMade(c)'
  BY <1>1, <1>3, <1>8, <1>14 DEF ReleaseRelies, ReleaseSourced, ReleaseMade
<1>16. ReleaseChose(c)'
  BY <1>1, <1>2, <1>8, <1>11 DEF ReleaseChose, TargetFor
<1>17. ReleaseCallInv(c)'
  BY <1>12, <1>13, <1>15, <1>16 DEF ReleaseCallInv
<1>18. release'[c].made # "created"
  BY <1>8, <1>11
<1> QED
  BY <1>1, <1>7, <1>10, <1>17, <1>18, ReleaseLocal

\* The head of the history at this moment was not superseded before the call.
LEMMA HeadIsRecent ==
    ASSUME ReleaseInv, NEW c \in ReleaseCommand, release[c].pc \in ReleaseRunning,
           release[c].row \in CurrentAnswers(selections, IntakeFor(c))
    PROVE  release[c].row.sequence + 1 >= start[c].selection
<1>1. release[c].row.sequence + 1 = Height(selections, IntakeFor(c))
  BY ReleaseRuns, CurrentIsLast DEF ReleaseTableInv, ReleaseTypeInv
<1>2. start[c].selection <= Height(selections, IntakeFor(c))
  BY ReleaseRuns DEF ReleaseStarted
<1>3. Height(selections, IntakeFor(c)) \in Nat /\ start[c].selection \in Nat
  BY ReleaseRuns, LengthsAreNatural
<1> QED
  BY <1>1, <1>2, <1>3

LEMMA ReadHeadKeeps ==
    ASSUME ReleaseInv, NEW c \in ReleaseCommand, ReadHead(c)
    PROVE  ReleaseInv'
<1> DEFINE r == release[c]
<1>1. /\ r.pc = "head" /\ r.pc \in ReleaseRunning
      /\ UNCHANGED <<sourceLog, decisionLog, tables, start>>
  BY DEF ReadHead, ReleaseRunning
<1>2. UNCHANGED <<sourceLog, decisionLog, selections, artifacts, start>>
  BY <1>1 DEF tables
<1>3. CASE ReleaseLeave(c, "returned", "not_eligible")
  BY <1>1, <1>3, ReleaseLeavesKeeps
<1>4. CASE /\ r.row \in CurrentAnswers(selections, IntakeFor(c))
           /\ ReleaseGoto(c, "applies")
  <2>1. ReleaseBecomes(c, "applies", r.supporting, r.row, r.made, r.outcome)
    BY <1>1, <1>4, ReleaseRuns, ReleaseGoes DEF ReleaseRunning
  <2>2. r.row.sequence + 1 >= start[c].selection /\ r.op = "export"
    BY <1>1, <1>4, HeadIsRecent, ReleaseRuns DEF ReleaseShape, SelectPlaces
  <2>3. ReleaseShape(c)'
    BY <2>1, <2>2, <1>1, ReleaseRuns
       DEF ReleaseBecomes, ReleaseShape, Reporting, ReleaseRunning, ExportPlaces
  <2>4. ReleaseRelies(c)'
    BY <2>1, <2>2, <1>1, <1>2, ReleaseRuns DEF ReleaseBecomes, ReleaseRelies, Supported, Passed
  <2>5. ReleaseSourced(c)'
    BY <2>1, <1>1, <1>2, ReleaseRuns
       DEF ReleaseBecomes, ReleaseSourced, Passed, Effective!CurrentlyHolds, IntakeFor
  <2>6. ReleaseChose(c)'
    BY <2>1, <2>2, <1>1, <1>2, ReleaseRuns DEF ReleaseBecomes, ReleaseChose, TargetFor
  <2>7. ReleaseMade(c)'
    BY <2>1, <1>1, <1>2, ReleaseRuns DEF ReleaseBecomes, ReleaseMade
  <2> QED
    BY <2>1, <2>3, <2>4, <2>5, <2>6, <2>7, <1>1, ReleaseRuns, ReleaseMoves
<1> QED
  BY <1>3, <1>4 DEF ReadHead

LEMMA ReadHeadAgainKeeps ==
    ASSUME ReleaseInv, NEW c \in ReleaseCommand, ReadHeadAgain(c)
    PROVE  ReleaseInv'
<1> DEFINE r == release[c]
<1>1. /\ r.pc = "applies" /\ r.pc \in ReleaseRunning
      /\ UNCHANGED <<sourceLog, decisionLog, tables, start>>
  BY DEF ReadHeadAgain, ReleaseRunning
<1>2. UNCHANGED <<sourceLog, decisionLog, selections, artifacts, start>>
  BY <1>1 DEF tables
<1>3. CASE Judge(c, "superseded")
  BY <1>1, <1>3, JudgeKeeps DEF Currentness
<1>4. CASE ReleaseGoto(c, "recheck")
  <2>1. ReleaseBecomes(c, "recheck", r.supporting, r.row, r.made, r.outcome)
    BY <1>1, <1>4, ReleaseRuns, ReleaseGoes DEF ReleaseRunning
  <2>2. r.op = "export"
    BY <1>1, ReleaseRuns DEF ReleaseShape, SelectPlaces
  <2>3. ReleaseShape(c)'
    BY <2>1, <2>2, <1>1, ReleaseRuns
       DEF ReleaseBecomes, ReleaseShape, Reporting, ReleaseRunning, ExportPlaces
  <2>4. ReleaseRelies(c)'
    BY <2>1, <2>2, <1>1, <1>2, ReleaseRuns DEF ReleaseBecomes, ReleaseRelies, Supported, Passed
  <2>5. ReleaseSourced(c)'
    BY <2>1, <1>1, <1>2, ReleaseRuns
       DEF ReleaseBecomes, ReleaseSourced, Passed, Effective!CurrentlyHolds, IntakeFor
  <2>6. ReleaseChose(c)'
    BY <2>1, <2>2, <1>1, <1>2, ReleaseRuns DEF ReleaseBecomes, ReleaseChose, TargetFor
  <2>7. ReleaseMade(c)'
    BY <2>1, <1>1, <1>2, ReleaseRuns DEF ReleaseBecomes, ReleaseMade
  <2> QED
    BY <2>1, <2>3, <2>4, <2>5, <2>6, <2>7, <1>1, ReleaseRuns, ReleaseMoves
<1> QED
  BY <1>3, <1>4 DEF ReadHeadAgain

\* An export that passed its gates goes on, with or without the artifact.
LEMMA ExportGoesOn ==
    ASSUME ReleaseInv, NEW c \in ReleaseCommand,
           release[c].pc \in {"lookup", "persist", "converge"}, release[c].op = "export",
           NEW pc \in {"persist", "converge", "applies"}, NEW made \in {"reused", None},
           ReleaseBecomes(c, pc, release[c].supporting, release[c].row, made, release[c].outcome),
           pc = "converge" \/ made # None => ArtifactOf(release[c].row) \in artifacts,
           pc = "applies" <=> made # None,
           UNCHANGED <<sourceLog, decisionLog, tables, start>>
    PROVE  ReleaseInv'
<1>1. release[c].pc \in ReleaseRunning
  BY DEF ReleaseRunning
<1>2. UNCHANGED <<sourceLog, decisionLog, selections, artifacts, start>>
  BY DEF tables
<1>3. Passed(c) /\ Supported(c)
  BY DEF Passed, Supported
<1>4. ReleaseShape(c)'
  BY <1>1, ReleaseRuns DEF ReleaseBecomes, ReleaseShape, Reporting, ReleaseRunning, ExportPlaces
<1>5. ReleaseRelies(c)'
  BY <1>1, <1>2, <1>3, ReleaseRuns DEF ReleaseBecomes, ReleaseRelies
<1>6. ReleaseSourced(c)'
  BY <1>1, <1>2, <1>3, ReleaseRuns
     DEF ReleaseBecomes, ReleaseSourced, Effective!CurrentlyHolds, IntakeFor
<1>7. ReleaseChose(c)'
  BY <1>1, <1>2, ReleaseRuns DEF ReleaseBecomes, ReleaseChose, TargetFor
<1>8. ReleaseMade(c)'
  BY <1>2 DEF ReleaseBecomes, ReleaseMade
<1> QED
  BY <1>1, <1>4, <1>5, <1>6, <1>7, <1>8, ReleaseRuns, ReleaseMoves

LEMMA LookupArtifactKeeps ==
    ASSUME ReleaseInv, NEW c \in ReleaseCommand, LookupArtifact(c)
    PROVE  ReleaseInv'
<1> DEFINE r == release[c]
<1>1. /\ r.pc = "lookup" /\ r.pc \in ReleaseRunning
      /\ UNCHANGED <<sourceLog, decisionLog, tables, start>>
  BY DEF LookupArtifact, ReleaseRunning
<1>2. r.op = "export" /\ ReleaseTypeInv /\ r.made = None /\ None # "reused"
  BY <1>1, ReleaseRuns DEF ReleaseShape, SelectPlaces, Reporting
<1>3. CASE ArtifactOf(r.row) \in artifacts /\ Report(c, "reused")
  BY <1>1, <1>2, <1>3, ReleaseReports, ReleaseRuns, ExportGoesOn
<1>4. CASE ReleaseGoto(c, "persist")
  BY <1>1, <1>2, <1>4, ReleaseGoes, ExportGoesOn DEF ReleaseRunning
<1> QED
  BY <1>3, <1>4 DEF LookupArtifact

\* Who lost the race for the replay anchor finds the winner's artifact: it is
\* of the same selection, hence of the same subject.
LEMMA ArtifactCollidesKeeps ==
    ASSUME ReleaseInv, NEW c \in ReleaseCommand, ArtifactCollides(c)
    PROVE  ReleaseInv'
<1> DEFINE r == release[c]
<1>1. /\ r.pc = "persist" /\ r.op = "export" /\ r.pc \in ReleaseRunning
      /\ ReleaseGoto(c, "converge")
      /\ UNCHANGED <<sourceLog, decisionLog, tables, start>>
  BY DEF ArtifactCollides, Exporting, ReleaseRunning
<1>2. ReleaseTypeInv /\ ReleaseTableInv /\ r.row \in selections /\ r.made = None
  BY <1>1, ReleaseRuns DEF ReleaseChose, ReleaseShape, Reporting
<1>3. PICK old \in artifacts : old.selection = Identity(r.row)
  BY DEF ArtifactCollides, ReplayAnchorTaken
<1>4. PICK row \in selections : Identity(row) = old.selection /\ row.target[1] = old.subject
  BY <1>2 DEF ReleaseTableInv, ArtifactComplaints
<1>5. row.target = r.row.target
  BY <1>3, <1>4 DEF Identity
<1>6. old = ArtifactOf(r.row)
  BY <1>2, <1>3, <1>4, <1>5 DEF ReleaseTypeInv, Artifact, ArtifactOf
<1> QED
  BY <1>1, <1>2, <1>6, ReleaseGoes, ExportGoesOn DEF ReleaseRunning

LEMMA ConvergeArtifactKeeps ==
    ASSUME ReleaseInv, NEW c \in ReleaseCommand, ConvergeArtifact(c)
    PROVE  ReleaseInv'
<1> DEFINE r == release[c]
<1>1. /\ r.pc = "converge" /\ r.pc \in ReleaseRunning
      /\ UNCHANGED <<sourceLog, decisionLog, tables, start>>
  BY DEF ConvergeArtifact, ReleaseRunning
<1>2. r.op = "export" /\ ArtifactOf(r.row) \in artifacts /\ ReleaseTypeInv
  BY <1>1, ReleaseRuns DEF ReleaseShape, SelectPlaces, ReleaseMade
<1>3. Report(c, "reused")
  BY <1>2 DEF ConvergeArtifact
<1> QED
  BY <1>1, <1>2, <1>3, ReleaseReports, ReleaseRuns, ExportGoesOn

\* Nobody has an artifact of the selection yet, so nobody else created it.
LEMMA PersistArtifactKeeps ==
    ASSUME ReleaseInv, NEW c \in ReleaseCommand, PersistArtifact(c)
    PROVE  ReleaseInv'
<1> DEFINE r == release[c]
           new == ArtifactOf(r.row)
<1>1. /\ r.pc = "persist" /\ r.op = "export" /\ r.pc \in ReleaseRunning
      /\ ~ReplayAnchorTaken(r.row)
      /\ artifacts' = artifacts \union {new}
      /\ Report(c, "created")
      /\ UNCHANGED <<sourceLog, decisionLog, selections, start>>
  BY DEF PersistArtifact, Exporting, ReleaseRunning
<1>2. /\ ReleaseTypeInv /\ ReleaseTableInv /\ r.row \in selections
      /\ r.row \in SelectionRow /\ Passed(c) /\ Supported(c)
  BY <1>1, ReleaseRuns DEF ReleaseChose, Passed, Supported, ReleaseTypeInv
<1>3. ReleaseBecomes(c, "applies", r.supporting, r.row, "created", r.outcome)
  BY <1>1, <1>2, ReleaseReports
<1>4. /\ new \in Artifact
      /\ new.selection = Identity(r.row) /\ new.subject = r.row.target[1]
      /\ r.row.scope = IntakeOf[r.row.target[1]]
  <2>1. r.row.target[1] \in Subject /\ Identity(r.row) \in Intake \X SelectionTarget \X Nat
    BY <1>2 DEF SelectionRow, SelectionTarget, Identity
  <2>2. r.row.scope = IntakeOf[r.row.target[1]]
    BY <1>2 DEF ReleaseTableInv, SelectionComplaints
  <2> QED
    BY <2>1, <2>2 DEF ArtifactOf, Artifact
<1>5. ReleaseTypeInv'
  BY <1>1, <1>2, <1>3, <1>4 DEF ReleaseTypeInv, ReleaseBecomes
<1>6. HistoriesGrow
  BY <1>1, <1>2 DEF HistoriesGrow, ReleaseTypeInv
<1>7. ReleaseTableInv'
  <2>1. ArtifactComplaints' = {}
    BY <1>1, <1>2, <1>4 DEF ReleaseTableInv, ArtifactComplaints
  <2> QED
    BY <1>1, <1>2, <2>1 DEF ReleaseTableInv, SelectionComplaints
<1>8. ReleaseShape(c)'
  BY <1>1, <1>3, ReleaseRuns
     DEF ReleaseBecomes, ReleaseShape, Reporting, ReleaseRunning, ExportPlaces
<1>9. ReleaseStarted(c)'
  BY <1>1, <1>3, ReleaseRuns DEF ReleaseBecomes, ReleaseStarted, IntakeFor
<1>10. ReleaseRelies(c)'
  BY <1>1, <1>2, <1>3, ReleaseRuns DEF ReleaseBecomes, ReleaseRelies
<1>11. ReleaseSourced(c)'
  BY <1>1, <1>2, <1>3, ReleaseRuns
     DEF ReleaseBecomes, ReleaseSourced, Effective!CurrentlyHolds, IntakeFor
<1>12. ReleaseChose(c)'
  BY <1>1, <1>3, ReleaseRuns DEF ReleaseBecomes, ReleaseChose, TargetFor
<1>13. ReleaseMade(c)'
  BY <1>1, <1>3 DEF ReleaseBecomes, ReleaseMade
<1>14. ReleaseCallInv(c)'
  BY <1>8, <1>9, <1>10, <1>11, <1>12, <1>13 DEF ReleaseCallInv
<1>15. ASSUME NEW d \in ReleaseCommand \ {c} PROVE ReleaseCallInv(d)'
  BY <1>1, <1>2, <1>3, <1>5, <1>6, ReleaseKept DEF ReleaseBecomes, ReleaseInv
<1>16. CreatorsDiffer'
  <2>1. \A d \in ReleaseCommand \ {c} : release[d].made = "created" =>
            release[d].row # r.row
    <3> SUFFICES ASSUME NEW d \in ReleaseCommand \ {c}, release[d].made = "created",
                        release[d].row = r.row
                 PROVE  FALSE
      OBVIOUS
    <3>1. ArtifactOf(release[d].row) \in artifacts
      BY ReleaseNoneAssumption DEF ReleaseInv, ReleaseCallInv, ReleaseMade
    <3> QED
      BY <1>1, <1>4, <3>1 DEF ReplayAnchorTaken
  <2>2. \A d \in ReleaseCommand \ {c} : release'[d] = release[d]
    BY <1>3 DEF ReleaseBecomes
  <2>3. release'[c].row = r.row
    BY <1>3 DEF ReleaseBecomes
  <2>4. \A d, e \in ReleaseCommand :
            /\ release[d].made = "created" /\ release[e].made = "created"
            /\ release[d].row = release[e].row
            => d = e
    BY DEF ReleaseInv, CreatorsDiffer, Created
  <2>5. ASSUME NEW d \in ReleaseCommand, NEW e \in ReleaseCommand,
               release'[d].made = "created", release'[e].made = "created",
               release'[d].row = release'[e].row
        PROVE  d = e
    <3>1. CASE d = c \/ e = c
      BY <2>1, <2>2, <2>3, <2>5, <3>1
    <3>2. CASE d # c /\ e # c
      BY <2>2, <2>4, <2>5, <3>2
    <3> QED
      BY <3>1, <3>2
  <2> QED
    BY <2>5 DEF CreatorsDiffer, Created
<1> QED
  BY <1>5, <1>7, <1>14, <1>15, <1>16 DEF ReleaseInv

-----------------------------------------------------------------------------
(* Other processes. *)

\* Who is asking for a source while it moves is disturbed, and nobody else
\* notices.
LEMMA MoveSourceKeeps ==
    ASSUME ReleaseInv, NEW i \in Intake, NEW source \in Source, MoveSource(i, source)
    PROVE  ReleaseInv'
<1>1. /\ ReleaseTypeInv /\ sourceLog \in [Intake -> Seq(Source)]
      /\ release \in [ReleaseCommand -> ReleaseState]
      /\ sourceLog' = [sourceLog EXCEPT ![i] = Append(@, source)]
      /\ UNCHANGED <<decisionLog, selections, artifacts, start>>
  BY DEF MoveSource, Effective!Take, ReleaseInv, ReleaseTypeInv, tables
<1>2. /\ sourceLog' \in [Intake -> Seq(Source)]
      /\ sourceLog'[i] = Append(sourceLog[i], source)
      /\ \A k \in Intake \ {i} : sourceLog'[k] = sourceLog[k]
  BY <1>1
<1>3. Len(sourceLog'[i]) = Len(sourceLog[i]) + 1 /\ Len(sourceLog[i]) \in Nat
  BY <1>1, <1>2
<1>4. HistoriesGrow
  <2>1. \A k \in Intake : sourceLog'[k] = sourceLog[k] \/ Len(sourceLog'[k]) > Len(sourceLog[k])
    BY <1>2, <1>3
  <2>2. \A s \in Subject : Len(decisionLog[s]) \in Nat
    BY <1>1, LengthsAreNatural
  <2> QED
    BY <1>1, <2>1, <2>2 DEF HistoriesGrow
<1>5. \A c \in ReleaseCommand :
          release'[c] = IF release[c].pc = "source" /\ IntakeFor(c) = i
                        THEN [release[c] EXCEPT !.pc = "disturbed"] ELSE release[c]
  BY DEF MoveSource, IntakeFor
<1>6. ASSUME NEW c \in ReleaseCommand, release[c].pc = "source", IntakeFor(c) = i
      PROVE  /\ release'[c] \in ReleaseState
             /\ release'[c].pc = "disturbed"
             /\ release'[c].op = release[c].op /\ release'[c].subject = release[c].subject
             /\ release'[c].note = release[c].note /\ release'[c].row = release[c].row
             /\ release'[c].supporting = release[c].supporting
             /\ release'[c].made = release[c].made /\ release'[c].outcome = release[c].outcome
  <2>1. release'[c] = [release[c] EXCEPT !.pc = "disturbed"] /\ release[c] \in ReleaseState
    BY <1>1, <1>5, <1>6
  <2> QED
    BY <2>1 DEF ReleaseState, ReleaseRunning
<1>7. release' \in [ReleaseCommand -> ReleaseState]
  <2>1. \A c \in ReleaseCommand : release'[c] \in ReleaseState
    BY <1>1, <1>5, <1>6
  <2>2. release' = [c \in ReleaseCommand |-> release'[c]]
    BY DEF MoveSource
  <2> QED
    BY <2>1, <2>2
<1>8. ReleaseTypeInv'
  BY <1>1, <1>2, <1>7 DEF ReleaseTypeInv
<1>9. ReleaseTableInv'
  BY <1>1 DEF ReleaseInv, ReleaseTableInv, SelectionComplaints, ArtifactComplaints
<1>10. ASSUME NEW c \in ReleaseCommand, release[c].pc = "source", IntakeFor(c) = i
       PROVE  ReleaseCallInv(c)'
  <2> DEFINE r == release[c]
  <2>1. r.pc \in ReleaseRunning
    BY <1>10 DEF ReleaseRunning
  <2>2. /\ r.subject \in Subject /\ IntakeFor(c)' = i /\ TargetFor(c)' = TargetFor(c)
    BY <1>6, <1>10, <2>1, ReleaseRuns DEF IntakeFor, TargetFor
  <2>3. start[c].source <= Len(sourceLog[i]) /\ start[c].source \in Nat
    BY <1>10, <2>1, ReleaseRuns DEF ReleaseStarted
  <2>4. Len(sourceLog'[i]) > start[c].source
    BY <1>3, <2>3
  <2>5. ReleaseShape(c)'
    BY <1>6, <1>10, <2>1, ReleaseRuns
       DEF ReleaseShape, Reporting, ReleaseRunning, SelectPlaces, ExportPlaces
  <2>6. ReleaseStarted(c)'
    BY <1>1, <1>3, <1>6, <1>10, <2>1, <2>2, <2>3, ReleaseRuns DEF ReleaseStarted
  <2>7. ReleaseRelies(c)'
    BY <1>1, <1>6, <1>10, <2>1, ReleaseRuns DEF ReleaseRelies, Supported
  <2>8. ReleaseSourced(c)'
    <3>1. Len(sourceLog'[i]) # start[c].source
      BY <1>3, <2>3
    <3>2. Passed(c)' => Passed(c)
      BY <1>6, <1>10 DEF Passed
    <3> QED
      BY <1>1, <1>6, <1>10, <2>1, <2>2, <2>4, <3>1, <3>2, ReleaseRuns DEF ReleaseSourced
  <2>9. ReleaseChose(c)'
    BY <1>1, <1>6, <1>10, <2>1, <2>2, ReleaseRuns DEF ReleaseChose
  <2>10. ReleaseMade(c)'
    BY <1>1, <1>6, <1>10, <2>1, ReleaseRuns DEF ReleaseMade
  <2> QED
    BY <2>5, <2>6, <2>7, <2>8, <2>9, <2>10 DEF ReleaseCallInv
<1>11. ASSUME NEW c \in ReleaseCommand, ~(release[c].pc = "source" /\ IntakeFor(c) = i)
       PROVE  ReleaseCallInv(c)'
  BY <1>1, <1>4, <1>5, <1>8, <1>11, ReleaseKept DEF ReleaseInv
<1>12. CreatorsDiffer'
  <2>1. \A c \in ReleaseCommand : /\ release'[c].made = release[c].made
                                  /\ release'[c].row = release[c].row
    BY <1>5, <1>6
  <2> QED
    BY <2>1 DEF ReleaseInv, CreatorsDiffer, Created
<1> QED
  BY <1>8, <1>9, <1>10, <1>11, <1>12 DEF ReleaseInv

LEMMA DecideKeeps ==
    ASSUME ReleaseInv, NEW s \in Subject, NEW kind \in DecisionKind, Decide(s, kind)
    PROVE  ReleaseInv'
<1>1. /\ ReleaseTypeInv /\ decisionLog \in [Subject -> Seq(DecisionKind)]
      /\ decisionLog' = [decisionLog EXCEPT ![s] = Append(@, kind)]
      /\ UNCHANGED <<sourceLog, selections, artifacts, release, start>>
  BY DEF Decide, Decision!Take, ReleaseInv, ReleaseTypeInv, tables
<1>2. /\ decisionLog' \in [Subject -> Seq(DecisionKind)]
      /\ decisionLog'[s] = Append(decisionLog[s], kind)
      /\ \A t \in Subject \ {s} : decisionLog'[t] = decisionLog[t]
  BY <1>1
<1>3. /\ Len(decisionLog[s]) \in Nat /\ Len(decisionLog'[s]) = Len(decisionLog[s]) + 1
      /\ \A n \in DOMAIN decisionLog[s] :
            n \in DOMAIN decisionLog'[s] /\ decisionLog'[s][n] = decisionLog[s][n]
  BY <1>1, <1>2
<1>4. \A t \in Subject :
          /\ Len(decisionLog[t]) <= Len(decisionLog'[t])
          /\ \A n \in DOMAIN decisionLog[t] :
                n \in DOMAIN decisionLog'[t] /\ decisionLog'[t][n] = decisionLog[t][n]
  <2>1. \A t \in Subject : Len(decisionLog[t]) \in Nat
    BY <1>1, LengthsAreNatural
  <2> QED
    BY <1>2, <1>3, <2>1
<1>5. HistoriesGrow
  BY <1>1, <1>4 DEF HistoriesGrow
<1>6. ReleaseTypeInv'
  BY <1>1, <1>2 DEF ReleaseTypeInv
<1>7. ReleaseTableInv'
  <2>1. \A row \in selections : row.target[1] \in Subject
    BY <1>1 DEF ReleaseTypeInv, SelectionRow, SelectionTarget
  <2>2. SelectionComplaints' = {}
    BY <1>1, <1>4, <2>1 DEF ReleaseInv, ReleaseTableInv, SelectionComplaints
  <2>3. ArtifactComplaints' = {}
    BY <1>1 DEF ReleaseInv, ReleaseTableInv, ArtifactComplaints
  <2> QED
    BY <1>1, <2>2, <2>3 DEF ReleaseInv, ReleaseTableInv
<1>8. \A c \in ReleaseCommand : ReleaseCallInv(c)'
  BY <1>1, <1>5, <1>6, ReleaseKept DEF ReleaseInv
<1>9. CreatorsDiffer'
  BY <1>1 DEF ReleaseInv, CreatorsDiffer, Created
<1> QED
  BY <1>6, <1>7, <1>8, <1>9 DEF ReleaseInv

-----------------------------------------------------------------------------
(* The theorems about release. *)

LEMMA ReleaseInitEstablishes == ReleaseInit => ReleaseInv
<1> SUFFICES ASSUME ReleaseInit PROVE ReleaseInv
  OBVIOUS
<1>1. /\ sourceLog = SourcesAtStart /\ decisionLog = [s \in Subject |-> <<>>]
      /\ selections = {} /\ artifacts = {}
      /\ release = [c \in ReleaseCommand |-> NotReleasing]
      /\ start = [c \in ReleaseCommand |-> <<>>]
  BY DEF ReleaseInit
<1>2. ReleaseTypeInv
  <2>1. NotReleasing \in ReleaseState
    BY DEF NotReleasing, ReleaseState, MaybeSelection
  <2>2. <<>> \in Seq(DecisionKind)
    OBVIOUS
  <2>3. decisionLog \in [Subject -> Seq(DecisionKind)]
    BY <1>1, <2>2
  <2> QED
    BY <1>1, <2>1, <2>3, FS_EmptySet, SourcesAssumption DEF ReleaseTypeInv
<1>3. ReleaseTableInv
  BY <1>1, EmptyHistory DEF ReleaseTableInv, SelectionComplaints, ArtifactComplaints
<1>4. ASSUME NEW c \in ReleaseCommand PROVE ReleaseCallInv(c)
  <2>1. /\ release[c] = NotReleasing
        /\ release[c].pc = "idle" /\ release[c].subject = None /\ release[c].made = None
        /\ release[c].op = None /\ release[c].outcome = None
    BY <1>1 DEF NotReleasing
  <2>2. /\ None \notin Selected \union {"conflict"} /\ None # "converged" /\ None # "conflict"
    BY ReleaseNoneAssumption DEF ReleaseOutcomes, Selected
  <2>3. ReleaseShape(c) /\ ReleaseStarted(c)
    BY <2>1, <2>2 DEF ReleaseShape, Reporting, ReleaseStarted, ReleaseRunning
  <2>4. ~Passed(c) /\ ~Supported(c)
    BY <2>1, <2>2 DEF Passed, Supported
  <2>5. ReleaseRelies(c) /\ ReleaseSourced(c) /\ ReleaseMade(c) /\ ReleaseChose(c)
    BY <2>1, <2>2, <2>4 DEF ReleaseRelies, ReleaseSourced, ReleaseMade, ReleaseChose
  <2> QED
    BY <2>3, <2>5 DEF ReleaseCallInv
<1>5. CreatorsDiffer
  BY <1>1, ReleaseNoneAssumption DEF CreatorsDiffer, Created, NotReleasing
<1> QED
  BY <1>2, <1>3, <1>4, <1>5 DEF ReleaseInv

LEMMA ReleaseStutterKeeps == ReleaseInv /\ UNCHANGED releaseVars => ReleaseInv'
<1> SUFFICES ASSUME ReleaseInv, UNCHANGED releaseVars PROVE ReleaseInv'
  OBVIOUS
<1>1. UNCHANGED <<sourceLog, decisionLog, selections, artifacts, release, start>>
  BY DEF releaseVars
<1>2. ReleaseTypeInv /\ ReleaseTypeInv' /\ HistoriesGrow
  BY <1>1 DEF ReleaseInv, ReleaseTypeInv, HistoriesGrow
<1>3. ReleaseTableInv'
  BY <1>1 DEF ReleaseInv, ReleaseTableInv, SelectionComplaints, ArtifactComplaints
<1>4. \A c \in ReleaseCommand : ReleaseCallInv(c)'
  BY <1>1, <1>2, ReleaseKept DEF ReleaseInv
<1>5. CreatorsDiffer'
  BY <1>1 DEF ReleaseInv, CreatorsDiffer, Created
<1> QED
  BY <1>2, <1>3, <1>4, <1>5 DEF ReleaseInv

\* Whatever selections, exports, decisions, source changes and deaths do, each
\* step keeps the bookkeeping right.
THEOREM ReleaseInvHolds == ReleaseSpec => []ReleaseInv
<1>1. ReleaseInv /\ [ReleaseNext]_releaseVars => ReleaseInv'
  <2> SUFFICES ASSUME ReleaseInv, [ReleaseNext]_releaseVars PROVE ReleaseInv'
    OBVIOUS
  <2>1. ASSUME NEW i \in Intake, NEW source \in Source, MoveSource(i, source)
        PROVE  ReleaseInv'
    BY <2>1, MoveSourceKeeps
  <2>2. ASSUME NEW s \in Subject, NEW kind \in DecisionKind, Decide(s, kind)
        PROVE  ReleaseInv'
    BY <2>2, DecideKeeps
  <2>3. ASSUME NEW c \in ReleaseCommand, NEW s \in Subject, NEW note \in Selector,
               SelectFinal(c, s, note)
        PROVE  ReleaseInv'
    BY <2>3, SelectFinalKeeps
  <2>4. ASSUME NEW c \in ReleaseCommand,
               \/ ReadDecision(c) \/ RecheckDecision(c) \/ ReadSource(c)
               \/ ReadCurrentSelection(c) \/ PersistSelection(c) \/ SelectionCollides(c)
               \/ ResolveSelection(c)
        PROVE  ReleaseInv'
    BY <2>4, ReadDecisionKeeps, RecheckDecisionKeeps, ReadSourceKeeps,
       ReadCurrentSelectionKeeps, PersistSelectionKeeps, SelectionCollidesKeeps,
       ResolveSelectionKeeps
  <2>5. ASSUME NEW c \in ReleaseCommand, NEW row \in selections, GenerateArtifact(c, row)
        PROVE  ReleaseInv'
    BY <2>5, GenerateArtifactKeeps
  <2>6. ASSUME NEW c \in ReleaseCommand,
               \/ ReadHead(c) \/ ReadHeadAgain(c) \/ LookupArtifact(c) \/ PersistArtifact(c)
               \/ ArtifactCollides(c) \/ ConvergeArtifact(c) \/ ReleaseFails(c)
               \/ KillRelease(c)
        PROVE  ReleaseInv'
    BY <2>6, ReadHeadKeeps, ReadHeadAgainKeeps, LookupArtifactKeeps, PersistArtifactKeeps,
       ArtifactCollidesKeeps, ConvergeArtifactKeeps, ReleaseFailsKeeps, KillReleaseKeeps
  <2>7. CASE UNCHANGED releaseVars
    BY <2>7, ReleaseStutterKeeps
  <2> QED
    BY <2>1, <2>2, <2>3, <2>4, <2>5, <2>6, <2>7 DEF ReleaseNext
<1> QED
  BY <1>1, ReleaseInitEstablishes, PTL DEF ReleaseSpec

\* What a command that got past its gates relied on held during its call.
LEMMA ReliedOnHeld ==
    ASSUME ReleaseInv, NEW c \in ReleaseCommand, Passed(c)
    PROVE  HeldDuringCall(c)
<1>1. ReleaseShape(c) /\ ReleaseRelies(c) /\ ReleaseSourced(c)
  BY DEF ReleaseInv, ReleaseCallInv
<1>2. release[c].subject # None /\ release[c].pc # "decision" /\ Supported(c)
  BY <1>1, ReleaseNoneAssumption
     DEF Passed, Supported, ReleaseShape, Reporting, ReleaseRunning, ReleaseOutcomes, Selected
<1> QED
  BY <1>1, <1>2 DEF ReleaseRelies, ReleaseSourced, HeldDuringCall, IntakeFor

\* A selection is made only of a deliverable subject whose acceptance and
\* source held during the call.
THEOREM SelectionHadAuthorityHolds == ReleaseSpec => []SelectionHadAuthority
<1>1. ReleaseInv => SelectionHadAuthority
  <2> SUFFICES ASSUME ReleaseInv, NEW c \in ReleaseCommand,
                      release[c].op = "select", release[c].outcome \in Selected
               PROVE  /\ HeldDuringCall(c)
                      /\ release[c].subject \in Deliverable
                      /\ release[c].row \in selections
                      /\ release[c].row.sequence + 1 >= start[c].selection
    BY DEF SelectionHadAuthority
  <2>1. Passed(c)
    BY DEF Passed
  <2> QED
    BY <2>1, ReliedOnHeld DEF ReleaseInv, ReleaseCallInv, ReleaseSourced, ReleaseChose
<1> QED
  BY <1>1, ReleaseInvHolds, PTL

\* An export yields an artifact only of a selection that was current during
\* the call and whose acceptance and source held then.
THEOREM ExportHadAuthorityHolds == ReleaseSpec => []ExportHadAuthority
<1>1. ReleaseInv => ExportHadAuthority
  <2> SUFFICES ASSUME ReleaseInv, NEW c \in ReleaseCommand,
                      release[c].op = "export", release[c].made # None
               PROVE  /\ HeldDuringCall(c)
                      /\ release[c].row.sequence + 1 >= start[c].selection
    BY DEF ExportHadAuthority
  <2>1. Passed(c)
    BY DEF Passed
  <2>2. ReleaseShape(c) /\ ReleaseChose(c) /\ release[c].subject # None
    BY DEF ReleaseInv, ReleaseCallInv, ReleaseShape
  <2>3. release[c].pc # "head"
    BY <2>2 DEF ReleaseShape, Reporting
  <2> QED
    BY <2>1, <2>2, <2>3, ReliedOnHeld DEF ReleaseChose
<1> QED
  BY <1>1, ReleaseInvHolds, PTL

\* One command creates the artifact of a selection; every other export of it
\* hands out that very artifact.
THEOREM OneCreatorPerSelectionHolds == ReleaseSpec => []OneCreatorPerSelection
<1>1. ReleaseInv => OneCreatorPerSelection
  BY DEF ReleaseInv, ReleaseCallInv, ReleaseMade, CreatorsDiffer, OneCreatorPerSelection
<1> QED
  BY <1>1, ReleaseInvHolds, PTL

\* A selection that lost its place converges only on its own choice under its
\* own name, and is refused only for a different one recorded while it ran.
THEOREM SelectionsAreHonouredHolds == ReleaseSpec => []SelectionsAreHonoured
<1>1. ReleaseInv => SelectionsAreHonoured
  BY DEF ReleaseInv, ReleaseCallInv, ReleaseChose, Outrun, Seconded, SelectionsAreHonoured
<1> QED
  BY <1>1, ReleaseInvHolds, PTL

\* The validator has nothing to say against selections and artifacts.
THEOREM ReleasesAreValidHolds == ReleaseSpec => []ReleasesAreValid
<1>1. ReleaseInv => ReleasesAreValid
  <2> SUFFICES ASSUME ReleaseInv PROVE ReleasesAreValid
    OBVIOUS
  <2>1. \A row \in selections : Contiguous(selections, row.scope)
    BY DEF ReleaseInv, ReleaseTypeInv, SelectionRow, ReleaseTableInv
  <2>2. HistoryIsValid(selections)
    BY <2>1, ValidatorAgrees DEF ReleaseInv, ReleaseTableInv
  <2> QED
    BY <2>2 DEF ReleaseInv, ReleaseTableInv, ReleasesAreValid
<1> QED
  BY <1>1, ReleaseInvHolds, PTL

(*****************************************************************************)
(* II. SrtDelivery: deliveries of an artifact to a destination.              *)
(*                                                                           *)
(* For any materializations, locations, commands and amount of interference  *)
(* by other programs.  The invariant says of a command only what the records *)
(* and the observation `witnessed` keep once it is true; of the destination  *)
(* files, which anybody may change at any time, it says only that a payload  *)
(* in place has been witnessed.                                              *)
(*****************************************************************************)

Pair == Materialization \X Location

Intent ==
    [scope : Pair, target : BOOLEAN, sequence : Nat,
     previous : {NoIdentity} \union (Pair \X BOOLEAN \X Nat), note : {None}]

MaybeIntent == Intent \union {NoRow}

Category ==
    {None, "destination_exists_different", "destination_unsafe", "write_failed",
     "verification_failed", "destination_missing"}

Verdict == [delivery : Intent, state : {"delivered", "failed"}, category : Category]

CommandState ==
    [pc : Running \union {"idle", "returned", "killed"}, scope : Pair \union {None},
     overwrite : BOOLEAN, row : MaybeIntent, verdict : Verdict \union {None},
     result : Results \union {None}]

AttemptTypeInv ==
    /\ intents \subseteq Intent /\ IsFiniteSet(intents)
    /\ outcomes \subseteq Verdict
    /\ file \in [Location -> Bytes \union {None, Obstacle}]
    /\ command \in [Command -> CommandState]
    /\ interference \in Nat

\* Attempts of a pair form a gapless chain and only the last may be open;
\* outcomes are of recorded attempts; a payload in place has been witnessed.
RecordInv ==
    /\ Chained(intents)
    /\ \A s \in Pair : Contiguous(intents, s)
    /\ OneOpenAttempt
    /\ \A o \in outcomes : o.delivery \in intents
    /\ DeliveredWasWitnessed
    /\ \A row \in intents : file[LocationOf(row)] = PayloadFor(row) => row \in witnessed

\* The row a new attempt is built on: none, or a closed attempt of the pair.
Closed(c) ==
    \/ command[c].row = NoRow
    \/ /\ command[c].row \in intents /\ command[c].row.scope = command[c].scope
       /\ OutcomesOf(command[c].row) # {}

Diverges(c) ==
    \E row \in intents : /\ row.scope = command[c].scope
                         /\ row.target # command[c].overwrite

Deliveries == {"latest", "outcome", "intend", "converge"}
Attempts == {"outcome", "inspect", "unlink", "link", "verify", "reconcile", "observe"}

\* The bookkeeping of one command: the pair it delivers; the attempt it works
\* on is recorded, its overwrite policy permits what it is about to remove,
\* the verdict it is about to record is justified, and a conflict is real.
AttemptCallInv(c) ==
    /\ command[c].pc = "idle" => command[c] = NotStarted
    /\ command[c].pc # "returned" => command[c].result = None
    /\ command[c].pc \in Deliveries => command[c].scope \in Pair
    /\ command[c].pc \in Attempts => command[c].row \in intents
    /\ command[c].pc = "outcome" => command[c].row.scope = command[c].scope
    /\ command[c].pc \in {"intend", "converge"} => Closed(c)
    /\ command[c].pc = "converge" => SlotTaken(intents, NewIntent(c))
    /\ command[c].pc = "unlink" => command[c].row.target
    /\ command[c].pc = "record" =>
          /\ command[c].verdict \in Verdict
          /\ command[c].verdict.delivery \in intents
          /\ command[c].verdict.state = "delivered" =>
                command[c].verdict.delivery \in witnessed
    /\ command[c].result = "conflict" => Diverges(c)

AttemptInv ==
    /\ AttemptTypeInv
    /\ RecordInv
    /\ \A c \in Command : AttemptCallInv(c)

-----------------------------------------------------------------------------
(* What the steps do to a command's local state. *)

Becomes(c, pc, row, verdict, result) ==
    command' = [command EXCEPT ![c].pc = pc, ![c].row = row, ![c].verdict = verdict,
                               ![c].result = result]

LEMMA GotoBecomes ==
    ASSUME AttemptTypeInv, NEW c \in Command, NEW pc, Goto(c, pc)
    PROVE  Becomes(c, pc, command[c].row, command[c].verdict, command[c].result)
BY DEF AttemptTypeInv, CommandState, Goto, Becomes

LEMMA ConcludeBecomes ==
    ASSUME AttemptTypeInv, NEW c \in Command, NEW verdict, Conclude(c, verdict)
    PROVE  Becomes(c, "record", command[c].row, verdict, command[c].result)
BY DEF AttemptTypeInv, CommandState, Conclude, Becomes

LEMMA ReturnBecomes ==
    ASSUME AttemptTypeInv, NEW c \in Command, NEW result, Return(c, result)
    PROVE  Becomes(c, "returned", command[c].row, command[c].verdict, result)
BY DEF AttemptTypeInv, CommandState, Return, Becomes

\* A command that answers with a row it found keeps its verdict.
LEMMA AnswerBecomes ==
    ASSUME AttemptTypeInv, NEW c \in Command, NEW row, NEW result,
           command' = [command EXCEPT ![c].pc = "returned", ![c].result = result,
                                      ![c].row = row]
    PROVE  Becomes(c, "returned", row, command[c].verdict, result)
BY DEF AttemptTypeInv, CommandState, Becomes

LEMMA RowBecomes ==
    ASSUME AttemptTypeInv, NEW c \in Command, NEW pc, NEW row,
           command' = [command EXCEPT ![c].pc = pc, ![c].row = row]
    PROVE  Becomes(c, pc, row, command[c].verdict, command[c].result)
BY DEF AttemptTypeInv, CommandState, Becomes

\* Every step keeps the pair and the overwrite flag of the command.
LEMMA BecomesEffect ==
    ASSUME AttemptTypeInv, NEW c \in Command, NEW pc \in Running \union {"returned", "killed"},
           NEW row \in MaybeIntent, NEW verdict \in Verdict \union {None},
           NEW result \in Results \union {None}, Becomes(c, pc, row, verdict, result)
    PROVE  /\ command' \in [Command -> CommandState]
           /\ \A d \in Command \ {c} : command'[d] = command[d]
           /\ command'[c].pc = pc /\ command'[c].row = row
           /\ command'[c].verdict = verdict /\ command'[c].result = result
           /\ command'[c].scope = command[c].scope
           /\ command'[c].overwrite = command[c].overwrite
<1>1. command \in [Command -> CommandState] /\ command[c] \in CommandState
  BY DEF AttemptTypeInv
<1>2. command'[c] = [command[c] EXCEPT !.pc = pc, !.row = row, !.verdict = verdict,
                                       !.result = result]
  BY <1>1 DEF Becomes, CommandState
<1>3. /\ command'[c] \in CommandState
      /\ command'[c].pc = pc /\ command'[c].row = row
      /\ command'[c].verdict = verdict /\ command'[c].result = result
      /\ command'[c].scope = command[c].scope
      /\ command'[c].overwrite = command[c].overwrite
  BY <1>1, <1>2 DEF CommandState
<1> QED
  BY <1>1, <1>3 DEF Becomes

\* A command that returns keeps what it has and adds its result.
LEMMA ReturnEffect ==
    ASSUME AttemptTypeInv, NEW c \in Command, NEW row \in MaybeIntent,
           NEW verdict \in Verdict \union {None}, NEW result \in Results \union {None},
           Becomes(c, "returned", row, verdict, result)
    PROVE  /\ command' \in [Command -> CommandState]
           /\ \A d \in Command \ {c} : command'[d] = command[d]
           /\ command'[c].pc = "returned" /\ command'[c].result = result
           /\ command'[c].scope = command[c].scope
           /\ command'[c].overwrite = command[c].overwrite
<1>1. PICK pc \in Running \union {"returned", "killed"} : pc = "returned"
  OBVIOUS
<1>2. Becomes(c, pc, row, verdict, result)
  BY <1>1
<1>3. /\ command' \in [Command -> CommandState]
      /\ \A d \in Command \ {c} : command'[d] = command[d]
      /\ command'[c].pc = pc /\ command'[c].row = row
      /\ command'[c].verdict = verdict /\ command'[c].result = result
      /\ command'[c].scope = command[c].scope
      /\ command'[c].overwrite = command[c].overwrite
  BY <1>2, BecomesEffect
<1> QED
  BY <1>1, <1>3

-----------------------------------------------------------------------------
(* Steps of one command seen from the rest of the system. *)

\* Records and observations only grow, so a command that does not move stays
\* right.
LEMMA CallKept ==
    ASSUME intents \subseteq intents', outcomes \subseteq outcomes',
           witnessed \subseteq witnessed',
           NEW d \in Command, AttemptCallInv(d), command'[d] = command[d]
    PROVE  AttemptCallInv(d)'
<1>1. NewIntent(d)' = NewIntent(d)
  BY DEF NewIntent
<1>2. SlotTaken(intents, NewIntent(d)) => SlotTaken(intents, NewIntent(d))'
  BY <1>1 DEF SlotTaken
<1>3. Closed(d) => Closed(d)'
  BY DEF Closed, OutcomesOf
<1>4. Diverges(d) => Diverges(d)'
  BY DEF Diverges
<1> QED
  BY <1>2, <1>3, <1>4 DEF AttemptCallInv

\* A step that changes neither records nor files has only the command's own
\* bookkeeping to keep right.
LEMMA LocalStep ==
    ASSUME AttemptInv, NEW c \in Command,
           command' \in [Command -> CommandState],
           \A d \in Command \ {c} : command'[d] = command[d],
           UNCHANGED <<intents, outcomes, file, interference, witnessed>>,
           AttemptCallInv(c)'
    PROVE  AttemptInv'
<1>1. AttemptTypeInv'
  BY DEF AttemptInv, AttemptTypeInv
<1>2. RecordInv'
  BY DEF AttemptInv, RecordInv, OneOpenAttempt, DeliveredWasWitnessed, OutcomesOf
<1>3. \A d \in Command : AttemptCallInv(d)'
  BY CallKept DEF AttemptInv
<1> QED
  BY <1>1, <1>2, <1>3 DEF AttemptInv

\* A return that records nothing and is not a conflict.
LEMMA ReturnKeeps ==
    ASSUME AttemptInv, NEW c \in Command, NEW result \in Results \ {"conflict"}, Return(c, result),
           UNCHANGED <<intents, outcomes, file, interference, witnessed>>
    PROVE  AttemptInv'
<1>1. AttemptTypeInv /\ command[c] \in CommandState
  BY DEF AttemptInv, AttemptTypeInv
<1>2. /\ command' \in [Command -> CommandState]
      /\ \A d \in Command \ {c} : command'[d] = command[d]
      /\ command'[c].pc = "returned" /\ command'[c].result = result
  <2>1. Becomes(c, "returned", command[c].row, command[c].verdict, result)
    BY <1>1, ReturnBecomes
  <2>2. command[c].row \in MaybeIntent /\ command[c].verdict \in Verdict \union {None}
    BY <1>1 DEF CommandState
  <2>3. result \in Results \union {None}
    OBVIOUS
  <2> QED
    BY <1>1, <2>1, <2>2, <2>3, ReturnEffect
<1>3. AttemptCallInv(c)'
  BY <1>2 DEF AttemptCallInv, Deliveries, Attempts
<1> QED
  BY <1>2, <1>3, LocalStep

\* A verdict about a recorded attempt, which if it says delivered is about one
\* whose payload has been in place.
LEMMA ConcludeKeeps ==
    ASSUME AttemptInv, NEW c \in Command, command[c].pc \in Running,
           NEW verdict \in Verdict, Conclude(c, verdict),
           verdict.delivery \in intents,
           verdict.state = "delivered" => verdict.delivery \in witnessed,
           UNCHANGED <<intents, outcomes, file, interference, witnessed>>
    PROVE  AttemptInv'
<1>1. /\ AttemptTypeInv /\ AttemptCallInv(c)
      /\ command[c] \in CommandState /\ command[c].result = None
  BY DEF AttemptInv, AttemptTypeInv, AttemptCallInv, Running
<1>2. /\ command' \in [Command -> CommandState]
      /\ \A d \in Command \ {c} : command'[d] = command[d]
      /\ command'[c].pc = "record" /\ command'[c].verdict = verdict
      /\ command'[c].result = None
  BY <1>1, ConcludeBecomes, BecomesEffect DEF CommandState, Running
<1>3. AttemptCallInv(c)'
  BY <1>2, NoneAssumption DEF AttemptCallInv, Deliveries, Attempts, Results
<1> QED
  BY <1>2, <1>3, LocalStep

\* A step to another place that does not change what the command works on.
LEMMA GotoKeeps ==
    ASSUME AttemptInv, NEW c \in Command, command[c].pc \in Running,
           NEW pc \in Running \union {"killed"}, Goto(c, pc),
           pc \in Deliveries => command[c].scope \in Pair,
           pc \in Attempts => command[c].row \in intents,
           pc = "outcome" => command[c].row.scope = command[c].scope,
           pc \in {"intend", "converge"} => Closed(c),
           pc = "converge" => SlotTaken(intents, NewIntent(c)),
           pc = "unlink" => command[c].row.target,
           pc # "record",
           UNCHANGED <<intents, outcomes, file, interference, witnessed>>
    PROVE  AttemptInv'
<1>1. /\ AttemptTypeInv /\ AttemptCallInv(c)
      /\ command[c] \in CommandState /\ command[c].result = None
  BY DEF AttemptInv, AttemptTypeInv, AttemptCallInv, Running
<1>2. /\ command' \in [Command -> CommandState]
      /\ \A d \in Command \ {c} : command'[d] = command[d]
      /\ command'[c].pc = pc /\ command'[c].row = command[c].row
      /\ command'[c].scope = command[c].scope
      /\ command'[c].overwrite = command[c].overwrite
      /\ command'[c].result = None
  BY <1>1, GotoBecomes, BecomesEffect DEF CommandState
<1>3. pc = "converge" => SlotTaken(intents, NewIntent(c))'
  BY <1>2 DEF SlotTaken, NewIntent
<1>4. pc \in {"intend", "converge"} => Closed(c)'
  BY <1>2 DEF Closed, OutcomesOf
<1>5. AttemptCallInv(c)'
  BY <1>2, <1>3, <1>4, NoneAssumption DEF AttemptCallInv, Deliveries, Attempts, Results, Running
<1> QED
  BY <1>2, <1>5, LocalStep

-----------------------------------------------------------------------------
(* deliver(). *)

LEMMA DeliverKeeps ==
    ASSUME AttemptInv, NEW c \in Command, NEW m \in Materialization, NEW l \in Location,
           NEW overwrite \in BOOLEAN, Deliver(c, m, l, overwrite)
    PROVE  AttemptInv'
<1>1. command[c] = NotStarted /\ command \in [Command -> CommandState]
  BY DEF Deliver, AttemptInv, AttemptCallInv, AttemptTypeInv
<1>2. command'[c] = [NotStarted EXCEPT !.pc = "latest", !.scope = <<m, l>>,
                                       !.overwrite = overwrite]
  BY <1>1 DEF Deliver
<1>3. /\ command'[c].pc = "latest" /\ command'[c].scope \in Pair
      /\ command'[c].result = None /\ command'[c] \in CommandState
  <2>1. command'[c] = [pc |-> "latest", scope |-> <<m, l>>, overwrite |-> overwrite,
                       row |-> NoRow, verdict |-> None, result |-> None]
    BY <1>2 DEF NotStarted
  <2>2. <<m, l>> \in Pair /\ NoRow \in MaybeIntent
    BY DEF Pair, MaybeIntent
  <2> QED
    BY <2>1, <2>2 DEF CommandState, Running
<1>4. /\ command' \in [Command -> CommandState]
      /\ \A d \in Command \ {c} : command'[d] = command[d]
  BY <1>1, <1>3 DEF Deliver
<1>5. AttemptCallInv(c)'
  BY <1>3, NoneAssumption DEF AttemptCallInv, Deliveries, Attempts, Results
<1> QED
  BY <1>4, <1>5, LocalStep DEF Deliver

LEMMA ReadLatestKeeps ==
    ASSUME AttemptInv, NEW c \in Command, ReadLatest(c)
    PROVE  AttemptInv'
<1>1. /\ AttemptTypeInv /\ AttemptCallInv(c)
      /\ command[c] \in CommandState /\ command[c].pc = "latest"
      /\ command[c].scope \in Pair /\ command[c].result = None
      /\ UNCHANGED <<intents, outcomes, file, interference, witnessed>>
  BY DEF ReadLatest, AttemptInv, AttemptTypeInv, AttemptCallInv, Deliveries
<1>2. PICK latest \in CurrentAnswers(intents, command[c].scope) :
         command' = [command EXCEPT
                       ![c].row = latest,
                       ![c].pc = IF latest = NoRow THEN "intend" ELSE "outcome"]
  BY DEF ReadLatest
<1> DEFINE pc == IF latest = NoRow THEN "intend" ELSE "outcome"
<1>3. latest # NoRow => latest \in intents /\ latest.scope = command[c].scope
  BY <1>1, CurrentIsLast DEF AttemptInv, AttemptTypeInv, RecordInv
<1>4. latest \in MaybeIntent
  BY <1>1, <1>3 DEF AttemptTypeInv, MaybeIntent
<1>5. Becomes(c, pc, latest, command[c].verdict, command[c].result)
  BY <1>1, <1>2 DEF AttemptTypeInv, CommandState, Becomes
<1>6. /\ command' \in [Command -> CommandState]
      /\ \A d \in Command \ {c} : command'[d] = command[d]
      /\ command'[c].pc = pc /\ command'[c].row = latest
      /\ command'[c].scope = command[c].scope
      /\ command'[c].result = None
  BY <1>1, <1>4, <1>5, BecomesEffect DEF CommandState, Running
<1>7. CASE latest = NoRow
  BY <1>1, <1>6, <1>7, LocalStep, NoneAssumption
     DEF AttemptCallInv, Deliveries, Attempts, Results, Closed
<1>8. CASE latest # NoRow
  BY <1>1, <1>3, <1>6, <1>8, LocalStep, NoneAssumption
     DEF AttemptCallInv, Deliveries, Attempts, Results
<1> QED
  BY <1>7, <1>8

LEMMA ReadLatestOutcomeKeeps ==
    ASSUME AttemptInv, NEW c \in Command, ReadLatestOutcome(c)
    PROVE  AttemptInv'
<1>1. /\ command[c].pc = "outcome" /\ command[c].pc \in Running
      /\ command[c].row \in intents /\ command[c].row.scope = command[c].scope
      /\ command[c].scope \in Pair
      /\ UNCHANGED <<intents, outcomes, file, interference, witnessed>>
  BY DEF ReadLatestOutcome, AttemptInv, AttemptCallInv, Deliveries, Attempts, Running
<1>2. CASE Goto(c, "inspect")
  BY <1>1, <1>2, GotoKeeps DEF Running, Deliveries
<1>3. CASE Return(c, "reused")
  BY <1>1, <1>3, ReturnKeeps DEF Results
<1>4. CASE OutcomesOf(command[c].row) # {} /\ Goto(c, "intend")
  BY <1>1, <1>4, GotoKeeps DEF Running, Attempts, Closed
<1> QED
  BY <1>2, <1>3, <1>4 DEF ReadLatestOutcome

\* What a command is about to record, built on the closed attempt it read.
LEMMA NewIntentShape ==
    ASSUME AttemptInv, NEW c \in Command, command[c].pc \in {"intend", "converge"}
    PROVE  /\ NewIntent(c) \in Intent
           /\ NewIntent(c).scope = command[c].scope
           /\ NewIntent(c).target = command[c].overwrite
           /\ NewIntent(c).sequence = command[c].row.sequence + 1
           /\ NewIntent(c).sequence <= Height(intents, command[c].scope)
           /\ Contiguous(intents, command[c].scope)
           /\ command[c].row # NoRow => command[c].row.sequence \in Nat
<1>1. /\ AttemptTypeInv /\ RecordInv /\ Closed(c) /\ command[c] \in CommandState
      /\ command[c].scope \in Pair /\ command[c].overwrite \in BOOLEAN
      /\ command[c].row \in MaybeIntent
  BY DEF AttemptInv, AttemptTypeInv, AttemptCallInv, CommandState, Deliveries
<1>2. Contiguous(intents, command[c].scope) /\ Height(intents, command[c].scope) \in Nat
  BY <1>1, HeightType DEF RecordInv, AttemptTypeInv
<1>3. /\ NewIntent(c).scope = command[c].scope
      /\ NewIntent(c).target = command[c].overwrite
      /\ NewIntent(c).sequence = command[c].row.sequence + 1
      /\ NewIntent(c).note = None
      /\ NewIntent(c).previous
           = IF command[c].row = NoRow THEN NoIdentity ELSE Identity(command[c].row)
      /\ NewIntent(c) = [scope |-> NewIntent(c).scope, target |-> NewIntent(c).target,
                         sequence |-> NewIntent(c).sequence,
                         previous |-> NewIntent(c).previous, note |-> NewIntent(c).note]
  BY DEF NewIntent, Successor
<1>4. CASE command[c].row = NoRow
  <2>1. NewIntent(c).sequence = 0 /\ NewIntent(c).previous = NoIdentity
    BY <1>3, <1>4 DEF NoRow
  <2> QED
    BY <1>1, <1>2, <1>3, <1>4, <2>1 DEF Intent
<1>5. CASE command[c].row # NoRow
  <2> DEFINE row == command[c].row
  <2>1. row \in Intent /\ row \in intents /\ row.scope = command[c].scope
    BY <1>1, <1>5 DEF Closed, MaybeIntent
  <2>2. row.sequence \in Nat /\ Identity(row) \in Pair \X BOOLEAN \X Nat
    BY <2>1 DEF Intent, Identity
  <2>3. row.sequence \in 0 .. Height(intents, command[c].scope) - 1
    BY <1>2, <2>1 DEF Contiguous, RowsOf
  <2> QED
    BY <1>1, <1>2, <1>3, <1>5, <2>2, <2>3 DEF Intent
<1> QED
  BY <1>4, <1>5

\* A recorded intent is the next attempt of its pair, and the attempt before
\* it, if there is one, is closed.
LEMMA PersistIntentKeeps ==
    ASSUME AttemptInv, NEW c \in Command, PersistIntent(c)
    PROVE  AttemptInv'
<1>0. PICK new : new = NewIntent(c)
  OBVIOUS
<1> DEFINE s == command[c].scope
           row == command[c].row
<1>1. /\ AttemptTypeInv /\ RecordInv /\ AttemptCallInv(c) /\ Closed(c) /\ command[c].pc = "intend"
      /\ s \in Pair /\ command[c] \in CommandState /\ command[c].result = None
      /\ ~SlotTaken(intents, new)
      /\ intents' = intents \union {new}
      /\ Attempt(c, new)
      /\ UNCHANGED <<outcomes, file, interference>>
      /\ Observe
  BY <1>0 DEF PersistIntent, AttemptInv, AttemptTypeInv, AttemptCallInv, Deliveries
<1>2. /\ new \in Intent /\ new.scope = s /\ new.sequence = row.sequence + 1
      /\ new.sequence \in Nat
      /\ new.sequence <= Height(intents, s)
      /\ Contiguous(intents, s)
      /\ row # NoRow => row.sequence \in Nat
  BY <1>0, <1>1, NewIntentShape DEF Intent
<1>3. /\ Chained(intents)
      /\ IsFiniteSet(intents)
      /\ \A old \in intents : old.sequence \in Nat
  BY <1>1 DEF AttemptTypeInv, RecordInv, Intent
<1>4. new.sequence = Height(intents, s) /\ Contiguous(intents', s)
  <2>1. /\ new.sequence = Height(intents, new.scope)
        /\ Contiguous(intents \union {new}, new.scope)
    BY <1>1, <1>2, <1>3, AppendKeepsContiguous
  <2> QED
    BY <1>1, <1>2, <2>1
<1>5. Chained(intents')
  BY <1>0, <1>1, <1>3, AppendKeepsChained DEF Closed, NewIntent
<1>6. \A t \in Pair : Contiguous(intents', t)
  <2>1. new \notin intents
    BY <1>1 DEF SlotTaken
  <2>2. \A t : t # new.scope => /\ RowsOf(intents \union {new}, t) = RowsOf(intents, t)
                               /\ Height(intents \union {new}, t) = Height(intents, t)
    BY <1>3, <2>1, InsertAddsOne
  <2>3. \A t \in Pair : t # s => Contiguous(intents', t)
    BY <1>1, <1>2, <2>2, ZenonT(60) DEF RecordInv, Contiguous
  <2> QED
    BY <1>4, <2>3
<1>7. OneOpenAttempt'
  <2>1. ASSUME NEW old \in intents, old.scope = s, old.sequence < new.sequence
        PROVE  OutcomesOf(old) # {}
    <3>1. row # NoRow
      BY <1>2, <1>3, <2>1 DEF NoRow
    <3>2. row \in intents /\ row.scope = s /\ OutcomesOf(row) # {} /\ row.sequence \in Nat
      BY <1>1, <1>3, <3>1 DEF Closed
    <3>3. old.sequence = row.sequence \/ old.sequence < row.sequence
      BY <1>2, <1>3, <2>1, <3>2
    <3>4. CASE old.sequence = row.sequence
      BY <1>3, <2>1, <3>2, <3>4 DEF Chained
    <3>5. CASE old.sequence < row.sequence
      BY <1>1, <2>1, <3>2, <3>5 DEF RecordInv, OneOpenAttempt
    <3> QED
      BY <3>3, <3>4, <3>5
  <2>2. ASSUME NEW later \in intents, later.scope = s
        PROVE  ~(new.sequence < later.sequence)
    <3>1. later.sequence \in 0 .. Height(intents, s) - 1
      BY <1>2, <2>2 DEF Contiguous, RowsOf
    <3>2. Height(intents, s) \in Nat
      BY <1>3, HeightType
    <3> QED
      BY <1>4, <3>1, <3>2
  <2>3. ~(new.sequence < new.sequence)
    BY <1>2
  <2>4. \A old : OutcomesOf(old)' = OutcomesOf(old)
    BY <1>1 DEF OutcomesOf
  <2>5. ASSUME NEW old \in intents', NEW later \in intents',
               old.scope = later.scope, old.sequence < later.sequence
        PROVE  OutcomesOf(old) # {}
    <3>1. CASE old \in intents /\ later \in intents
      BY <1>1, <2>5, <3>1 DEF RecordInv, OneOpenAttempt
    <3>2. CASE later = new
      BY <1>1, <1>2, <2>1, <2>3, <2>5, <3>2
    <3>3. CASE old = new /\ later \in intents
      BY <1>2, <2>2, <2>5, <3>3
    <3> QED
      BY <1>1, <3>1, <3>2, <3>3
  <2> QED
    BY <2>4, <2>5 DEF OneOpenAttempt
<1>8. witnessed \subseteq witnessed' /\ intents \subseteq intents'
      /\ outcomes \subseteq outcomes'
  BY <1>1 DEF Observe
<1>9. RecordInv'
  <2>1. \A o \in outcomes' : o.delivery \in intents'
    BY <1>1 DEF RecordInv
  <2>2. DeliveredWasWitnessed'
    BY <1>1, <1>8 DEF RecordInv, DeliveredWasWitnessed
  <2>3. \A r \in intents' : file'[LocationOf(r)] = PayloadFor(r) => r \in witnessed'
    BY <1>1 DEF Observe
  <2> QED
    BY <1>5, <1>6, <1>7, <2>1, <2>2, <2>3 DEF RecordInv, LocationOf, PayloadFor, MaterializationOf
<1>10. /\ command' \in [Command -> CommandState]
       /\ \A d \in Command \ {c} : command'[d] = command[d]
       /\ command'[c].pc = "inspect" /\ command'[c].row = new
       /\ command'[c].result = None
  <2>1. Becomes(c, "inspect", new, command[c].verdict, command[c].result)
    BY <1>1, RowBecomes DEF Attempt
  <2> QED
    BY <1>1, <1>2, <2>1, BecomesEffect DEF CommandState, MaybeIntent, Running
<1>11. AttemptCallInv(c)'
  BY <1>1, <1>10, NoneAssumption DEF AttemptCallInv, Deliveries, Attempts, Results
<1>12. \A d \in Command : AttemptCallInv(d)'
  BY <1>8, <1>10, <1>11, CallKept DEF AttemptInv
<1>13. AttemptTypeInv'
  BY <1>1, <1>2, <1>10, FS_AddElement DEF AttemptTypeInv
<1> QED
  BY <1>9, <1>12, <1>13 DEF AttemptInv

LEMMA IntentCollidesKeeps ==
    ASSUME AttemptInv, NEW c \in Command, IntentCollides(c)
    PROVE  AttemptInv'
<1>1. /\ command[c].pc = "intend" /\ command[c].pc \in Running
      /\ command[c].scope \in Pair /\ Closed(c)
  BY DEF IntentCollides, AttemptInv, AttemptCallInv, Deliveries, Running
<1> QED
  BY <1>1, GotoKeeps DEF IntentCollides, Running, Attempts

\* The attempt that took the slot is the one the command would have recorded,
\* or one with the other overwrite policy: nothing else can tell them apart.
LEMMA HolderOfSlot ==
    ASSUME AttemptInv, NEW c \in Command, command[c].pc = "converge"
    PROVE  NewIntent(c) \in intents \/ Diverges(c)
<1> DEFINE new == NewIntent(c)
           row == command[c].row
<1>1. /\ AttemptTypeInv /\ RecordInv /\ Closed(c) /\ SlotTaken(intents, new)
  BY DEF AttemptInv, AttemptCallInv
<1>2. /\ new \in Intent /\ new.scope = command[c].scope
      /\ new.target = command[c].overwrite
      /\ new.sequence = row.sequence + 1
      /\ row # NoRow => row.sequence \in Nat
  BY NewIntentShape
<1>3. PICK old \in intents : old.scope = new.scope /\ old.sequence = new.sequence
  BY <1>1 DEF SlotTaken
<1>4. CASE old.target # new.target
  BY <1>2, <1>3, <1>4 DEF Diverges
<1>5. CASE old.target = new.target
  <2>1. old \in Intent
    BY <1>1, <1>3 DEF AttemptTypeInv
  <2>2. old.previous = new.previous
    <3>1. CASE row = NoRow
      <4>1. new.sequence = 0 /\ new.previous = NoIdentity
        BY <1>2, <3>1 DEF NewIntent, Successor, NoRow
      <4> QED
        BY <1>1, <1>3, <4>1 DEF RecordInv, Chained
    <3>2. CASE row # NoRow
      <4>1. row \in intents /\ row.scope = new.scope /\ new.previous = Identity(row)
        BY <1>1, <1>2, <3>2 DEF Closed, NewIntent, Successor
      <4>2. PICK before \in intents : /\ before.scope = old.scope
                                      /\ before.sequence = old.sequence - 1
                                      /\ old.previous = Identity(before)
        BY <1>1, <1>2, <1>3, <3>2 DEF RecordInv, Chained
      <4>3. before.sequence = row.sequence
        BY <1>2, <1>3, <3>2, <4>2
      <4>4. before = row
        BY <1>1, <1>3, <4>1, <4>2, <4>3 DEF RecordInv, Chained
      <4> QED
        BY <4>1, <4>2, <4>4
    <3> QED
      BY <3>1, <3>2
  <2>3. old = new
    BY <1>2, <1>3, <1>5, <2>1, <2>2 DEF Intent
  <2> QED
    BY <1>3, <2>3
<1> QED
  BY <1>4, <1>5

LEMMA ConvergeKeeps ==
    ASSUME AttemptInv, NEW c \in Command, Converge(c)
    PROVE  AttemptInv'
<1>1. /\ AttemptTypeInv /\ AttemptCallInv(c)
      /\ command[c] \in CommandState /\ command[c].pc = "converge"
      /\ UNCHANGED <<intents, outcomes, file, interference, witnessed>>
  BY DEF Converge, AttemptInv, AttemptTypeInv
<1>2. CASE NewIntent(c) \in intents
  <2>1. Becomes(c, "returned", NewIntent(c), command[c].verdict, "reused")
    BY <1>1, <1>2, AnswerBecomes DEF Converge
  <2>2. NewIntent(c) \in MaybeIntent
    BY <1>1, <1>2 DEF AttemptTypeInv, MaybeIntent
  <2>3. /\ command' \in [Command -> CommandState]
        /\ \A d \in Command \ {c} : command'[d] = command[d]
        /\ command'[c].pc = "returned" /\ command'[c].result = "reused"
    <3>1. command[c].verdict \in Verdict \union {None} /\ "reused" \in Results \union {None}
      BY <1>1 DEF CommandState, Results
    <3> QED
      BY <1>1, <2>1, <2>2, <3>1, ReturnEffect
  <2>4. AttemptCallInv(c)'
    BY <2>3 DEF AttemptCallInv, Deliveries, Attempts
  <2> QED
    BY <1>1, <2>3, <2>4, LocalStep
<1>3. CASE NewIntent(c) \notin intents
  <2>1. Becomes(c, "returned", command[c].row, command[c].verdict, "conflict")
    BY <1>1, <1>3, ReturnBecomes DEF Converge
  <2>2. /\ command' \in [Command -> CommandState]
        /\ \A d \in Command \ {c} : command'[d] = command[d]
        /\ command'[c].pc = "returned" /\ command'[c].result = "conflict"
        /\ command'[c].scope = command[c].scope
        /\ command'[c].overwrite = command[c].overwrite
    <3>1. /\ command[c].row \in MaybeIntent /\ command[c].verdict \in Verdict \union {None}
          /\ "conflict" \in Results \union {None}
      BY <1>1 DEF CommandState, Results
    <3> QED
      BY <1>1, <2>1, <3>1, ReturnEffect
  <2>3. Diverges(c)'
    BY <1>1, <1>3, <2>2, HolderOfSlot DEF Diverges
  <2>4. AttemptCallInv(c)'
    BY <2>2, <2>3 DEF AttemptCallInv, Deliveries, Attempts
  <2> QED
    BY <1>1, <2>2, <2>4, LocalStep
<1> QED
  BY <1>2, <1>3

-----------------------------------------------------------------------------
(* _finalize() and reconcile(). *)

LEMMA VerdictType ==
    ASSUME NEW row \in Intent, NEW category \in Category
    PROVE  /\ Delivered(row) \in Verdict
           /\ Failed(row, category) \in Verdict
           /\ Delivered(row).delivery = row
           /\ Failed(row, category).delivery = row
           /\ Failed(row, category).state # "delivered"
BY DEF Delivered, Failed, Verdict, Category

\* Whatever an attempt fails with may be recorded of it.
LEMMA FailureKeeps ==
    ASSUME AttemptInv, NEW c \in Command, command[c].pc \in Attempts, NEW category \in Category,
           Conclude(c, Failed(command[c].row, category)),
           UNCHANGED <<intents, outcomes, file, interference, witnessed>>
    PROVE  AttemptInv'
<1>1. command[c].row \in intents /\ command[c].row \in Intent /\ command[c].pc \in Running
  BY DEF AttemptInv, AttemptTypeInv, AttemptCallInv, Attempts, Running
<1>2. /\ Failed(command[c].row, category) \in Verdict
      /\ Failed(command[c].row, category).delivery = command[c].row
      /\ Failed(command[c].row, category).state # "delivered"
  BY <1>1, VerdictType
<1> QED
  BY <1>1, <1>2, ConcludeKeeps

\* A payload seen in place has been witnessed, so its delivery may be recorded.
LEMMA SuccessKeeps ==
    ASSUME AttemptInv, NEW c \in Command, command[c].pc \in Attempts,
           file[LocationOf(command[c].row)] = PayloadFor(command[c].row),
           Conclude(c, Delivered(command[c].row)),
           UNCHANGED <<intents, outcomes, file, interference, witnessed>>
    PROVE  AttemptInv'
<1>1. /\ command[c].row \in intents /\ command[c].row \in Intent
      /\ command[c].pc \in Running /\ command[c].row \in witnessed
  BY DEF AttemptInv, AttemptTypeInv, RecordInv, AttemptCallInv, Attempts, Running
<1>2. /\ Delivered(command[c].row) \in Verdict
      /\ Delivered(command[c].row).delivery = command[c].row
  BY <1>1, VerdictType DEF Category
<1> QED
  BY <1>1, <1>2, ConcludeKeeps

LEMMA InspectDestinationKeeps ==
    ASSUME AttemptInv, NEW c \in Command, InspectDestination(c)
    PROVE  AttemptInv'
<1> DEFINE row == command[c].row
<1>1. /\ command[c].pc = "inspect" /\ command[c].pc \in Running
      /\ command[c].pc \in Attempts /\ row \in intents
      /\ UNCHANGED <<intents, outcomes, file, interference, witnessed>>
  BY DEF InspectDestination, AttemptInv, AttemptCallInv, Attempts, Running
<1>2. \/ Goto(c, "verify") \/ Goto(c, "link")
      \/ row.target /\ Goto(c, "unlink")
      \/ Conclude(c, Failed(row, "destination_exists_different"))
  BY DEF InspectDestination
<1>3. CASE Goto(c, "verify") \/ Goto(c, "link")
  BY <1>1, <1>3, GotoKeeps DEF Running, Deliveries
<1>4. CASE row.target /\ Goto(c, "unlink")
  BY <1>1, <1>4, GotoKeeps DEF Running, Deliveries
<1>5. CASE Conclude(c, Failed(row, "destination_exists_different"))
  BY <1>1, <1>5, FailureKeeps DEF Category
<1> QED
  BY <1>2, <1>3, <1>4, <1>5

\* A step that changes a destination file is observed, so the records stay
\* right, and commands that do not move notice nothing.
LEMMA FileStepKeeps ==
    ASSUME AttemptInv, UNCHANGED <<intents, outcomes>>, Observe,
           file' \in [Location -> Bytes \union {None, Obstacle}]
    PROVE  /\ RecordInv'
           /\ \A d \in Command : command'[d] = command[d] => AttemptCallInv(d)'
<1>1. witnessed \subseteq witnessed'
  BY DEF Observe
<1>2. \A r \in intents' : file'[LocationOf(r)] = PayloadFor(r) => r \in witnessed'
  BY DEF Observe
<1>3. OneOpenAttempt'
  BY DEF AttemptInv, RecordInv, OneOpenAttempt, OutcomesOf
<1>4. DeliveredWasWitnessed'
  BY <1>1 DEF AttemptInv, RecordInv, DeliveredWasWitnessed
<1>5. RecordInv'
  BY <1>2, <1>3, <1>4 DEF AttemptInv, RecordInv, LocationOf, PayloadFor, MaterializationOf
<1>6. \A d \in Command : command'[d] = command[d] => AttemptCallInv(d)'
  BY <1>1, CallKept DEF AttemptInv
<1> QED
  BY <1>5, <1>6

LEMMA WriterMoves ==
    ASSUME AttemptInv, NEW c \in Command, command[c].pc \in Running,
           NEW pc \in {"link", "verify"}, Goto(c, pc), command[c].row \in intents,
           UNCHANGED <<intents, outcomes, interference>>, Observe,
           file' \in [Location -> Bytes \union {None, Obstacle}]
    PROVE  AttemptInv'
<1>1. AttemptTypeInv /\ command[c] \in CommandState /\ command[c].result = None
  BY DEF AttemptInv, AttemptTypeInv, AttemptCallInv, Running
<1>2. /\ command' \in [Command -> CommandState]
      /\ \A d \in Command \ {c} : command'[d] = command[d]
      /\ command'[c].pc = pc /\ command'[c].row = command[c].row
      /\ command'[c].result = None
  BY <1>1, GotoBecomes, BecomesEffect DEF CommandState, Running
<1>3. AttemptCallInv(c)'
  BY <1>2, NoneAssumption DEF AttemptCallInv, Deliveries, Attempts, Results
<1>4. RecordInv' /\ \A d \in Command : AttemptCallInv(d)'
  BY <1>2, <1>3, FileStepKeeps
<1>5. AttemptTypeInv'
  BY <1>1, <1>2 DEF AttemptTypeInv
<1> QED
  BY <1>4, <1>5 DEF AttemptInv

LEMMA UnlinkDestinationKeeps ==
    ASSUME AttemptInv, NEW c \in Command, UnlinkDestination(c)
    PROVE  AttemptInv'
<1>1. /\ command[c].pc \in Running /\ command[c].row \in intents
      /\ UNCHANGED <<intents, outcomes, interference>> /\ Observe /\ Goto(c, "link")
  BY DEF UnlinkDestination, AttemptInv, AttemptCallInv, Attempts, Running
<1>2. file' \in [Location -> Bytes \union {None, Obstacle}]
  BY DEF UnlinkDestination, AttemptInv, AttemptTypeInv
<1> QED
  BY <1>1, <1>2, WriterMoves

LEMMA PayloadType ==
    ASSUME NEW row \in Intent
    PROVE  LocationOf(row) \in Location /\ PayloadFor(row) \in Bytes
BY PayloadAssumption DEF Intent, Pair, LocationOf, PayloadFor, MaterializationOf

LEMMA LinkDestinationKeeps ==
    ASSUME AttemptInv, NEW c \in Command, LinkDestination(c)
    PROVE  AttemptInv'
<1> DEFINE row == command[c].row
           l   == LocationOf(row)
<1>1. /\ AttemptTypeInv /\ AttemptCallInv(c) /\ command[c].pc = "link"
      /\ command[c].pc \in Running /\ command[c].pc \in Attempts
      /\ row \in intents /\ row \in Intent
      /\ UNCHANGED <<intents, outcomes, interference>> /\ Observe
  BY DEF LinkDestination, AttemptInv, AttemptTypeInv, AttemptCallInv, Attempts, Running
<1>2. CASE file[l] = None
  <2>1. file' = [file EXCEPT ![l] = PayloadFor(row)] /\ Goto(c, "verify")
    BY <1>2 DEF LinkDestination
  <2>2. file' \in [Location -> Bytes \union {None, Obstacle}]
    BY <1>1, <2>1, PayloadType DEF AttemptTypeInv
  <2> QED
    BY <1>1, <2>1, <2>2, WriterMoves
<1>3. CASE file[l] # None
  <2>1. Conclude(c, Failed(row, "destination_exists_different")) /\ UNCHANGED file
    BY <1>3 DEF LinkDestination
  <2>2. witnessed' = witnessed
    <3>1. \A r \in intents : file[LocationOf(r)] = PayloadFor(r) => r \in witnessed
      BY DEF AttemptInv, RecordInv
    <3> QED
      BY <1>1, <2>1, <3>1 DEF Observe
  <2> QED
    BY <1>1, <2>1, <2>2, FailureKeeps DEF Category
<1> QED
  BY <1>2, <1>3

LEMMA WriteFailsKeeps ==
    ASSUME AttemptInv, NEW c \in Command, WriteFails(c)
    PROVE  AttemptInv'
BY FailureKeeps DEF WriteFails, Attempts, Category

LEMMA DestinationUnsafeKeeps ==
    ASSUME AttemptInv, NEW c \in Command, DestinationUnsafe(c)
    PROVE  AttemptInv'
BY FailureKeeps DEF DestinationUnsafe, Attempts, Category

LEMMA InspectionRaisesKeeps ==
    ASSUME AttemptInv, NEW c \in Command, InspectionRaises(c)
    PROVE  AttemptInv'
BY ReturnKeeps DEF InspectionRaises, Results

LEMMA VerifyDestinationKeeps ==
    ASSUME AttemptInv, NEW c \in Command, VerifyDestination(c)
    PROVE  AttemptInv'
<1> DEFINE row == command[c].row
<1>1. /\ command[c].pc \in Attempts
      /\ UNCHANGED <<intents, outcomes, file, interference, witnessed>>
  BY DEF VerifyDestination, Attempts
<1>2. CASE file[LocationOf(row)] = PayloadFor(row)
  BY <1>1, <1>2, SuccessKeeps DEF VerifyDestination
<1>3. CASE file[LocationOf(row)] # PayloadFor(row)
  <2>1. Conclude(c, Failed(row, "verification_failed"))
    BY <1>3 DEF VerifyDestination
  <2> QED
    BY <1>1, <2>1, FailureKeeps DEF Category
<1> QED
  BY <1>2, <1>3

LEMMA ObserveDestinationKeeps ==
    ASSUME AttemptInv, NEW c \in Command, ObserveDestination(c)
    PROVE  AttemptInv'
<1> DEFINE row == command[c].row
<1>1. /\ command[c].pc \in Attempts
      /\ UNCHANGED <<intents, outcomes, file, interference, witnessed>>
  BY DEF ObserveDestination, Attempts
<1>2. \/ file[LocationOf(row)] = PayloadFor(row) /\ Conclude(c, Delivered(row))
      \/ Conclude(c, Failed(row, "destination_missing"))
      \/ Conclude(c, Failed(row, "verification_failed"))
  BY DEF ObserveDestination
<1> QED
  BY <1>1, <1>2, SuccessKeeps, FailureKeeps DEF Category

\* The outcome recorded is the justified verdict; it is the first of its
\* attempt.
LEMMA RecordOutcomeKeeps ==
    ASSUME AttemptInv, NEW c \in Command, RecordOutcome(c)
    PROVE  AttemptInv'
<1> DEFINE verdict == command[c].verdict
<1>1. /\ AttemptTypeInv /\ RecordInv /\ AttemptCallInv(c) /\ command[c] \in CommandState
      /\ verdict \in Verdict /\ verdict.delivery \in intents
      /\ verdict.state = "delivered" => verdict.delivery \in witnessed
      /\ UNCHANGED <<intents, file, interference, witnessed>>
  BY DEF RecordOutcome, AttemptInv, AttemptTypeInv, AttemptCallInv
<1>2. CASE OutcomesOf(verdict.delivery) # {}
  BY <1>1, <1>2, ReturnKeeps DEF RecordOutcome, Results
<1>3. CASE OutcomesOf(verdict.delivery) = {}
  <2>1. outcomes' = outcomes \union {verdict} /\ Return(c, verdict.state)
    BY <1>3 DEF RecordOutcome
  <2>2. verdict.state \in {"delivered", "failed"}
    BY <1>1 DEF Verdict
  <2>3. /\ command' \in [Command -> CommandState]
        /\ \A d \in Command \ {c} : command'[d] = command[d]
        /\ command'[c].pc = "returned" /\ command'[c].result = verdict.state
    <3>1. Becomes(c, "returned", command[c].row, verdict, verdict.state)
      BY <1>1, <2>1, ReturnBecomes
    <3>2. command[c].row \in MaybeIntent
      BY <1>1 DEF CommandState
    <3>3. verdict.state \in Results \union {None}
      BY <2>2 DEF Results
    <3> HIDE DEF verdict
    <3> QED
      BY <1>1, <3>1, <3>2, <3>3, ReturnEffect
  <2>4. AttemptCallInv(c)'
    BY <2>2, <2>3 DEF AttemptCallInv, Deliveries, Attempts
  <2>5. \A d \in Command : AttemptCallInv(d)'
    BY <1>1, <2>1, <2>3, <2>4, CallKept DEF AttemptInv
  <2>6. AttemptTypeInv'
    BY <1>1, <2>1, <2>3 DEF AttemptTypeInv
  <2>7. RecordInv'
    <3>1. \A old : OutcomesOf(old) # {} => OutcomesOf(old)' # {}
      BY <2>1 DEF OutcomesOf
    <3>2. OneOpenAttempt'
      BY <1>1, <3>1 DEF RecordInv, OneOpenAttempt
    <3>3. DeliveredWasWitnessed'
      BY <1>1, <2>1 DEF RecordInv, DeliveredWasWitnessed
    <3> QED
      BY <1>1, <2>1, <3>2, <3>3 DEF RecordInv
  <2> QED
    BY <2>5, <2>6, <2>7 DEF AttemptInv
<1> QED
  BY <1>2, <1>3

LEMMA StorageFailsKeeps ==
    ASSUME AttemptInv, NEW c \in Command, StorageFails(c)
    PROVE  AttemptInv'
BY ReturnKeeps DEF StorageFails, Results

LEMMA RejectSourceKeeps ==
    ASSUME AttemptInv, NEW c \in Command, RejectSource(c)
    PROVE  AttemptInv'
BY ReturnKeeps DEF RejectSource, Results

LEMMA ReconcileKeeps ==
    ASSUME AttemptInv, NEW c \in Command, NEW row \in intents, Reconcile(c, row)
    PROVE  AttemptInv'
<1>1. /\ AttemptTypeInv /\ command[c] \in CommandState /\ command[c].pc = "idle"
      /\ command[c].result = None /\ row \in MaybeIntent
  BY DEF Reconcile, AttemptInv, AttemptTypeInv, AttemptCallInv, MaybeIntent
<1>2. Becomes(c, "reconcile", row, command[c].verdict, command[c].result)
  BY <1>1, RowBecomes DEF Reconcile
<1>3. /\ command' \in [Command -> CommandState]
      /\ \A d \in Command \ {c} : command'[d] = command[d]
      /\ command'[c].pc = "reconcile" /\ command'[c].row = row
      /\ command'[c].result = None
  BY <1>1, <1>2, BecomesEffect DEF CommandState, Running
<1>4. AttemptCallInv(c)'
  BY <1>3, NoneAssumption DEF Reconcile, AttemptCallInv, Deliveries, Attempts, Results
<1> QED
  BY <1>3, <1>4, LocalStep DEF Reconcile

LEMMA CheckPendingKeeps ==
    ASSUME AttemptInv, NEW c \in Command, CheckPending(c)
    PROVE  AttemptInv'
<1>1. /\ command[c].pc \in Running /\ command[c].row \in intents
      /\ UNCHANGED <<intents, outcomes, file, interference, witnessed>>
      /\ Goto(c, "observe") \/ Return(c, "reused")
  BY DEF CheckPending, AttemptInv, AttemptCallInv, Attempts, Running
<1> QED
  BY <1>1, GotoKeeps, ReturnKeeps DEF Running, Deliveries, Results

-----------------------------------------------------------------------------
(* The environment. *)

LEMMA KillKeeps ==
    ASSUME AttemptInv, NEW c \in Command, Kill(c)
    PROVE  AttemptInv'
BY GotoKeeps DEF Kill, Running, Deliveries, Attempts

LEMMA InterfereKeeps ==
    ASSUME AttemptInv, NEW l \in Location, NEW held \in Bytes \union {None, Obstacle},
           Interfere(l, held)
    PROVE  AttemptInv'
<1>1. file' \in [Location -> Bytes \union {None, Obstacle}]
  BY DEF Interfere, AttemptInv, AttemptTypeInv
<1>2. RecordInv' /\ \A d \in Command : AttemptCallInv(d)'
  BY <1>1, FileStepKeeps DEF Interfere
<1>3. AttemptTypeInv'
  BY <1>1 DEF Interfere, AttemptInv, AttemptTypeInv
<1> QED
  BY <1>2, <1>3 DEF AttemptInv

-----------------------------------------------------------------------------
(* The invariant. *)

\* What a table of intents with at most one row satisfies at the start.
Startable(table) ==
    /\ table \subseteq Intent /\ IsFiniteSet(table)
    /\ Chained(table)
    /\ \A s \in Pair : Contiguous(table, s)
    /\ \A row, other \in table : row = other

\* A first attempt that a dead process left behind is a history of its own.
LEMMA DanglingIsSound ==
    ASSUME NEW m \in Materialization, NEW l \in Location, NEW overwrite \in BOOLEAN
    PROVE  Startable({Dangling(m, l, overwrite)})
<1> DEFINE row == Dangling(m, l, overwrite)
<1>1. /\ row = [scope |-> <<m, l>>, target |-> overwrite, sequence |-> 0,
                previous |-> NoIdentity, note |-> None]
  BY DEF Dangling, Successor, NoRow
<1>2. row \in Intent
  BY <1>1 DEF Intent, Pair
<1>3. Chained({row})
  BY <1>1 DEF Chained
<1>4. ~SlotTaken({}, row) /\ IsFiniteSet({})
  BY FS_EmptySet DEF SlotTaken
<1>5. Contiguous({}, row.scope) /\ row.sequence \in Nat /\ row.sequence <= Height({}, row.scope)
  BY <1>1, EmptyHistory
<1> HIDE DEF row
<1>6. Contiguous({} \union {row}, row.scope)
  BY <1>4, <1>5, AppendKeepsContiguous
<1>7. \A s : s # row.scope => /\ RowsOf({} \union {row}, s) = RowsOf({}, s)
                             /\ Height({} \union {row}, s) = Height({}, s)
  BY <1>4, InsertAddsOne
<1>8. \A s : Contiguous({} \union {row}, s)
  BY <1>6, <1>7, EmptyHistory DEF Contiguous
<1>9. {} \union {row} = {row}
  OBVIOUS
<1>10. IsFiniteSet({row}) /\ \A r, other \in {row} : r = other
  BY FS_Singleton
<1> QED
  BY <1>2, <1>3, <1>8, <1>9, <1>10 DEF row, Startable

LEMMA InitEstablishes ==
    ASSUME Init
    PROVE  AttemptInv
<1>1. /\ outcomes = {} /\ witnessed = {} /\ interference = 0
      /\ file = [l \in Location |-> None]
      /\ command = [c \in Command |-> NotStarted]
  BY DEF Init
<1>2. Startable(intents)
  <2>1. CASE intents = {}
    BY <2>1, EmptyHistory, FS_EmptySet DEF History, Startable
  <2>2. ASSUME NEW m \in Leftover, NEW l \in Location, NEW overwrite \in BOOLEAN,
               intents = {Dangling(m, l, overwrite)}
        PROVE  Startable(intents)
    BY <2>2, DanglingIsSound, LeftoverAssumption
  <2> QED
    BY <2>1, <2>2 DEF Init
<1>3. AttemptTypeInv
  <2>1. NotStarted \in CommandState
    BY DEF NotStarted, CommandState, MaybeIntent
  <2> QED
    BY <1>1, <1>2, <2>1 DEF AttemptTypeInv, Startable
<1>4. RecordInv
  <2>1. OneOpenAttempt
    BY <1>2 DEF OneOpenAttempt, Intent, Startable
  <2>2. \A row \in intents : file[LocationOf(row)] # PayloadFor(row)
    <3> SUFFICES ASSUME NEW row \in intents PROVE file[LocationOf(row)] # PayloadFor(row)
      OBVIOUS
    <3>1. LocationOf(row) \in Location /\ PayloadFor(row) \in Bytes
      BY <1>2, PayloadType DEF Startable
    <3> QED
      BY <1>1, <3>1, FileAssumption
  <2> QED
    BY <1>1, <1>2, <2>1, <2>2 DEF RecordInv, DeliveredWasWitnessed, Startable
<1>5. \A c \in Command : AttemptCallInv(c)
  BY <1>1, NoneAssumption DEF AttemptCallInv, NotStarted, Deliveries, Attempts, Results
<1> QED
  BY <1>3, <1>4, <1>5 DEF AttemptInv

LEMMA NextKeeps ==
    ASSUME AttemptInv, Next
    PROVE  AttemptInv'
<1>1. ASSUME NEW c \in Command, Advance(c)
      PROVE  AttemptInv'
  BY <1>1, RejectSourceKeeps, ReadLatestKeeps, ReadLatestOutcomeKeeps, PersistIntentKeeps,
     IntentCollidesKeeps, ConvergeKeeps, InspectDestinationKeeps, UnlinkDestinationKeeps,
     LinkDestinationKeeps, WriteFailsKeeps, DestinationUnsafeKeeps, InspectionRaisesKeeps,
     VerifyDestinationKeeps, RecordOutcomeKeeps, StorageFailsKeeps, CheckPendingKeeps,
     ObserveDestinationKeeps
     DEF Advance
<1>2. ASSUME NEW c \in Command,
             \/ \E m \in Materialization, l \in Location, overwrite \in BOOLEAN :
                   Deliver(c, m, l, overwrite)
             \/ \E row \in intents : Reconcile(c, row)
             \/ Kill(c)
      PROVE  AttemptInv'
  BY <1>2, DeliverKeeps, ReconcileKeeps, KillKeeps
<1> QED
  BY <1>1, <1>2, InterfereKeeps DEF Next

LEMMA StutterKeeps ==
    ASSUME AttemptInv, UNCHANGED vars
    PROVE  AttemptInv'
BY
   DEF vars, AttemptInv, AttemptTypeInv, RecordInv, OneOpenAttempt, DeliveredWasWitnessed,
       OutcomesOf,
       AttemptCallInv, Closed, Diverges, NewIntent, SlotTaken

\* The records, the bookkeeping of every command and what is known of the
\* destinations always fit together.
THEOREM AttemptInvHolds == Spec => []AttemptInv
<1>1. AttemptInv /\ [Next]_vars => AttemptInv'
  BY NextKeeps, StutterKeeps
<1> QED
  BY <1>1, InitEstablishes, PTL DEF Spec

-----------------------------------------------------------------------------
(* The properties. *)

\* DELIVERED is recorded, by a deliver or a reconcile, only for bytes that
\* were at the destination after the intent was recorded.
THEOREM DeliveredWasWitnessedHolds == Spec => []DeliveredWasWitnessed
<1>1. AttemptInv => DeliveredWasWitnessed
  BY DEF AttemptInv, RecordInv
<1> QED
  BY <1>1, AttemptInvHolds, PTL

\* A (materialization, location) pair never has two open attempts: a dangling
\* PENDING intent is completed or reconciled before the next one is recorded.
THEOREM OneOpenAttemptHolds == Spec => []OneOpenAttempt
<1>1. AttemptInv => OneOpenAttempt
  BY DEF AttemptInv, RecordInv
<1> QED
  BY <1>1, AttemptInvHolds, PTL

\* A deliver raises a conflict only if a request with the other overwrite
\* policy is on record for its pair.
THEOREM ConflictMeansDivergenceHolds == Spec => []ConflictMeansDivergence
<1>1. AttemptInv => ConflictMeansDivergence
  BY DEF AttemptInv, AttemptCallInv, Diverges, ConflictMeansDivergence
<1> QED
  BY <1>1, AttemptInvHolds, PTL

\* Only the two steps of the destination writer change a file, and both do so
\* for a recorded attempt.
LEMMA ChangesAreRecorded ==
    ASSUME AttemptInv, Next, OwnStep, NEW l \in Location, file'[l] # file[l]
    PROVE  RecordedChange(l)
<1>1. interference \in Nat /\ file \in [Location -> Bytes \union {None, Obstacle}]
  BY DEF AttemptInv, AttemptTypeInv
<1>2. ASSUME NEW at \in Location, NEW held, Interfere(at, held)
      PROVE  FALSE
  BY <1>1, <1>2 DEF Interfere, OwnStep
<1>3. PICK c \in Command : UnlinkDestination(c) \/ LinkDestination(c)
  <2>1. PICK c \in Command :
           \/ \E m \in Materialization, at \in Location, overwrite \in BOOLEAN :
                 Deliver(c, m, at, overwrite)
           \/ \E row \in intents : Reconcile(c, row)
           \/ Advance(c)
           \/ Kill(c)
    BY <1>2 DEF Next
  <2> QED
    BY <2>1 DEF Deliver, Reconcile, Kill, Advance, RejectSource, ReadLatest,
                ReadLatestOutcome, PersistIntent, IntentCollides, Converge,
                InspectDestination, WriteFails, DestinationUnsafe, InspectionRaises,
                VerifyDestination, RecordOutcome, StorageFails, CheckPending,
                ObserveDestination
<1> DEFINE row == command[c].row
<1>4. CASE UnlinkDestination(c)
  <2>1. row \in intents /\ row.target
    BY <1>4 DEF UnlinkDestination, AttemptInv, AttemptCallInv, Attempts
  <2>2. l = LocationOf(row) /\ file[l] # None
    BY <1>1, <1>4 DEF UnlinkDestination
  <2> QED
    BY <2>1, <2>2 DEF RecordedChange
<1>5. CASE LinkDestination(c)
  <2>1. row \in intents /\ file[LocationOf(row)] = None
        /\ file' = [file EXCEPT ![LocationOf(row)] = PayloadFor(row)]
    BY <1>5 DEF LinkDestination, AttemptInv, AttemptCallInv, Attempts
  <2>2. l = LocationOf(row) /\ file'[l] = PayloadFor(row)
    BY <1>1, <2>1
  <2> QED
    BY <2>1, <2>2 DEF RecordedChange
<1> QED
  BY <1>3, <1>4, <1>5

\* A command puts bytes in place only under a durable intent for exactly those
\* bytes at that location, and takes bytes away only under an intent recorded
\* with overwrite.
THEOREM DestinationFollowsRecordHolds == Spec => DestinationFollowsRecord
<1>1. AttemptInv /\ [Next]_vars =>
          [OwnStep => \A l \in Location : file'[l] # file[l] => RecordedChange(l)]_vars
  BY ChangesAreRecorded
<1> QED
  BY <1>1, AttemptInvHolds, PTL DEF Spec, DestinationFollowsRecord

-----------------------------------------------------------------------------
(* The refinement: the tables and files of deliveries are a DeliveryLedger.  *)

\* A step that neither records, closes nor changes a file is a stutter.
LEMMA LedgerRests ==
    ASSUME UNCHANGED <<intents, outcomes, file, witnessed>>
    PROVE  UNCHANGED Ledger!ledger
BY DEF Ledger!ledger, StateOf, OutcomesOf

\* Recording an intent records a delivery without an outcome.
LEMMA LedgerRecords ==
    ASSUME AttemptInv, NEW c \in Command, PersistIntent(c)
    PROVE  Ledger!Next
<1> DEFINE new == NewIntent(c)
<1>1. /\ new \notin intents /\ intents' = intents \union {new}
      /\ UNCHANGED <<outcomes, file>> /\ Observe
  BY DEF PersistIntent, IdentityExists, Identity
<1>2. OutcomesOf(new) = {}
  BY <1>1 DEF AttemptInv, RecordInv, OutcomesOf
<1>3. /\ \A row : OutcomesOf(row)' = OutcomesOf(row)
      /\ \A row : StateOf(row)' = StateOf(row)
  BY <1>1 DEF OutcomesOf, StateOf
<1>4. StateOf(new) = "pending"
  BY <1>2 DEF StateOf
<1>5. Ledger!Record(new)
  BY <1>1, <1>3, <1>4 DEF Ledger!Record, Ledger!Recorded, Ledger!InPlace, Observe
<1>6. new \in Ledger!Recorded'
  BY <1>1 DEF Ledger!Recorded
<1> QED
  BY <1>5, <1>6 DEF Ledger!Next

\* Whoever changes a file changes one destination.
LEMMA LedgerChanges ==
    ASSUME NEW l \in Location, NEW held \in Bytes \union {None, Obstacle},
           file' = [file EXCEPT ![l] = held], UNCHANGED <<intents, outcomes>>, Observe
    PROVE  Ledger!Next
<1>1. [row \in intents |-> StateOf(row)]' = [row \in intents |-> StateOf(row)]
  BY DEF StateOf, OutcomesOf
<1>2. Ledger!Change(l, held)
  BY <1>1 DEF Ledger!Change, Ledger!InPlace, Ledger!Recorded, Observe
<1> QED
  BY <1>2 DEF Ledger!Next

\* The first outcome of an intent closes its delivery; a second is refused.
LEMMA LedgerCloses ==
    ASSUME AttemptInv, NEW c \in Command, RecordOutcome(c)
    PROVE  Ledger!Next \/ UNCHANGED Ledger!ledger
<1>1. PICK verdict \in Verdict : verdict = command[c].verdict
  BY DEF RecordOutcome, AttemptInv, AttemptCallInv
<1>2. PICK row \in intents : row = verdict.delivery
  BY <1>1 DEF RecordOutcome, AttemptInv, AttemptCallInv
<1>3. /\ verdict.state = "delivered" => row \in witnessed
      /\ UNCHANGED <<intents, file, witnessed>>
  BY <1>1, <1>2 DEF RecordOutcome, AttemptInv, AttemptCallInv
<1>4. CASE OutcomesOf(row) # {}
  BY <1>1, <1>2, <1>3, <1>4, LedgerRests DEF RecordOutcome
<1>5. CASE OutcomesOf(row) = {}
  <2>1. outcomes' = outcomes \union {verdict}
    BY <1>1, <1>2, <1>5 DEF RecordOutcome
  <2>2. \A other \in intents : other # row => StateOf(other)' = StateOf(other)
    BY <1>2, <2>1 DEF StateOf, OutcomesOf
  <2>3. OutcomesOf(row)' = {verdict}
    BY <1>2, <1>5, <2>1 DEF OutcomesOf
  <2>4. /\ verdict.state \in {"delivered", "failed"}
        /\ StateOf(row) = "pending" /\ StateOf(row)' = verdict.state
    BY <1>1, <1>5, <2>3 DEF StateOf, Verdict
  <2>5. [other \in intents |-> StateOf(other)]'
        = [[other \in intents |-> StateOf(other)] EXCEPT ![row] = verdict.state]
    BY <1>3, <2>2, <2>4
  <2>6. [other \in intents |-> StateOf(other)][row] = "pending"
    BY <1>2, <2>4
  <2>7. Ledger!Close(row, verdict.state)
    BY <1>3, <2>5, <2>6 DEF Ledger!Close
  <2> QED
    BY <1>2, <2>4, <2>7 DEF Ledger!Next, Ledger!Recorded
<1> QED
  BY <1>4, <1>5

\* Every other step of a command leaves the ledger alone.
LEMMA LedgerFollows ==
    ASSUME AttemptInv, Next
    PROVE  Ledger!Next \/ UNCHANGED Ledger!ledger
<1>1. CASE \E l \in Location, held \in Bytes \union {None, Obstacle} : Interfere(l, held)
  BY <1>1, LedgerChanges DEF Interfere
<1>2. ASSUME NEW c \in Command, UnlinkDestination(c)
      PROVE  Ledger!Next
  <2>1. command[c].row \in Intent
    BY <1>2 DEF UnlinkDestination, AttemptInv, AttemptTypeInv, AttemptCallInv, Attempts
  <2>2. LocationOf(command[c].row) \in Location
    BY <2>1 DEF Intent, Pair, LocationOf
  <2> QED
    BY <1>2, <2>2, LedgerChanges DEF UnlinkDestination
<1>3. ASSUME NEW c \in Command, LinkDestination(c)
      PROVE  Ledger!Next \/ UNCHANGED Ledger!ledger
  <2> DEFINE row == command[c].row
             l == LocationOf(row)
  <2>1. row \in intents /\ row \in Intent
    BY <1>3 DEF LinkDestination, AttemptInv, AttemptTypeInv, AttemptCallInv, Attempts
  <2>2. l \in Location /\ PayloadFor(row) \in Bytes
    BY <2>1, PayloadAssumption DEF Intent, Pair, LocationOf, PayloadFor, MaterializationOf
  <2>3. CASE file[l] = None
    BY <1>3, <2>2, <2>3, LedgerChanges DEF LinkDestination
  <2>4. CASE file[l] # None
    <3>1. UNCHANGED <<intents, outcomes, file>> /\ Observe
      BY <1>3, <2>4 DEF LinkDestination
    <3>2. witnessed' = witnessed
      BY <3>1 DEF Observe, AttemptInv, RecordInv
    <3> QED
      BY <3>1, <3>2, LedgerRests
  <2> QED
    BY <2>3, <2>4
<1>4. ASSUME NEW c \in Command,
             \/ \E m \in Materialization, l \in Location, overwrite \in BOOLEAN :
                   Deliver(c, m, l, overwrite)
             \/ \E row \in intents : Reconcile(c, row)
             \/ Advance(c)
             \/ Kill(c)
      PROVE  Ledger!Next \/ UNCHANGED Ledger!ledger
  <2>1. CASE \/ PersistIntent(c) \/ RecordOutcome(c)
             \/ UnlinkDestination(c) \/ LinkDestination(c)
    BY <1>2, <1>3, <2>1, LedgerRecords, LedgerCloses
  <2>2. CASE ~(\/ PersistIntent(c) \/ RecordOutcome(c)
               \/ UnlinkDestination(c) \/ LinkDestination(c))
    <3>1. UNCHANGED <<intents, outcomes, file, witnessed>>
      BY <1>4, <2>2
         DEF Deliver, Reconcile, Kill, Advance, RejectSource, ReadLatest, ReadLatestOutcome,
             IntentCollides, Converge, InspectDestination, WriteFails, DestinationUnsafe,
             InspectionRaises, VerifyDestination, StorageFails, CheckPending, ObserveDestination
    <3> QED
      BY <3>1, LedgerRests
  <2> QED
    BY <2>1, <2>2
<1> QED
  BY <1>1, <1>4 DEF Next

\* The tables, files and races of Effective SRT Delivery implement the ledger
\* that Effective SRT Publication relies on.
THEOREM LedgerImplemented == Spec => ImplementsLedger
<1>1. Init => Ledger!Init
  <2> SUFFICES ASSUME Init PROVE Ledger!Init
    OBVIOUS
  <2>1. \A row : StateOf(row) = "pending"
    BY DEF Init, StateOf, OutcomesOf
  <2> QED
    BY <2>1 DEF Init, Ledger!Init, Ledger!Recorded
<1>2. AttemptInv /\ [Next]_vars => [Ledger!Next]_Ledger!ledger
  <2> SUFFICES ASSUME AttemptInv, [Next]_vars
               PROVE  Ledger!Next \/ UNCHANGED Ledger!ledger
    OBVIOUS
  <2>1. CASE Next
    BY <2>1, LedgerFollows
  <2>2. CASE UNCHANGED vars
    BY <2>2, LedgerRests DEF vars
  <2> QED
    BY <2>1, <2>2
<1> QED
  BY <1>1, <1>2, AttemptInvHolds, PTL DEF Spec, ImplementsLedger, Ledger!Spec

(*****************************************************************************)
(* III. SrtPublication: what is published, and whether it is there.          *)
(*                                                                           *)
(* The invariant relates three histories: a published delivery was DELIVERED *)
(* when it was published and still is; what a command has read as current is *)
(* not older than its call; and as long as one standing only has held while a *)
(* query asks, whatever the query has read so far is of that standing.       *)
(*****************************************************************************)

PublicationRow ==
    [scope : DeliveryIntake, target : PublicationTarget, sequence : Nat,
     previous : {NoIdentity} \union (DeliveryIntake \X PublicationTarget \X Nat),
     note : Publisher]

MaybePublication == PublicationRow \union {NoRow}

RequestState ==
    [pc : RequestRunning \union {"idle", "returned", "killed"},
     intake : DeliveryIntake \union {None}, target : PublicationTarget \union {None},
     publisher : Publisher \union {None}, after : {"observe", "current", None},
     row : MaybePublication, start : Nat, outcome : PublicationOutcomes \union {None}]

Availabilities ==
    {"not_published", "withdrawn", "unresolvable", "available", "destination_missing",
     "destination_mismatch"}

ReaderState ==
    [pc : Asking \union {"idle", "answered"}, intake : DeliveryIntake \union {None},
     about : MaybePublication, current : MaybePublication,
     seen : Observations \union {None}, answer : Availabilities \union {None}]

DeliveryTypeInv ==
    /\ outcome \in [Delivery -> {"pending", "delivered", "failed"}]
    /\ destination \in [Location -> Bytes \union {None, Obstacle}]

PublicationTypeInv ==
    /\ DeliveryTypeInv
    /\ publications \subseteq PublicationRow /\ IsFiniteSet(publications)
    /\ request \in [PublicationCommand -> RequestState]
    /\ reader \in [Reader -> ReaderState]

\* The publications of each intake form a chain, every publish is of a
\* DELIVERED delivery, and of one of its own intake.
PublicationTableInv ==
    /\ History(publications)
    /\ \A i \in DeliveryIntake : Contiguous(publications, i)
    /\ UndeliveredTargets = {}
    /\ ScopeMismatches = {}

\* A record of somebody else's wish, made while c ran.
Overtaken(c) ==
    \E row \in RowsOf(publications, request[c].intake) :
        /\ row.sequence >= request[c].start
        /\ <<row.target, row.note>> # <<request[c].target, request[c].publisher>>

\* The same wish of the same person, recorded while c ran.
Granted(c) ==
    /\ request[c].row \in RowsOf(publications, request[c].intake)
    /\ request[c].row.sequence >= request[c].start
    /\ request[c].row.target = request[c].target
    /\ request[c].row.note = request[c].publisher

Checked == {"observe", "current", "persist", "resolve"}

\* The bookkeeping of one publish or withdraw: its arguments belong together;
\* past its check a delivery it publishes is DELIVERED; what it read as
\* current is at least as recent as the call; and what a lost race ended in.
RequestInv(c) ==
    /\ request[c].pc = "idle" => request[c] = NotRequested
    /\ request[c].pc # "returned" => request[c].outcome = None
    /\ request[c].pc \in RequestRunning =>
          /\ request[c].intake \in DeliveryIntake
          /\ request[c].target \in PublicationTarget
          /\ request[c].publisher \in Publisher
          /\ request[c].start <= Height(publications, request[c].intake)
          /\ request[c].target # Withdraw =>
                request[c].intake = IntakeOfDelivery[request[c].target[2]]
    /\ request[c].pc = "outcome" => request[c].after \in {"observe", "current"}
    /\ request[c].pc \in Checked /\ request[c].target # Withdraw =>
          outcome[request[c].target[2]] = "delivered"
    /\ request[c].pc \in {"persist", "resolve"} =>
          /\ Usable(publications, request[c].row, request[c].intake, request[c].target)
          /\ request[c].start <= request[c].row.sequence + 1
    /\ request[c].pc = "resolve" => SlotTaken(publications, NewPublication(c))
    /\ request[c].outcome = "converged" => Granted(c)
    /\ request[c].outcome = "conflict" => Overtaken(c)

\* The bookkeeping of one query: what holds while it asks has been witnessed;
\* and if only one standing has been, what it read and saw, and in the end
\* its answer, are of that standing.
ReaderInv(u) ==
    /\ reader[u].pc \in Asking =>
          reader[u].intake \in DeliveryIntake /\ StandingFor(u) \subseteq standings[u]
    /\ reader[u].pc \in {"idle", "current", "look"} => reader[u].seen = None
    /\ reader[u].about # NoRow => reader[u].about \in publications
    /\ reader[u].pc = "look" => reader[u].about # NoRow /\ Published(reader[u].about)
    /\ \A standing \in standings[u] : standings[u] = {standing} =>
          /\ reader[u].pc \in {"look", "derive", "answered"} =>
                reader[u].current = standing.current
          /\ reader[u].seen # None /\ reader[u].about = reader[u].current =>
                AvailabilityOf(reader[u].seen) = standing.availability
          /\ reader[u].pc = "answered" => reader[u].answer = standing.availability

PublicationInv ==
    /\ PublicationTypeInv
    /\ PublicationTableInv
    /\ \A c \in PublicationCommand : RequestInv(c)
    /\ \A u \in Reader : ReaderInv(u)

-----------------------------------------------------------------------------
(* Publications. *)

\* A publish is told from a withdrawal by its target.
LEMMA PublishedMeans ==
    ASSUME NEW target \in PublicationTarget
    PROVE  /\ target # None
           /\ target[1] = "publish" <=> target # Withdraw
           /\ target # Withdraw => target[2] \in Delivery
BY PublicationNoneAssumption DEF PublicationTarget, Publish, Withdraw

\* What a query for the current publication returns is a typed row or none,
\* and there is always an answer.
LEMMA PublicationAnswerType ==
    ASSUME PublicationTypeInv, NEW i
    PROVE  /\ CurrentAnswers(publications, i) \subseteq MaybePublication
           /\ CurrentAnswers(publications, i) # {}
BY DEF PublicationTypeInv, CurrentAnswers, Newest, RowsOf, MaybePublication

-----------------------------------------------------------------------------
(* The commands: what their steps do to their local state. *)

RequestBecomes(c, pc, after, row, result) ==
    /\ request' \in [PublicationCommand -> RequestState]
    /\ \A d \in PublicationCommand \ {c} : request'[d] = request[d]
    /\ request'[c].pc = pc /\ request'[c].after = after
    /\ request'[c].row = row /\ request'[c].outcome = result
    /\ request'[c].intake = request[c].intake
    /\ request'[c].target = request[c].target
    /\ request'[c].publisher = request[c].publisher
    /\ request'[c].start = request[c].start

LEMMA RequestSet ==
    ASSUME PublicationTypeInv, NEW c \in PublicationCommand,
           NEW pc \in RequestRunning \union {"returned", "killed"},
           NEW after \in {"observe", "current", None}, NEW row \in MaybePublication,
           NEW result \in PublicationOutcomes \union {None},
           request' = [request EXCEPT ![c].pc = pc, ![c].after = after,
                                      ![c].row = row, ![c].outcome = result]
    PROVE  RequestBecomes(c, pc, after, row, result)
<1>1. request \in [PublicationCommand -> RequestState] /\ request[c] \in RequestState
  BY DEF PublicationTypeInv
<1>2. request'[c] =
        [pc |-> pc, intake |-> request[c].intake, target |-> request[c].target,
         publisher |-> request[c].publisher, after |-> after, row |-> row,
         start |-> request[c].start, outcome |-> result]
  BY <1>1 DEF RequestState
<1>3. /\ request'[c] \in RequestState
      /\ request'[c].pc = pc /\ request'[c].after = after
      /\ request'[c].row = row /\ request'[c].outcome = result
      /\ request'[c].intake = request[c].intake
      /\ request'[c].target = request[c].target
      /\ request'[c].publisher = request[c].publisher
      /\ request'[c].start = request[c].start
  BY <1>1, <1>2 DEF RequestState
<1>4. /\ request' \in [PublicationCommand -> RequestState]
      /\ \A d \in PublicationCommand \ {c} : request'[d] = request[d]
  BY <1>1, <1>3
<1> QED
  BY <1>3, <1>4 DEF RequestBecomes

LEMMA RequestGoes ==
    ASSUME PublicationTypeInv, NEW c \in PublicationCommand,
           NEW pc \in RequestRunning, RequestGoto(c, pc)
    PROVE  RequestBecomes(c, pc, request[c].after, request[c].row, request[c].outcome)
<1>1. request \in [PublicationCommand -> RequestState] /\ request[c] \in RequestState
  BY DEF PublicationTypeInv
<1>2. request' = [request EXCEPT ![c].pc = pc, ![c].after = request[c].after,
                                 ![c].row = request[c].row, ![c].outcome = request[c].outcome]
  BY <1>1 DEF RequestGoto, RequestState
<1> QED
  BY <1>1, <1>2, RequestSet DEF RequestState

LEMMA RequestLeaves ==
    ASSUME PublicationTypeInv, NEW c \in PublicationCommand,
           NEW pc \in {"returned", "killed"},
           NEW result \in PublicationOutcomes \union {None}, RequestLeave(c, pc, result)
    PROVE  RequestBecomes(c, pc, None, NoRow, result)
<1>1. request \in [PublicationCommand -> RequestState] /\ request[c] \in RequestState
  BY DEF PublicationTypeInv
<1>2. request' = [request EXCEPT ![c].pc = pc, ![c].after = None,
                                 ![c].row = NoRow, ![c].outcome = result]
  BY <1>1 DEF RequestLeave, RequestState
<1> QED
  BY <1>1, <1>2, RequestSet DEF MaybePublication

LEMMA RequestReads ==
    ASSUME PublicationTypeInv, NEW c \in PublicationCommand,
           NEW pc \in RequestRunning \union {"returned", "killed"},
           NEW row \in MaybePublication,
           NEW result \in PublicationOutcomes \union {None},
           request' = [request EXCEPT ![c].pc = pc, ![c].row = row, ![c].outcome = result]
    PROVE  RequestBecomes(c, pc, request[c].after, row, result)
<1>1. request \in [PublicationCommand -> RequestState] /\ request[c] \in RequestState
  BY DEF PublicationTypeInv
<1>2. request'[c] =
        [pc |-> pc, intake |-> request[c].intake, target |-> request[c].target,
         publisher |-> request[c].publisher, after |-> request[c].after, row |-> row,
         start |-> request[c].start, outcome |-> result]
  BY <1>1 DEF RequestState
<1>3. request' = [request EXCEPT ![c] = request'[c]]
  BY <1>1, <1>2
<1>4. request'[c] \in RequestState
  BY <1>1, <1>2 DEF RequestState
<1>5. /\ request' \in [PublicationCommand -> RequestState]
      /\ \A d \in PublicationCommand \ {c} : request'[d] = request[d]
  BY <1>1, <1>3, <1>4
<1> QED
  BY <1>2, <1>5 DEF RequestBecomes

-----------------------------------------------------------------------------
(* Steps seen by those who do not take them. *)

\* Publications only grow and a DELIVERED delivery stays DELIVERED, so a
\* command that does not move stays right.
LEMMA RequestKept ==
    ASSUME PublicationTypeInv, PublicationTypeInv',
           \A row \in publications : row.sequence \in Int,
           publications \subseteq publications',
           \A d \in Delivery : outcome[d] = "delivered" => outcome'[d] = "delivered",
           NEW c \in PublicationCommand, RequestInv(c), request'[c] = request[c]
    PROVE  RequestInv(c)'
<1> DEFINE i == request[c].intake
           target == request[c].target
<1>1. IsFiniteSet(publications')
  BY DEF PublicationTypeInv
<1>2. /\ Height(publications, i) \in Nat /\ Height(publications', i) \in Nat
      /\ Height(publications, i) <= Height(publications', i)
  BY <1>1, HeightGrows
<1>3. Usable(publications, request[c].row, i, target)
        => Usable(publications', request[c].row, i, target)
  BY <1>1, UsableStays
<1>4. request[c].pc \in Checked => request[c].pc \in RequestRunning
  BY DEF Checked, RequestRunning
<1>5. request[c].pc \in Checked /\ target # Withdraw => outcome'[target[2]] = "delivered"
  BY <1>4, PublishedMeans DEF RequestInv
<1>6. NewPublication(c)' = NewPublication(c)
  BY DEF NewPublication
<1>7. SlotTaken(publications, NewPublication(c)) => SlotTaken(publications, NewPublication(c))'
  BY <1>6 DEF SlotTaken
<1>8. (Overtaken(c) => Overtaken(c)') /\ (Granted(c) => Granted(c)')
  BY DEF Overtaken, Granted, RowsOf
<1>9. request[c].start \in Nat
  BY DEF PublicationTypeInv, RequestState
<1> QED
  BY <1>2, <1>3, <1>5, <1>7, <1>8, <1>9 DEF RequestInv

\* A step that observes what holds, of somebody else, keeps a query right: if
\* one standing has been witnessed afterwards, it was the only one before.
LEMMA ReaderKept ==
    ASSUME PublicationTypeInv, publications \subseteq publications', ObserveStandings,
           NEW u \in Reader, ReaderInv(u), reader'[u] = reader[u]
    PROVE  ReaderInv(u)'
<1>1. standings'[u] = IF reader[u].pc \in Asking
                      THEN standings[u] \union StandingFor(u)' ELSE standings[u]
  BY DEF ObserveStandings
<1>2. reader[u].pc \in Asking => standings[u] # {}
  <2>1. StandingFor(u) # {}
    BY PublicationAnswerType DEF StandingFor
  <2> QED
    BY <2>1 DEF ReaderInv
<1>3. \A standing : standings'[u] = {standing} => standings[u] = {standing}
  BY <1>1, <1>2
<1>4. reader[u].pc \in Asking => StandingFor(u)' \subseteq standings'[u]
  BY <1>1
<1> QED
  BY <1>3, <1>4 DEF ReaderInv

\* A step of a command that changes nothing but its own state.
LEMMA RequestLocal ==
    ASSUME PublicationInv, NEW c \in PublicationCommand,
           request' \in [PublicationCommand -> RequestState],
           \A d \in PublicationCommand \ {c} : request'[d] = request[d],
           UNCHANGED <<deliveries, publications, reader, standings>>,
           RequestInv(c)'
    PROVE  PublicationInv'
<1>1. UNCHANGED <<outcome, destination, publications, reader, standings>>
  BY DEF deliveries
<1>2. PublicationTypeInv'
  BY <1>1 DEF PublicationInv, PublicationTypeInv, DeliveryTypeInv
<1>3. PublicationTableInv'
  BY <1>1 DEF PublicationInv, PublicationTableInv, UndeliveredTargets, ScopeMismatches
<1>4. \A d \in PublicationCommand : RequestInv(d)'
  <2>1. \A row \in publications : row.sequence \in Int
    BY DEF PublicationInv, PublicationTypeInv, PublicationRow
  <2>2. ASSUME NEW d \in PublicationCommand \ {c} PROVE RequestInv(d)'
    BY <1>1, <1>2, <2>1, RequestKept DEF PublicationInv
  <2> QED
    BY <2>2
<1>5. \A u \in Reader : ReaderInv(u)'
  BY <1>1 DEF PublicationInv, ReaderInv, StandingFor, Availability, Observation
<1> QED
  BY <1>2, <1>3, <1>4, <1>5 DEF PublicationInv

\* A step that moves what queries read, and no query.
LEMMA ObservedStep ==
    ASSUME PublicationInv, PublicationTypeInv', PublicationTableInv',
           publications \subseteq publications',
           \A d \in Delivery : outcome[d] = "delivered" => outcome'[d] = "delivered",
           UNCHANGED reader, ObserveStandings,
           \A c \in PublicationCommand : request'[c] = request[c] \/ RequestInv(c)'
    PROVE  PublicationInv'
<1>1. \A row \in publications : row.sequence \in Int
  BY DEF PublicationInv, PublicationTypeInv, PublicationRow
<1>2. \A c \in PublicationCommand : RequestInv(c)'
  BY <1>1, RequestKept DEF PublicationInv
<1>3. \A u \in Reader : ReaderInv(u)'
  BY ReaderKept DEF PublicationInv
<1> QED
  BY <1>2, <1>3 DEF PublicationInv

-----------------------------------------------------------------------------
(* publish() and withdraw(). *)

\* A command that goes on with what it has, or ends without a converged or
\* refused collision, has only its next place to justify.
LEMMA RequestLeavesKeeps ==
    ASSUME PublicationInv, NEW c \in PublicationCommand, request[c].pc \in RequestRunning,
           NEW pc \in {"returned", "killed"},
           NEW result \in (PublicationOutcomes \ {"converged", "conflict"}) \union {None},
           pc = "killed" => result = None,
           RequestLeave(c, pc, result),
           UNCHANGED <<deliveries, publications, reader, standings>>
    PROVE  PublicationInv'
<1>1. RequestBecomes(c, pc, None, NoRow, result)
  BY RequestLeaves DEF PublicationInv
<1>2. RequestInv(c)'
  BY <1>1, PublicationNoneAssumption
     DEF RequestBecomes, RequestInv, Checked, RequestRunning, PublicationOutcomes
<1> QED
  BY <1>1, <1>2, RequestLocal DEF RequestBecomes

LEMMA InvokePublishKeeps ==
    ASSUME PublicationInv, NEW c \in PublicationCommand, NEW d \in Delivery,
           NEW publisher \in Publisher, NEW after \in {"observe", "current"},
           InvokePublish(c, d, publisher, after)
    PROVE  PublicationInv'
<1> DEFINE i == IntakeOfDelivery[d]
           h == Height(publications, i)
<1>1. /\ request \in [PublicationCommand -> RequestState]
      /\ request[c] = NotRequested
      /\ UNCHANGED <<deliveries, publications, reader, standings>>
  BY DEF InvokePublish, PublicationInv, PublicationTypeInv, RequestInv
<1>2. i \in DeliveryIntake /\ Publish(d) \in PublicationTarget /\ Publish(d)[2] = d
  BY PublicationLineageAssumption DEF PublicationTarget, Publish
<1>3. h \in Nat
  BY HeightType DEF PublicationInv, PublicationTypeInv
<1> HIDE DEF h
<1>4. request'[c] =
        [pc |-> "outcome", intake |-> i, target |-> Publish(d), publisher |-> publisher,
         after |-> after, row |-> NoRow, start |-> h, outcome |-> None]
  <2>1. request'[c] = [NotRequested EXCEPT !.pc = "outcome", !.intake = i,
             !.target = Publish(d), !.publisher = publisher, !.after = after, !.start = h]
    BY <1>1 DEF InvokePublish, h
  <2> QED
    BY <2>1 DEF NotRequested
<1>5. request'[c] \in RequestState
  BY <1>2, <1>3, <1>4 DEF RequestState, RequestRunning, MaybePublication
<1>6. /\ request' \in [PublicationCommand -> RequestState]
      /\ \A e \in PublicationCommand \ {c} : request'[e] = request[e]
  BY <1>1, <1>5 DEF InvokePublish
<1>7. h <= Height(publications, i)'
  BY <1>1, <1>3 DEF h
<1>8. RequestInv(c)'
  BY <1>2, <1>4, <1>7, PublicationNoneAssumption
     DEF RequestInv, Checked, RequestRunning, PublicationOutcomes
<1> QED
  BY <1>1, <1>6, <1>8, RequestLocal

LEMMA InvokeWithdrawKeeps ==
    ASSUME PublicationInv, NEW c \in PublicationCommand, NEW i \in DeliveryIntake,
           NEW publisher \in Publisher, InvokeWithdraw(c, i, publisher)
    PROVE  PublicationInv'
<1> DEFINE h == Height(publications, i)
<1>1. /\ request \in [PublicationCommand -> RequestState]
      /\ request[c] = NotRequested
      /\ UNCHANGED <<deliveries, publications, reader, standings>>
  BY DEF InvokeWithdraw, PublicationInv, PublicationTypeInv, RequestInv
<1>2. Withdraw \in PublicationTarget
  BY DEF PublicationTarget
<1>3. h \in Nat
  BY HeightType DEF PublicationInv, PublicationTypeInv
<1> HIDE DEF h
<1>4. request'[c] =
        [pc |-> "current", intake |-> i, target |-> Withdraw, publisher |-> publisher,
         after |-> None, row |-> NoRow, start |-> h, outcome |-> None]
  <2>1. request'[c] = [NotRequested EXCEPT !.pc = "current", !.intake = i,
             !.target = Withdraw, !.publisher = publisher, !.start = h]
    BY <1>1 DEF InvokeWithdraw, h
  <2> QED
    BY <2>1 DEF NotRequested
<1>5. request'[c] \in RequestState
  BY <1>2, <1>3, <1>4 DEF RequestState, RequestRunning, MaybePublication
<1>6. /\ request' \in [PublicationCommand -> RequestState]
      /\ \A e \in PublicationCommand \ {c} : request'[e] = request[e]
  BY <1>1, <1>5 DEF InvokeWithdraw
<1>7. h <= Height(publications, i)'
  BY <1>1, <1>3 DEF h
<1>8. RequestInv(c)'
  BY <1>2, <1>4, <1>7, PublicationNoneAssumption
     DEF RequestInv, Checked, RequestRunning, PublicationOutcomes
<1> QED
  BY <1>1, <1>6, <1>8, RequestLocal

LEMMA CheckOutcomeKeeps ==
    ASSUME PublicationInv, NEW c \in PublicationCommand, CheckOutcome(c)
    PROVE  PublicationInv'
<1>1. /\ PublicationTypeInv /\ RequestInv(c) /\ request[c].pc = "outcome"
      /\ request[c].pc \in RequestRunning
      /\ request[c].after \in {"observe", "current"}
      /\ UNCHANGED <<deliveries, publications, reader, standings>>
  BY DEF CheckOutcome, PublicationInv, RequestInv, RequestRunning
<1>2. CASE RequestReturn(c, "not_publishable")
  BY <1>1, <1>2, RequestLeavesKeeps DEF RequestReturn, PublicationOutcomes
<1>3. CASE /\ outcome[request[c].target[2]] = "delivered"
           /\ RequestGoto(c, request[c].after)
  <2>1. RequestBecomes(c, request[c].after, request[c].after, request[c].row, request[c].outcome)
    BY <1>1, <1>3, RequestGoes DEF RequestRunning
  <2>2. UNCHANGED <<outcome, publications>>
    BY <1>1 DEF deliveries
  <2>3. RequestInv(c)'
    BY <1>1, <1>3, <2>1, <2>2, PublicationNoneAssumption
       DEF RequestBecomes, RequestInv, Checked, PublicationOutcomes, RequestRunning
  <2> QED
    BY <1>1, <2>1, <2>3, RequestLocal DEF RequestBecomes
<1> QED
  BY <1>2, <1>3 DEF CheckOutcome

LEMMA CheckDestinationKeeps ==
    ASSUME PublicationInv, NEW c \in PublicationCommand, CheckDestination(c)
    PROVE  PublicationInv'
<1>1. /\ PublicationTypeInv /\ RequestInv(c) /\ request[c].pc = "observe"
      /\ request[c].pc \in RequestRunning
      /\ UNCHANGED <<deliveries, publications, reader, standings>>
  BY DEF CheckDestination, PublicationInv, RequestRunning
<1>2. CASE RequestReturn(c, "not_publishable")
  BY <1>1, <1>2, RequestLeavesKeeps DEF RequestReturn, PublicationOutcomes
<1>3. CASE RequestGoto(c, "current")
  <2>1. RequestBecomes(c, "current", request[c].after, request[c].row, request[c].outcome)
    BY <1>1, <1>3, RequestGoes DEF RequestRunning
  <2>2. UNCHANGED <<outcome, publications>>
    BY <1>1 DEF deliveries
  <2>3. RequestInv(c)'
    BY <1>1, <2>1, <2>2, PublicationNoneAssumption
       DEF RequestBecomes, RequestInv, Checked, PublicationOutcomes, RequestRunning
  <2> QED
    BY <1>1, <2>1, <2>3, RequestLocal DEF RequestBecomes
<1> QED
  BY <1>2, <1>3 DEF CheckDestination

\* A command that goes on to its insert has read a row at least as recent as
\* its call, and means to change what it says.
LEMMA ReadCurrentPublicationKeeps ==
    ASSUME PublicationInv, NEW c \in PublicationCommand, ReadCurrentPublication(c)
    PROVE  PublicationInv'
<1> DEFINE i == request[c].intake
           target == request[c].target
<1>1. /\ PublicationTypeInv /\ RequestInv(c) /\ request[c].pc = "current"
      /\ request[c].pc \in RequestRunning
      /\ i \in DeliveryIntake /\ target \in PublicationTarget /\ request[c].outcome = None
      /\ request[c].start <= Height(publications, i) /\ request[c].start \in Nat
      /\ UNCHANGED <<deliveries, publications, reader, standings>>
  BY DEF ReadCurrentPublication, PublicationInv, RequestInv, RequestRunning,
         PublicationTypeInv, RequestState
<1>2. PICK current \in CurrentAnswers(publications, i) :
          IF current.target = target
          THEN RequestReturn(c, "reused")
          ELSE IF current = NoRow /\ target = Withdraw
          THEN RequestReturn(c, "nothing_to_withdraw")
          ELSE request' = [request EXCEPT ![c].pc = "persist", ![c].row = current]
  BY DEF ReadCurrentPublication
<1>3. CASE RequestReturn(c, "reused") \/ RequestReturn(c, "nothing_to_withdraw")
  BY <1>1, <1>3, RequestLeavesKeeps DEF RequestReturn, PublicationOutcomes
<1>4. CASE /\ current.target # target
           /\ request' = [request EXCEPT ![c].pc = "persist", ![c].row = current]
  <2>1. /\ current \in MaybePublication
        /\ current.sequence + 1 = Height(publications, i)
    BY <1>1, PublicationAnswerType, CurrentIsLast
       DEF PublicationInv, PublicationTableInv, PublicationTypeInv
  <2>2. Usable(publications, current, i, target)
    <3>1. target # None
      BY <1>1, PublishedMeans
    <3>2. IsFiniteSet(publications) /\ Contiguous(publications, i)
      BY <1>1 DEF PublicationInv, PublicationTableInv, PublicationTypeInv
    <3> QED
      BY <1>4, <3>1, <3>2, FreshReadIsUsable
  <2>3. request' = [request EXCEPT ![c].pc = "persist", ![c].row = current,
                                   ![c].outcome = None]
    BY <1>1, <1>4 DEF PublicationTypeInv, RequestState
  <2>4. RequestBecomes(c, "persist", request[c].after, current, None)
    BY <1>1, <2>1, <2>3, RequestReads DEF RequestRunning
  <2>5. UNCHANGED <<outcome, publications>>
    BY <1>1 DEF deliveries
  <2>6. RequestInv(c)'
    BY <1>1, <2>1, <2>2, <2>4, <2>5, PublicationNoneAssumption
       DEF RequestBecomes, RequestInv, Checked, PublicationOutcomes, RequestRunning
  <2> QED
    BY <1>1, <2>4, <2>6, RequestLocal DEF RequestBecomes
<1> QED
  BY <1>2, <1>3, <1>4

LEMMA NewPublicationShape ==
    ASSUME PublicationTypeInv, NEW c \in PublicationCommand, RequestInv(c),
           request[c].pc \in {"persist", "resolve"}, ~SlotTaken(publications, NewPublication(c))
    PROVE  NewPublication(c) \in MaybePublication
<1>1. /\ request[c].row \in MaybePublication /\ request[c].pc \in RequestRunning
      /\ request[c].intake \in DeliveryIntake /\ request[c].target \in PublicationTarget
      /\ request[c].publisher \in Publisher
  BY DEF RequestInv, PublicationTypeInv, RequestState, RequestRunning
<1>2. request[c].row.sequence + 1 \in Nat
  BY <1>1 DEF MaybePublication, PublicationRow, NoRow
<1>3. (IF request[c].row = NoRow THEN NoIdentity ELSE Identity(request[c].row))
          \in {NoIdentity} \union (DeliveryIntake \X PublicationTarget \X Nat)
  BY <1>1 DEF MaybePublication, PublicationRow, Identity
<1> QED
  BY <1>1, <1>2, <1>3 DEF NewPublication, Successor, MaybePublication, PublicationRow

\* The insert takes the top of the intake's history, for a delivery that was
\* found DELIVERED and still is.
LEMMA PersistPublicationKeeps ==
    ASSUME PublicationInv, NEW c \in PublicationCommand, PersistPublication(c)
    PROVE  PublicationInv'
<1> DEFINE i == request[c].intake
           target == request[c].target
           result == IF request[c].row = NoRow THEN "recorded" ELSE "changed"
<1>1. PICK new : new = NewPublication(c)
  OBVIOUS
<1>2. /\ PublicationTypeInv /\ PublicationTableInv /\ RequestInv(c)
      /\ request[c].pc = "persist" /\ request[c].pc \in RequestRunning
      /\ i \in DeliveryIntake /\ target \in PublicationTarget
      /\ Usable(publications, request[c].row, i, target)
      /\ ~SlotTaken(publications, new)
      /\ publications' = publications \union {new}
      /\ RequestReturn(c, result)
      /\ UNCHANGED <<outcome, destination, reader>> /\ ObserveStandings
  BY <1>1 DEF PersistPublication, PublicationInv, RequestInv, RequestRunning, deliveries
<1>3. /\ new \in PublicationRow /\ new.scope = i /\ new.target = target
      /\ History(publications')
      /\ \A k \in DeliveryIntake : Contiguous(publications', k)
  <2>1. new = Successor(request[c].row, i, target, request[c].publisher)
    BY <1>1 DEF NewPublication
  <2>2. /\ new.scope = i /\ new.target = target /\ new.sequence \in Nat
        /\ History(publications') /\ Contiguous(publications', i)
        /\ \A other : other # i =>
             (Contiguous(publications, other) => Contiguous(publications', other))
    BY <1>2, <2>1, AppendKeepsTable DEF PublicationTableInv
  <2>3. new \in MaybePublication /\ new # NoRow
    BY <1>1, <1>2, <2>2, NewPublicationShape DEF NoRow
  <2> QED
    BY <1>2, <2>2, <2>3 DEF PublicationTableInv, MaybePublication
<1>4. RequestBecomes(c, "returned", None, NoRow, result)
  BY <1>2, RequestLeaves DEF RequestReturn, PublicationOutcomes
<1>5. RequestInv(c)'
  BY <1>4 DEF RequestBecomes, RequestInv, RequestRunning, Checked
<1>6. PublicationTypeInv'
  <2>1. IsFiniteSet(publications')
    BY <1>3 DEF History
  <2> QED
    BY <1>2, <1>3, <1>4, <2>1 DEF PublicationTypeInv, DeliveryTypeInv, RequestBecomes
<1>7. PublicationTableInv'
  <2>1. /\ target # Withdraw => outcome[target[2]] = "delivered"
        /\ target # Withdraw => i = IntakeOfDelivery[target[2]]
    BY <1>2 DEF RequestInv, Checked
  <2>2. Published(new) => target # Withdraw
    BY <1>2, <1>3, PublishedMeans DEF Published
  <2>3. UndeliveredTargets' = {}
    BY <1>2, <1>3, <2>1, <2>2 DEF PublicationTableInv, UndeliveredTargets
  <2>4. ScopeMismatches' = {}
    BY <1>2, <1>3, <2>1, <2>2 DEF PublicationTableInv, ScopeMismatches
  <2> QED
    BY <1>3, <2>3, <2>4 DEF PublicationTableInv
<1> QED
  BY <1>2, <1>4, <1>5, <1>6, <1>7, ObservedStep DEF RequestBecomes

LEMMA PublicationCollidesKeeps ==
    ASSUME PublicationInv, NEW c \in PublicationCommand, PublicationCollides(c)
    PROVE  PublicationInv'
<1>1. /\ PublicationTypeInv /\ RequestInv(c) /\ request[c].pc = "persist"
      /\ request[c].pc \in RequestRunning
      /\ RequestGoto(c, "resolve")
      /\ UNCHANGED <<deliveries, publications, reader, standings>>
  BY DEF PublicationCollides, PublicationInv, RequestRunning
<1>2. SlotTaken(publications, NewPublication(c))
  BY DEF PublicationCollides, IdentityExists, SlotTaken, Identity
<1>3. RequestBecomes(c, "resolve", request[c].after, request[c].row, request[c].outcome)
  BY <1>1, RequestGoes DEF RequestRunning
<1>4. UNCHANGED <<outcome, publications>>
  BY <1>1 DEF deliveries
<1>5. SlotTaken(publications, NewPublication(c))'
  BY <1>2, <1>3, <1>4 DEF RequestBecomes, SlotTaken, NewPublication
<1>6. RequestInv(c)'
  BY <1>1, <1>3, <1>4, <1>5, PublicationNoneAssumption
     DEF RequestBecomes, RequestInv, Checked, PublicationOutcomes, RequestRunning
<1> QED
  BY <1>1, <1>3, <1>6, RequestLocal DEF RequestBecomes

LEMMA PublicationFailsKeeps ==
    ASSUME PublicationInv, NEW c \in PublicationCommand, PublicationFails(c)
    PROVE  PublicationInv'
BY RequestLeavesKeeps DEF PublicationFails, RequestReturn, RequestRunning, PublicationOutcomes

LEMMA KillRequestKeeps ==
    ASSUME PublicationInv, NEW c \in PublicationCommand, KillRequest(c)
    PROVE  PublicationInv'
BY RequestLeavesKeeps DEF KillRequest

\* The place the command wanted is taken, so what is current now was recorded
\* after what it had read, and thus after it was called.
LEMMA ResolvePublicationKeeps ==
    ASSUME PublicationInv, NEW c \in PublicationCommand, ResolvePublication(c)
    PROVE  PublicationInv'
<1> DEFINE i == request[c].intake
           target == request[c].target
           row == request[c].row
<1>1. /\ PublicationTypeInv /\ PublicationTableInv /\ RequestInv(c)
      /\ request[c].pc = "resolve" /\ i \in DeliveryIntake
      /\ SlotTaken(publications, NewPublication(c))
      /\ request[c].start <= row.sequence + 1 /\ request[c].start \in Nat
      /\ row \in MaybePublication
      /\ UNCHANGED <<deliveries, publications, reader, standings>>
  BY DEF ResolvePublication, PublicationInv, RequestInv, RequestRunning,
         PublicationTypeInv, RequestState
<1>2. PICK current \in CurrentAnswers(publications, i) :
         request' = [request EXCEPT
             ![c].pc = "returned", ![c].row = current,
             ![c].outcome = IF PublicationConverges(c, current) THEN "converged" ELSE "conflict"]
  BY DEF ResolvePublication
<1> DEFINE result == IF PublicationConverges(c, current) THEN "converged" ELSE "conflict"
<1>3. /\ current \in MaybePublication
      /\ current.sequence + 1 = Height(publications, i)
      /\ current # NoRow => current \in publications /\ current.scope = i
  BY <1>1, PublicationAnswerType, CurrentIsLast DEF PublicationTableInv, PublicationTypeInv
<1>4. PICK old \in publications : old.scope = i /\ old.sequence = row.sequence + 1
  BY <1>1 DEF SlotTaken, NewPublication, Successor
<1>5. old.sequence \in 0 .. Height(publications, i) - 1
  BY <1>1, <1>4 DEF PublicationTableInv, Contiguous, RowsOf
<1>6. current \in RowsOf(publications, i) /\ current.sequence >= request[c].start
  <2>1. Height(publications, i) \in Nat
    BY <1>1, HeightType DEF PublicationTypeInv
  <2>2. current.sequence \in Int /\ row.sequence \in Int
    BY <1>1, <1>3 DEF MaybePublication, PublicationRow, NoRow
  <2>3. current.sequence >= row.sequence + 1 /\ current.sequence >= 0
    BY <1>3, <1>4, <1>5, <2>1, <2>2
  <2> QED
    BY <1>1, <1>3, <2>2, <2>3 DEF RowsOf, NoRow
<1>7. RequestBecomes(c, "returned", request[c].after, current, result)
  <2>1. result \in PublicationOutcomes \union {None}
    BY DEF PublicationOutcomes
  <2> QED
    BY <1>1, <1>2, <1>3, <2>1, RequestReads
<1>8. UNCHANGED publications
  BY <1>1
<1>9. result = "conflict" => Overtaken(c)'
  <2> SUFFICES ASSUME result = "conflict" PROVE Overtaken(c)'
    OBVIOUS
  <2>1. <<current.target, current.note>> # <<target, request[c].publisher>>
    BY DEF PublicationConverges
  <2> QED
    BY <1>6, <1>7, <1>8, <2>1 DEF Overtaken, RequestBecomes
<1>10. result = "converged" => Granted(c)'
  <2>1. result = "converged"
        => current.target = target /\ current.note = request[c].publisher
    BY DEF PublicationConverges
  <2> QED
    BY <1>6, <1>7, <1>8, <2>1 DEF Granted, RequestBecomes
<1> HIDE DEF result
<1>11. RequestInv(c)'
  BY <1>7, <1>9, <1>10 DEF RequestBecomes, RequestInv, RequestRunning, Checked
<1> QED
  BY <1>1, <1>7, <1>11, RequestLocal DEF RequestBecomes

-----------------------------------------------------------------------------
(* The deliveries. *)

LEMMA ChangeFileKeeps ==
    ASSUME PublicationInv, NEW l \in Location, NEW held \in Bytes \union {None, Obstacle},
           ChangeFile(l, held)
    PROVE  PublicationInv'
<1>1. /\ UNCHANGED <<outcome, publications, request, reader>> /\ ObserveStandings
      /\ destination' = [destination EXCEPT ![l] = held]
  BY DEF ChangeFile, Upstream!Change
<1>2. PublicationTypeInv'
  BY <1>1 DEF PublicationInv, PublicationTypeInv, DeliveryTypeInv
<1>3. PublicationTableInv'
  BY <1>1 DEF PublicationInv, PublicationTableInv, UndeliveredTargets, ScopeMismatches
<1> QED
  BY <1>1, <1>2, <1>3, ObservedStep

\* An outcome is recorded once: closing a delivery never takes DELIVERED from
\* one that has it.
LEMMA CloseDeliveryKeeps ==
    ASSUME PublicationInv, NEW d \in Delivery, NEW state \in {"delivered", "failed"},
           CloseDelivery(d, state)
    PROVE  PublicationInv'
<1>1. /\ UNCHANGED <<destination, publications, request, reader>> /\ ObserveStandings
      /\ outcome[d] = "pending" /\ outcome' = [outcome EXCEPT ![d] = state]
      /\ outcome \in [Delivery -> {"pending", "delivered", "failed"}]
  BY DEF CloseDelivery, Upstream!Close, PublicationInv, PublicationTypeInv, DeliveryTypeInv
<1>2. /\ outcome' \in [Delivery -> {"pending", "delivered", "failed"}]
      /\ \A e \in Delivery : outcome[e] = "delivered" => outcome'[e] = "delivered"
  BY <1>1
<1>3. PublicationTypeInv'
  BY <1>1, <1>2 DEF PublicationInv, PublicationTypeInv, DeliveryTypeInv
<1>4. PublicationTableInv'
  <2>1. \A row \in publications : Published(row) => row.target[2] \in Delivery
    BY PublishedMeans
       DEF Published, PublicationInv, PublicationTypeInv, PublicationRow
  <2>2. UndeliveredTargets' = {}
    BY <1>1, <1>2, <2>1 DEF PublicationInv, PublicationTableInv, UndeliveredTargets
  <2> QED
    BY <1>1, <2>2 DEF PublicationInv, PublicationTableInv, ScopeMismatches
<1> QED
  BY <1>1, <1>2, <1>3, <1>4, ObservedStep

-----------------------------------------------------------------------------
(* The queries. *)

\* A step of a query keeps what is not its own.
LEMMA ReaderLocal ==
    ASSUME PublicationInv, NEW u \in Reader,
           UNCHANGED <<deliveries, publications, request>>,
           reader' \in [Reader -> ReaderState],
           \A v \in Reader \ {u} : reader'[v] = reader[v],
           ObserveStandings \/ UNCHANGED standings,
           ReaderInv(u)'
    PROVE  PublicationInv'
<1>1. UNCHANGED <<outcome, destination, publications, request>>
  BY DEF deliveries
<1>2. PublicationTypeInv'
  BY <1>1 DEF PublicationInv, PublicationTypeInv, DeliveryTypeInv
<1>3. PublicationTableInv'
  BY <1>1 DEF PublicationInv, PublicationTableInv, UndeliveredTargets, ScopeMismatches
<1>4. \A c \in PublicationCommand : RequestInv(c)'
  <2>1. \A row \in publications : row.sequence \in Int
    BY DEF PublicationInv, PublicationTypeInv, PublicationRow
  <2> QED
    BY <1>1, <1>2, <2>1, RequestKept DEF PublicationInv
<1>5. ASSUME NEW v \in Reader \ {u}
      PROVE  ReaderInv(v)'
  <2>1. CASE ObserveStandings
    BY <1>1, <2>1, ReaderKept DEF PublicationInv
  <2>2. CASE UNCHANGED standings
    BY <1>1, <2>2 DEF PublicationInv, ReaderInv, StandingFor, Availability, Observation
  <2> QED
    BY <2>1, <2>2
<1> QED
  BY <1>2, <1>3, <1>4, <1>5 DEF PublicationInv

\* A query that starts has witnessed what holds at its start, and seen nothing.
LEMMA AskKeeps ==
    ASSUME PublicationInv, NEW u \in Reader, reader[u].pc = "idle",
           NEW i \in DeliveryIntake, NEW about \in publications \union {NoRow},
           reader' \in [Reader -> ReaderState],
           \A v \in Reader \ {u} : reader'[v] = reader[v],
           reader'[u].pc = "current", reader'[u].intake = i, reader'[u].about = about,
           reader'[u].seen = reader[u].seen,
           UNCHANGED <<deliveries, publications, request>>, ObserveStandings
    PROVE  PublicationInv'
<1>1. StandingFor(u)' \subseteq standings'[u]
  BY DEF ObserveStandings, Asking
<1>2. reader[u].seen = None
  BY DEF PublicationInv, ReaderInv
<1>3. ReaderInv(u)'
  BY <1>1, <1>2 DEF ReaderInv, Asking
<1> QED
  BY <1>3, ReaderLocal

LEMMA AskAvailabilityKeeps ==
    ASSUME PublicationInv, NEW u \in Reader, NEW i \in DeliveryIntake, AskAvailability(u, i)
    PROVE  PublicationInv'
<1>1. /\ reader \in [Reader -> ReaderState] /\ reader[u] \in ReaderState
      /\ reader[u].pc = "idle"
      /\ reader' = [reader EXCEPT ![u].pc = "current", ![u].intake = i]
      /\ UNCHANGED <<deliveries, publications, request>> /\ ObserveStandings
  BY DEF AskAvailability, PublicationInv, PublicationTypeInv
<1>2. reader'[u] = [reader[u] EXCEPT !.pc = "current", !.intake = i]
  BY <1>1
<1>3. /\ reader'[u] \in ReaderState
      /\ reader'[u].pc = "current" /\ reader'[u].intake = i
      /\ reader'[u].about = reader[u].about /\ reader'[u].seen = reader[u].seen
  BY <1>1, <1>2 DEF ReaderState, Asking
<1>4. /\ reader' \in [Reader -> ReaderState]
      /\ \A v \in Reader \ {u} : reader'[v] = reader[v]
  BY <1>1, <1>3
<1>5. reader[u].about \in publications \union {NoRow}
  BY DEF PublicationInv, ReaderInv
<1> QED
  BY <1>1, <1>3, <1>4, <1>5, AskKeeps

LEMMA AskStatusKeeps ==
    ASSUME PublicationInv, NEW u \in Reader, NEW row \in publications, AskStatus(u, row)
    PROVE  PublicationInv'
<1>1. /\ reader \in [Reader -> ReaderState] /\ reader[u] \in ReaderState
      /\ reader[u].pc = "idle" /\ row \in PublicationRow
      /\ reader' = [reader EXCEPT ![u].pc = "current", ![u].intake = row.scope,
                                  ![u].about = row]
      /\ UNCHANGED <<deliveries, publications, request>> /\ ObserveStandings
  BY DEF AskStatus, PublicationInv, PublicationTypeInv
<1>2. reader'[u] = [reader[u] EXCEPT !.pc = "current", !.intake = row.scope, !.about = row]
  BY <1>1
<1>3. row.scope \in DeliveryIntake /\ row \in MaybePublication
  BY <1>1 DEF PublicationRow, MaybePublication
<1>4. /\ reader'[u] \in ReaderState
      /\ reader'[u].pc = "current" /\ reader'[u].intake = row.scope
      /\ reader'[u].about = row /\ reader'[u].seen = reader[u].seen
  BY <1>1, <1>2, <1>3 DEF ReaderState, Asking
<1>5. /\ reader' \in [Reader -> ReaderState]
      /\ \A v \in Reader \ {u} : reader'[v] = reader[v]
  BY <1>1, <1>4
<1> QED
  BY <1>1, <1>3, <1>4, <1>5, AskKeeps

\* If one standing is witnessed, it is that of any answer to the query for
\* the current publication.
LEMMA StandingIs ==
    ASSUME NEW u \in Reader, ReaderInv(u), reader[u].pc \in Asking,
           NEW standing, standings[u] = {standing},
           NEW current \in CurrentAnswers(publications, reader[u].intake)
    PROVE  standing.current = current /\ standing.availability = Availability(current)
<1>1. [current |-> current, availability |-> Availability(current)] \in StandingFor(u)
  BY DEF StandingFor
<1>2. standing = [current |-> current, availability |-> Availability(current)]
  BY <1>1 DEF ReaderInv
<1> QED
  BY <1>2

LEMMA ReadPublicationKeeps ==
    ASSUME PublicationInv, NEW u \in Reader, ReadPublication(u)
    PROVE  PublicationInv'
<1>1. /\ PublicationTypeInv /\ ReaderInv(u)
      /\ reader \in [Reader -> ReaderState] /\ reader[u] \in ReaderState
      /\ reader[u].pc = "current" /\ reader[u].pc \in Asking
      /\ reader[u].intake \in DeliveryIntake /\ reader[u].seen = None
      /\ StandingFor(u) \subseteq standings[u]
      /\ UNCHANGED <<deliveries, publications, request, standings>>
  BY DEF ReadPublication, PublicationInv, PublicationTypeInv, ReaderInv, Asking
<1>2. PICK current \in CurrentAnswers(publications, reader[u].intake) :
          reader' = [reader EXCEPT
              ![u].current = current,
              ![u].pc = IF reader[u].about # NoRow /\ Published(reader[u].about)
                        THEN "look" ELSE "derive"]
  BY DEF ReadPublication
<1>3. PICK pc : pc = IF reader[u].about # NoRow /\ Published(reader[u].about)
                     THEN "look" ELSE "derive"
  OBVIOUS
<1>4. current \in MaybePublication
  BY <1>1, PublicationAnswerType
<1>5. reader'[u] = [reader[u] EXCEPT !.current = current, !.pc = pc]
  BY <1>1, <1>2, <1>3
<1>6. /\ reader'[u] \in ReaderState
      /\ reader'[u].pc = pc /\ reader'[u].current = current
      /\ reader'[u].intake = reader[u].intake /\ reader'[u].about = reader[u].about
      /\ reader'[u].seen = None
  BY <1>1, <1>3, <1>4, <1>5 DEF ReaderState, Asking
<1>7. /\ reader' \in [Reader -> ReaderState]
      /\ \A v \in Reader \ {u} : reader'[v] = reader[v]
  BY <1>1, <1>2, <1>6
<1>8. StandingFor(u)' = StandingFor(u)
  BY <1>1, <1>6 DEF StandingFor, Availability, Observation, deliveries
<1>9. \A standing \in standings[u] : standings[u] = {standing} => standing.current = current
  BY <1>1, StandingIs
<1>10. ReaderInv(u)'
  BY <1>1, <1>3, <1>6, <1>8, <1>9 DEF ReaderInv, Published
<1> QED
  BY <1>1, <1>7, <1>10, ReaderLocal

\* The publication the query is about and the current one are looked at in
\* different steps; if they are the same and nothing moved, the two looks agree.
LEMMA LookAtTargetKeeps ==
    ASSUME PublicationInv, NEW u \in Reader, LookAtTarget(u)
    PROVE  PublicationInv'
<1> DEFINE about == reader[u].about
<1>1. PICK seen : seen = Observation(about.target[2])
  OBVIOUS
<1>2. /\ PublicationTypeInv /\ PublicationTableInv /\ ReaderInv(u)
      /\ reader \in [Reader -> ReaderState] /\ reader[u] \in ReaderState
      /\ reader[u].pc = "look" /\ reader[u].pc \in Asking
      /\ reader[u].intake \in DeliveryIntake
      /\ StandingFor(u) \subseteq standings[u]
      /\ about \in publications /\ about # NoRow /\ Published(about)
      /\ UNCHANGED <<deliveries, publications, request, standings>>
      /\ reader' = [reader EXCEPT ![u].pc = "derive", ![u].seen = seen]
  BY <1>1 DEF LookAtTarget, PublicationInv, PublicationTypeInv, ReaderInv, Asking
<1>3. seen \in Observations
  BY <1>1 DEF Observation, Observations
<1>4. reader'[u] = [reader[u] EXCEPT !.pc = "derive", !.seen = seen]
  BY <1>2
<1>5. /\ reader'[u] \in ReaderState
      /\ reader'[u].pc = "derive" /\ reader'[u].seen = seen
      /\ reader'[u].intake = reader[u].intake /\ reader'[u].about = about
      /\ reader'[u].current = reader[u].current
  BY <1>2, <1>3, <1>4 DEF ReaderState, Asking
<1>6. /\ reader' \in [Reader -> ReaderState]
      /\ \A v \in Reader \ {u} : reader'[v] = reader[v]
  BY <1>2, <1>5
<1>7. StandingFor(u)' = StandingFor(u)
  BY <1>2, <1>5 DEF StandingFor, Availability, Observation, deliveries
<1>8. Availability(about) = AvailabilityOf(seen)
  <2>1. about.target \in PublicationTarget
    BY <1>2 DEF PublicationTypeInv, PublicationRow
  <2>2. about.target # Withdraw /\ outcome[about.target[2]] = "delivered"
    BY <1>2, <2>1, PublishedMeans DEF PublicationTableInv, UndeliveredTargets, Published
  <2> QED
    BY <1>1, <1>2, <2>2 DEF Availability
<1>9. ASSUME NEW standing \in standings[u], standings[u] = {standing}
      PROVE  /\ standing.current = reader[u].current
             /\ about = reader[u].current => AvailabilityOf(seen) = standing.availability
  <2>1. PICK current \in CurrentAnswers(publications, reader[u].intake) : TRUE
    BY <1>2, PublicationAnswerType
  <2>2. standing.current = current /\ standing.availability = Availability(current)
    BY <1>2, <1>9, <2>1, StandingIs
  <2>3. reader[u].current = standing.current
    BY <1>2, <1>9 DEF ReaderInv
  <2> QED
    BY <1>8, <2>2, <2>3
<1>10. ReaderInv(u)'
  BY <1>2, <1>5, <1>7, <1>9 DEF ReaderInv
<1> QED
  BY <1>2, <1>6, <1>10, ReaderLocal

LEMMA DeriveAvailabilityKeeps ==
    ASSUME PublicationInv, NEW u \in Reader, DeriveAvailability(u)
    PROVE  PublicationInv'
<1>1. PICK answer : answer = Availability(reader[u].current)
  OBVIOUS
<1>2. /\ PublicationTypeInv /\ ReaderInv(u)
      /\ reader \in [Reader -> ReaderState] /\ reader[u] \in ReaderState
      /\ reader[u].pc = "derive" /\ reader[u].pc \in Asking
      /\ UNCHANGED <<deliveries, publications, request, standings>>
      /\ reader' = [reader EXCEPT ![u].pc = "answered", ![u].answer = answer]
  BY <1>1 DEF DeriveAvailability, PublicationInv, PublicationTypeInv, Asking
<1>3. answer \in Availabilities
  BY <1>1 DEF Availability, AvailabilityOf, Availabilities
<1>4. reader'[u] = [reader[u] EXCEPT !.pc = "answered", !.answer = answer]
  BY <1>2
<1>5. /\ reader'[u] \in ReaderState
      /\ reader'[u].pc = "answered" /\ reader'[u].answer = answer
      /\ reader'[u].seen = reader[u].seen /\ reader'[u].about = reader[u].about
      /\ reader'[u].current = reader[u].current
  BY <1>2, <1>3, <1>4 DEF ReaderState, Asking
<1>6. /\ reader' \in [Reader -> ReaderState]
      /\ \A v \in Reader \ {u} : reader'[v] = reader[v]
  BY <1>2, <1>5
<1>7. ASSUME NEW standing \in standings[u], standings[u] = {standing}
      PROVE  /\ standing.current = reader[u].current
             /\ answer = standing.availability
  <2>1. PICK current \in CurrentAnswers(publications, reader[u].intake) : TRUE
    BY <1>2, PublicationAnswerType
  <2>2. standing.current = current /\ standing.availability = Availability(current)
    BY <1>2, <1>7, <2>1, StandingIs
  <2>3. reader[u].current = standing.current
    BY <1>2, <1>7 DEF ReaderInv
  <2> QED
    BY <1>1, <2>2, <2>3
<1>8. ReaderInv(u)'
  BY <1>2, <1>5, <1>7 DEF ReaderInv, Asking
<1> QED
  BY <1>2, <1>6, <1>8, ReaderLocal

-----------------------------------------------------------------------------
(* The theorems about publication. *)

LEMMA PublicationInitEstablishes == PublicationInit => PublicationInv
<1> SUFFICES ASSUME PublicationInit PROVE PublicationInv
  OBVIOUS
<1>1. PublicationTypeInv
  <2>1. NotRequested \in RequestState
    BY DEF NotRequested, RequestState, MaybePublication
  <2>2. NotAsked \in ReaderState
    BY DEF NotAsked, ReaderState, MaybePublication
  <2> QED
    BY <2>1, <2>2, FS_EmptySet
       DEF PublicationInit, Upstream!Init, PublicationTypeInv, DeliveryTypeInv
<1>2. PublicationTableInv
  BY EmptyHistory DEF PublicationInit, PublicationTableInv, UndeliveredTargets, ScopeMismatches
<1>3. \A c \in PublicationCommand : RequestInv(c)
  BY PublicationNoneAssumption
     DEF PublicationInit, NotRequested, RequestInv, RequestRunning, Checked, PublicationOutcomes
<1>4. \A u \in Reader : ReaderInv(u)
  BY DEF PublicationInit, NotAsked, ReaderInv, Asking
<1> QED
  BY <1>1, <1>2, <1>3, <1>4 DEF PublicationInv

LEMMA PublicationStutterKeeps == PublicationInv /\ UNCHANGED publicationVars => PublicationInv'
<1> SUFFICES ASSUME PublicationInv, UNCHANGED publicationVars PROVE PublicationInv'
  OBVIOUS
<1>1. /\ UNCHANGED <<outcome, destination, publications, request, reader, standings>>
      /\ UNCHANGED deliveries
  BY DEF publicationVars, deliveries
<1>2. PublicationTypeInv' /\ PublicationTableInv'
  BY <1>1 DEF PublicationInv, PublicationTypeInv, DeliveryTypeInv, PublicationTableInv,
              UndeliveredTargets, ScopeMismatches
<1>3. \A row \in publications : row.sequence \in Int
  BY DEF PublicationInv, PublicationTypeInv, PublicationRow
<1>4. \A c \in PublicationCommand : RequestInv(c)'
  BY <1>1, <1>2, <1>3, RequestKept DEF PublicationInv
<1>5. \A u \in Reader : ReaderInv(u)'
  BY <1>1 DEF PublicationInv, ReaderInv, StandingFor, Availability, Observation
<1> QED
  BY <1>2, <1>4, <1>5 DEF PublicationInv

\* Whatever publishes, withdrawals, deliveries, file changes, deaths and
\* queries do, each step keeps the bookkeeping right.
THEOREM PublicationInvHolds == PublicationSpec => []PublicationInv
<1>1. PublicationInv /\ [PublicationNext]_publicationVars => PublicationInv'
  <2> SUFFICES ASSUME PublicationInv, [PublicationNext]_publicationVars PROVE PublicationInv'
    OBVIOUS
  <2>1. ASSUME NEW l \in Location, NEW held \in Bytes \union {None, Obstacle},
               ChangeFile(l, held)
        PROVE  PublicationInv'
    BY <2>1, ChangeFileKeeps
  <2>2. ASSUME NEW d \in Delivery, NEW state \in {"delivered", "failed"},
               CloseDelivery(d, state)
        PROVE  PublicationInv'
    BY <2>2, CloseDeliveryKeeps
  <2>3. ASSUME NEW c \in PublicationCommand, NEW d \in Delivery, NEW publisher \in Publisher,
               NEW after \in {"observe", "current"}, InvokePublish(c, d, publisher, after)
        PROVE  PublicationInv'
    BY <2>3, InvokePublishKeeps
  <2>4. ASSUME NEW c \in PublicationCommand, NEW i \in DeliveryIntake,
               NEW publisher \in Publisher, InvokeWithdraw(c, i, publisher)
        PROVE  PublicationInv'
    BY <2>4, InvokeWithdrawKeeps
  <2>5. ASSUME NEW c \in PublicationCommand,
               \/ CheckOutcome(c) \/ CheckDestination(c) \/ ReadCurrentPublication(c)
               \/ PersistPublication(c) \/ PublicationCollides(c) \/ PublicationFails(c)
               \/ ResolvePublication(c) \/ KillRequest(c)
        PROVE  PublicationInv'
    BY <2>5, CheckOutcomeKeeps, CheckDestinationKeeps, ReadCurrentPublicationKeeps,
       PersistPublicationKeeps, PublicationCollidesKeeps, PublicationFailsKeeps,
       ResolvePublicationKeeps, KillRequestKeeps
  <2>6. ASSUME NEW u \in Reader, NEW i \in DeliveryIntake, AskAvailability(u, i)
        PROVE  PublicationInv'
    BY <2>6, AskAvailabilityKeeps
  <2>7. ASSUME NEW u \in Reader, NEW row \in publications, AskStatus(u, row)
        PROVE  PublicationInv'
    BY <2>7, AskStatusKeeps
  <2>8. ASSUME NEW u \in Reader,
               ReadPublication(u) \/ LookAtTarget(u) \/ DeriveAvailability(u)
        PROVE  PublicationInv'
    BY <2>8, ReadPublicationKeeps, LookAtTargetKeeps, DeriveAvailabilityKeeps
  <2>9. CASE UNCHANGED publicationVars
    BY <2>9, PublicationStutterKeeps
  <2> QED
    BY <2>1, <2>2, <2>3, <2>4, <2>5, <2>6, <2>7, <2>8, <2>9 DEF PublicationNext
<1> QED
  BY <1>1, PublicationInitEstablishes, PTL DEF PublicationSpec

\* The validator has nothing to say against the publications, whatever was
\* read before they were inserted.
THEOREM PublicationsAreValidHolds == PublicationSpec => []PublicationsAreValid
<1>1. PublicationInv => PublicationsAreValid
  <2> SUFFICES ASSUME PublicationInv PROVE PublicationsAreValid
    OBVIOUS
  <2>1. \A row \in publications : Contiguous(publications, row.scope)
    BY DEF PublicationInv, PublicationTypeInv, PublicationRow, PublicationTableInv
  <2>2. HistoryIsValid(publications)
    BY <2>1, ValidatorAgrees DEF PublicationInv, PublicationTableInv
  <2> QED
    BY <2>2 DEF PublicationInv, PublicationTableInv, PublicationsAreValid
<1> QED
  BY <1>1, PublicationInvHolds, PTL

\* A command that lost its place converges only on its own request under its
\* own name, and is refused only for a different record made while it ran.
THEOREM PublicationsAreHonouredHolds == PublicationSpec => []PublicationsAreHonoured
<1>1. PublicationInv => PublicationsAreHonoured
  BY DEF PublicationInv, RequestInv, Overtaken, Granted, PublicationsAreHonoured
<1> QED
  BY <1>1, PublicationInvHolds, PTL

\* A query during which one publication was current and its availability did
\* not change answers with that availability.
THEOREM StableAvailabilityIsRightHolds == PublicationSpec => []StableAvailabilityIsRight
<1>1. PublicationInv => StableAvailabilityIsRight
  BY DEF PublicationInv, ReaderInv, StableAvailabilityIsRight
<1> QED
  BY <1>1, PublicationInvHolds, PTL
=============================================================================

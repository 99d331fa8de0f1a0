---------------------------- MODULE LectureReview ----------------------------
(***************************************************************************)
(* Lecture Review: concurrent `admit_review_decision` commands recording   *)
(* the judgments (accept, reject, modify) people pass on an Edit Candidate. *)
(*                                                                         *)
(* A judgment is three records.  The decision is identified by candidate,  *)
(* kind and actor, so a repeated judgment is the old record again; an      *)
(* approving one owns an approved snapshot, which is NOT part of that      *)
(* identity; and a position in the history of (candidate, actor) says when *)
(* the judgment was the operative one, so that accept, reject, accept is   *)
(* two decisions and three positions.  A command plans its position, looks *)
(* the decision up, inserts, and may have to settle a position afterwards: *)
(* every one of these steps is a statement of its own.                     *)
(***************************************************************************)
EXTENDS RepositoryValidator

CONSTANTS
    Candidate,           \* the edit candidates
    Actor,               \* the people who judge them
    Proposal,            \* the approved snapshot of an accept: what was proposed
    Replacement,         \* the complete replacements a modify may give
    Command,             \* the admission commands, one process each
    Reversible,          \* scopes whose judgment may have been reversed already
    MaxStandingChanges   \* bound on how often chains gain or lose their standing

ASSUME ProposalAssumption == Proposal \notin Replacement
ASSUME ReversibleAssumption ==
    Reversible \subseteq Candidate \X Actor /\ IsFiniteSet(Reversible)
ASSUME StandingBoundAssumption == MaxStandingChanges \in Nat

\* What a well-formed command may submit: a kind with what it approves.
Judgment == {<<"accept", {Proposal}>>, <<"reject", {}>>}
                \union {<<"modify", {r}>> : r \in Replacement}

\* What an admission command reports.
Results == {"recorded", "reused", "not_admissible", "approval_conflict",
            "authority_conflict", "collision", "error"}

ASSUME NoneAssumption ==
    None \notin Results \union ((Candidate \X Actor) \X {"accept", "reject", "modify"})

VARIABLES
    decisions,           \* table lecture_review_decisions
    approvals,           \* table lecture_approved_edit_decisions
    positions,           \* table lecture_review_authority_positions
    standing,            \* the candidates whose chain binds the current authority
    standingChanges,     \* how often that changed
    command              \* the local state of each command

tables == <<decisions, approvals, positions>>
chains == <<standing, standingChanges>>
vars == <<tables, chains, command>>

NotStarted ==
    [pc |-> "idle", scope |-> None, judgment |-> None, plan |-> NoRow,
     start |-> 0, outcome |-> None]

\* A history as earlier commands leave it: accepted, then rejected.
Accepted(scope) == [scope |-> scope, target |-> <<scope, "accept">>,
                    sequence |-> 0, previous |-> NoIdentity]
Rejected(scope) == [scope |-> scope, target |-> <<scope, "reject">>,
                    sequence |-> 1, previous |-> <<scope, 0>>]

Init ==
    /\ \E reversed \in SUBSET Reversible :
          /\ decisions = reversed \X {"accept", "reject"}
          /\ approvals = {[decision |-> <<scope, "accept">>, snapshot |-> Proposal] :
                              scope \in reversed}
          /\ positions = {Accepted(scope) : scope \in reversed}
                             \union {Rejected(scope) : scope \in reversed}
    /\ standing = Candidate /\ standingChanges = 0
    /\ command = [c \in Command |-> NotStarted]

\* derive_review_decision_identity: candidate and actor (the scope) and kind.
Decision(c) == <<command[c].scope, command[c].judgment[1]>>
Submitted(c) == {[decision |-> Decision(c), snapshot |-> s] :
                    s \in command[c].judgment[2]}
ApprovalsOf(decision) == {a \in approvals : a.decision = decision}

\* Selections and decisions upstream move the standing of a chain.
ChangeStanding(k) ==
    /\ standingChanges < MaxStandingChanges
    /\ standingChanges' = standingChanges + 1
    /\ standing' = IF k \in standing THEN standing \ {k} ELSE standing \union {k}
    /\ UNCHANGED <<tables, command>>

-----------------------------------------------------------------------------
(* plan_authority_position: what a command intends to append to the history *)
(* of its scope, NoRow if the head already records its judgment.  The       *)
(* identity of a position is its scope and sequence.                        *)

PositionIdentity(row) == <<row.scope, row.sequence>>

Plan(head, scope, decision) ==
    IF head.target = decision THEN NoRow
    ELSE [scope    |-> scope,
          target   |-> decision,
          sequence |-> head.sequence + 1,
          previous |-> IF head = NoRow THEN NoIdentity ELSE PositionIdentity(head)]

Return(c, result) ==
    command' = [command EXCEPT ![c].pc = "returned", ![c].outcome = result,
                               ![c].plan = NoRow]
Goto(c, pc) == command' = [command EXCEPT ![c].pc = pc]

\* _plan_position over the head read now, and what is done next.
PlanThen(c, pc) ==
    \E head \in CurrentAnswers(positions, command[c].scope) :
        command' = [command EXCEPT
            ![c].pc = pc, ![c].plan = Plan(head, command[c].scope, Decision(c))]

-----------------------------------------------------------------------------
(* The steps of admit_review_decision. *)

Invoke(c, k, actor, judgment) ==
    /\ command[c].pc = "idle"
    /\ command' = [command EXCEPT
          ![c].pc = "standing", ![c].scope = <<k, actor>>, ![c].judgment = judgment,
          ![c].start = Height(positions, <<k, actor>>)]
    /\ UNCHANGED <<tables, chains>>

RequireCurrentChain(c) ==
    /\ command[c].pc = "standing"
    /\ IF command[c].scope[1] \in standing
       THEN Goto(c, "plan")
       ELSE Return(c, "not_admissible")
    /\ UNCHANGED <<tables, chains>>

PlanPosition(c) ==
    /\ command[c].pc = "plan"
    /\ PlanThen(c, "find")
    /\ UNCHANGED <<tables, chains>>

\* _reuse, for a decision that exists and was read together with its approval,
\* both of which never change.
Reuse(c) ==
    IF ApprovalsOf(Decision(c)) # Submitted(c) THEN Return(c, "approval_conflict")
    ELSE IF command[c].plan = NoRow THEN Return(c, "reused")
    ELSE Goto(c, "settle")

FindExisting(c) ==
    /\ command[c].pc = "find"
    /\ IF Decision(c) \in decisions THEN Reuse(c) ELSE Goto(c, "persist")
    /\ UNCHANGED <<tables, chains>>

\* Mutant: the position is planned in the transaction, after the look-up.
PersistPlanningLate(c) ==
    /\ command[c].pc = "persist"
    /\ \E head \in CurrentAnswers(positions, command[c].scope) :
          LET plan == Plan(head, command[c].scope, Decision(c))
          IN  IF plan = NoRow
              THEN Goto(c, "resolve") /\ UNCHANGED tables
              ELSE /\ positions' = positions \union {plan}
                   /\ decisions' = decisions \union {Decision(c)}
                   /\ approvals' = IF Decision(c) \in decisions THEN approvals
                                   ELSE approvals \union Submitted(c)
                   /\ Return(c, "recorded")
    /\ UNCHANGED chains

\* persist_review: one transaction inserts the decision with its approval, if
\* another command has not, and the planned position.
Persist(c) ==
    /\ command[c].pc = "persist"
    /\ ~SlotTaken(positions, command[c].plan)
    /\ decisions' = decisions \union {Decision(c)}
    /\ approvals' = IF Decision(c) \in decisions THEN approvals
                    ELSE approvals \union Submitted(c)
    /\ positions' = positions \union {command[c].plan}
    /\ Return(c, "recorded")
    /\ UNCHANGED chains

PersistCollides(c) ==
    /\ command[c].pc = "persist"
    /\ SlotTaken(positions, command[c].plan)
    /\ Goto(c, "resolve")
    /\ UNCHANGED <<tables, chains>>

\* After a collision: the very decision is there now, or the collision is
\* raised (somebody's other judgment took the position).
Resolve(c) ==
    /\ command[c].pc = "resolve"
    /\ IF Decision(c) \in decisions THEN Goto(c, "replan") ELSE Return(c, "collision")
    /\ UNCHANGED <<tables, chains>>

Replan(c) ==
    /\ command[c].pc = "replan"
    /\ PlanThen(c, "reuse")
    /\ UNCHANGED <<tables, chains>>

ReuseResolved(c) ==
    /\ command[c].pc = "reuse"
    /\ Reuse(c)
    /\ UNCHANGED <<tables, chains>>

\* _settle_position: a converged judgment becomes the operative one again.
SettlePosition(c) ==
    /\ command[c].pc = "settle"
    /\ IF SlotTaken(positions, command[c].plan)
       THEN Goto(c, "compare") /\ UNCHANGED positions
       ELSE /\ positions' = positions \union {command[c].plan}
            /\ Return(c, "reused")
    /\ UNCHANGED <<decisions, approvals, chains>>

\* Mutant: whoever took the position, the judgment is on record.
CompareNothing(c) ==
    /\ command[c].pc = "compare"
    /\ Return(c, "reused")
    /\ UNCHANGED <<tables, chains>>

ComparePosition(c) ==
    /\ command[c].pc = "compare"
    /\ \E head \in CurrentAnswers(positions, command[c].scope) :
          Return(c, IF /\ PositionIdentity(head) = PositionIdentity(command[c].plan)
                       /\ head.target = Decision(c)
                    THEN "reused" ELSE "authority_conflict")
    /\ UNCHANGED <<tables, chains>>

\* A locked database or an I/O error rolls the transaction back.
PersistFails(c) ==
    /\ command[c].pc \in {"persist", "settle"}
    /\ Return(c, "error")
    /\ UNCHANGED <<tables, chains>>

Running == {"standing", "plan", "find", "persist", "resolve", "replan", "reuse",
            "settle", "compare"}

Kill(c) ==
    /\ command[c].pc \in Running
    /\ command' = [command EXCEPT ![c] = [NotStarted EXCEPT !.pc = "killed"]]
    /\ UNCHANGED <<tables, chains>>

ReviewNext ==
    \/ \E k \in Candidate : ChangeStanding(k)
    \/ \E c \in Command :
        \/ \E k \in Candidate, actor \in Actor, judgment \in Judgment :
              Invoke(c, k, actor, judgment)
        \/ RequireCurrentChain(c)
        \/ PlanPosition(c)
        \/ FindExisting(c)
        \/ Persist(c)
        \/ PersistCollides(c)
        \/ Resolve(c)
        \/ Replan(c)
        \/ ReuseResolved(c)
        \/ SettlePosition(c)
        \/ ComparePosition(c)
        \/ PersistFails(c)
        \/ Kill(c)

-----------------------------------------------------------------------------
(* Properties. *)

\* What the validator says of the review records: an approving decision
\* without its one approval or a reject with one, a position whose decision is
\* missing or of another scope, a broken previous link, a gap in a history.
WrongApprovals ==
    {d \in decisions :
        Cardinality(ApprovalsOf(d)) # IF d[2] = "reject" THEN 0 ELSE 1}

StrayPositions ==
    {row \in positions : row.target \notin decisions \/ row.target[1] # row.scope}

BrokenLinks ==
    {row \in positions :
        /\ row.previous # NoIdentity
        /\ ~\E old \in positions : /\ PositionIdentity(old) = row.previous
                                   /\ old.scope = row.scope
                                   /\ old.sequence = row.sequence - 1}

ReviewRecordsAreValid ==
    /\ WrongApprovals = {} /\ StrayPositions = {} /\ BrokenLinks = {}
    /\ NoncontiguousSequences(positions) = {}

Succeeded(c) == command[c].outcome \in {"recorded", "reused"}

\* A person told that a judgment is on record finds exactly what was submitted
\* as its approved snapshot, although the snapshot is not part of the identity
\* under which concurrent commands converge: a different modify by the same
\* person is refused, whatever was recorded, superseded or repeated meanwhile.
ApprovalIsWhatWasSubmitted ==
    \A c \in Command : Succeeded(c) =>
        Decision(c) \in decisions /\ ApprovalsOf(Decision(c)) = Submitted(c)

\* A judgment on record was the operative one of its scope at some moment of
\* the call, also when the decision existed already and only its position had
\* to be settled; and a command refused because of the history lost to a
\* different judgment recorded while it ran.
JudgmentsTakeEffect ==
    \A c \in Command :
        /\ Succeeded(c) =>
              \E row \in RowsOf(positions, command[c].scope) :
                  row.target = Decision(c) /\ row.sequence + 1 >= command[c].start
        /\ command[c].outcome \in {"collision", "authority_conflict"} =>
              \E row \in RowsOf(positions, command[c].scope) :
                  row.target # Decision(c) /\ row.sequence >= command[c].start
=============================================================================

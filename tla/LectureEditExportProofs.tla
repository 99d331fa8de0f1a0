------------------------ MODULE LectureEditExportProofs ------------------------
(***************************************************************************)
(* Proofs about LectureReview and LectureEditExport, for any candidates,   *)
(* people, judgments, commands, exporters and movements of the chains.     *)
(*                                                                         *)
(* The invariant of the review records says of a command only what the     *)
(* growth of the three tables keeps true; that of an exporter says what it *)
(* has gathered, under the assumption that all scopes it could have seen   *)
(* so far are one.                                                         *)
(***************************************************************************)
EXTENDS LectureEditExport, AuthorityHistoryProofs

ReviewScope    == Candidate \X Actor
DecisionRecord == ReviewScope \X {"accept", "reject", "modify"}
Snapshot       == Replacement \union {Proposal}
Approval       == [decision : DecisionRecord, snapshot : Snapshot]

Position ==
    [scope : ReviewScope, target : DecisionRecord, sequence : Nat,
     previous : {NoIdentity} \union (ReviewScope \X Nat)]

CommandState ==
    [pc : Running \union {"idle", "returned", "killed"},
     scope : ReviewScope \union {None}, judgment : Judgment \union {None},
     plan : Position \union {NoRow}, start : Nat, outcome : Results \union {None}]

ReviewTypeInv ==
    /\ decisions \subseteq DecisionRecord
    /\ approvals \subseteq Approval
    /\ positions \subseteq Position /\ IsFiniteSet(positions)
    /\ command \in [Command -> CommandState]

\* An approving decision has one approval and a reject none; histories are
\* gapless chains of recorded decisions of their scope that never repeat.
TablesInv ==
    /\ \A d \in decisions :
          IF d[2] = "reject" THEN ApprovalsOf(d) = {}
          ELSE \E s \in Snapshot : ApprovalsOf(d) = {[decision |-> d, snapshot |-> s]}
    /\ \A a \in approvals : a.decision \in decisions
    /\ \A s \in ReviewScope : Contiguous(positions, s)
    /\ \A row, other \in positions :
          row.scope = other.scope /\ row.sequence = other.sequence => row = other
    /\ \A row \in positions :
          /\ row.target \in decisions /\ row.target[1] = row.scope
          /\ row.previous = IF row.sequence = 0 THEN NoIdentity
                            ELSE <<row.scope, row.sequence - 1>>
    /\ NeverRepeats(positions)

\* The judgment is on record at a moment not before the start of the call.
Operative(c) ==
    \E row \in positions : /\ row.scope = command[c].scope
                           /\ row.target = Decision(c)
                           /\ row.sequence + 1 >= command[c].start

\* Another judgment was recorded since the start of the call.
Overruled(c) ==
    \E row \in positions : /\ row.scope = command[c].scope
                           /\ row.target # Decision(c)
                           /\ row.sequence >= command[c].start

\* The planned position continues a history that said something else.
PlanInv(c) ==
    LET plan == command[c].plan
    IN  /\ plan \in Position
        /\ plan.scope = command[c].scope /\ plan.target = Decision(c)
        /\ plan.sequence >= command[c].start
        /\ plan.previous = IF plan.sequence = 0 THEN NoIdentity
                           ELSE <<plan.scope, plan.sequence - 1>>
        /\ plan.sequence # 0 => \E old \in positions :
              /\ old.scope = plan.scope /\ old.sequence = plan.sequence - 1
              /\ old.target # plan.target

Approved(c) == Decision(c) \in decisions /\ ApprovalsOf(Decision(c)) = Submitted(c)

\* The bookkeeping of one command: its arguments; what it plans; that a
\* decision somebody else inserted has taken the planned place as well; and
\* what it reports.
CallInv(c) ==
    /\ command[c].pc = "idle" => command[c] = NotStarted
    /\ command[c].pc # "returned" => command[c].outcome = None
    /\ command[c].pc \in Running =>
          /\ command[c].scope \in ReviewScope /\ command[c].judgment \in Judgment
          /\ command[c].start <= Height(positions, command[c].scope)
    /\ command[c].pc \in {"find", "reuse"} =>
          IF command[c].plan = NoRow THEN Operative(c) ELSE PlanInv(c)
    /\ command[c].pc \in {"persist", "resolve", "settle", "compare"} => PlanInv(c)
    /\ command[c].pc = "persist" /\ Decision(c) \in decisions =>
          SlotTaken(positions, command[c].plan)
    /\ command[c].pc \in {"resolve", "compare"} => SlotTaken(positions, command[c].plan)
    /\ command[c].pc \in {"replan", "reuse"} => Decision(c) \in decisions
    /\ command[c].pc \in {"settle", "compare"} => Approved(c)
    /\ command[c].outcome \in {"recorded", "reused"} => Approved(c) /\ Operative(c)
    /\ command[c].outcome \in {"collision", "authority_conflict"} => Overruled(c)

ReviewInv ==
    /\ ReviewTypeInv
    /\ TablesInv
    /\ \A c \in Command : CallInv(c)

-----------------------------------------------------------------------------
(* What a step does to the tables. *)

\* Records are only added; the approval of a recorded decision never changes;
\* and a decision is never recorded without a new position of its scope.
Grown ==
    /\ decisions \subseteq decisions' /\ approvals \subseteq approvals'
    /\ positions \subseteq positions'
    /\ \A d \in decisions : ApprovalsOf(d)' = ApprovalsOf(d)
    /\ \A d \in decisions' \ decisions :
          Height(positions, d[1]) < Height(positions', d[1])

\* A planned position is not above the top of the history of its scope.
LEMMA PlanBelowTop ==
    ASSUME ReviewTypeInv, TablesInv, NEW c \in Command, PlanInv(c)
    PROVE  /\ command[c].plan.sequence \in Nat
           /\ command[c].plan.sequence <= Height(positions, command[c].plan.scope)
           /\ command[c].plan.scope \in ReviewScope
           /\ command[c].plan # NoRow
<1> DEFINE plan == command[c].plan
           h == Height(positions, plan.scope)
<1>1. plan.sequence \in Nat /\ plan.scope \in ReviewScope /\ h \in Nat
  BY HeightType DEF ReviewTypeInv, PlanInv, Position
<1>2. CASE plan.sequence = 0
  BY <1>1, <1>2 DEF NoRow
<1>3. CASE plan.sequence # 0
  <2>1. PICK old \in positions : old.scope = plan.scope /\ old.sequence = plan.sequence - 1
    BY <1>3 DEF PlanInv
  <2>2. old.sequence \in 0 .. h - 1
    BY <1>1, <2>1 DEF TablesInv, Contiguous, RowsOf
  <2> QED
    BY <1>1, <2>1, <2>2 DEF NoRow
<1> QED
  BY <1>2, <1>3

\* Growth is all that other commands do to a command.
LEMMA CallKept ==
    ASSUME ReviewTypeInv, TablesInv, Grown, ReviewTypeInv', TablesInv',
           NEW d \in Command, CallInv(d), command'[d] = command[d]
    PROVE  CallInv(d)'
<1>1. Decision(d)' = Decision(d) /\ Submitted(d)' = Submitted(d)
  BY DEF Decision, Submitted
<1>2. /\ Operative(d) => Operative(d)'
      /\ Overruled(d) => Overruled(d)'
  BY <1>1 DEF Operative, Overruled, Grown
<1>3. Approved(d) => Approved(d)'
  BY <1>1 DEF Approved, Grown
<1>4. PlanInv(d) => PlanInv(d)'
  BY <1>1 DEF PlanInv, Grown
<1>5. SlotTaken(positions, command[d].plan) => SlotTaken(positions, command[d].plan)'
  BY DEF SlotTaken, Grown
<1>6. ASSUME command[d].pc = "persist", Decision(d) \in decisions'
      PROVE  SlotTaken(positions', command[d].plan)
  <2>1. CASE Decision(d) \in decisions
    BY <1>5, <1>6, <2>1 DEF CallInv
  <2>2. CASE Decision(d) \notin decisions
    <3> DEFINE plan == command[d].plan
    <3>1. PlanInv(d) /\ Decision(d)[1] = plan.scope
      BY <1>6 DEF CallInv, PlanInv, Decision
    <3>2. /\ plan.sequence \in Nat /\ plan.scope \in ReviewScope
          /\ plan.sequence <= Height(positions, plan.scope)
      BY <3>1, PlanBelowTop
    <3>3. Height(positions, plan.scope) < Height(positions', plan.scope)
      BY <1>6, <2>2, <3>1 DEF Grown
    <3>4. Height(positions, plan.scope) \in Nat /\ Height(positions', plan.scope) \in Nat
      BY HeightType DEF ReviewTypeInv
    <3>5. plan.sequence \in 0 .. Height(positions', plan.scope) - 1
      BY <3>2, <3>3, <3>4
    <3>6. \A n \in 0 .. Height(positions', plan.scope) - 1 :
             \E row \in RowsOf(positions', plan.scope) : row.sequence = n
      BY <3>2 DEF TablesInv, Contiguous
    <3>7. PICK row \in RowsOf(positions', plan.scope) : row.sequence = plan.sequence
      BY <3>5, <3>6
    <3> QED
      BY <3>7 DEF RowsOf, SlotTaken
  <2> QED
    BY <2>1, <2>2
<1>7. Decision(d) \in decisions => Decision(d) \in decisions'
  BY DEF Grown
<1>8. command[d].start <= Height(positions, command[d].scope) =>
         command[d].start <= Height(positions', command[d].scope)
  <2>1. /\ Height(positions, command[d].scope) \in Nat
        /\ Height(positions', command[d].scope) \in Nat
        /\ Height(positions, command[d].scope) <= Height(positions', command[d].scope)
    BY HeightGrows DEF ReviewTypeInv, Grown
  <2>2. command[d].start \in Nat
    BY DEF ReviewTypeInv, CommandState
  <2> QED
    BY <2>1, <2>2
<1> QED
  BY <1>1, <1>2, <1>3, <1>4, <1>5, <1>6, <1>7, <1>8 DEF CallInv

-----------------------------------------------------------------------------
(* What the steps do to a command's local state. *)

Becomes(c, pc, plan, outcome) ==
    command' = [command EXCEPT ![c].pc = pc, ![c].plan = plan, ![c].outcome = outcome]

LEMMA GotoBecomes ==
    ASSUME ReviewTypeInv, NEW c \in Command, NEW pc, Goto(c, pc)
    PROVE  Becomes(c, pc, command[c].plan, command[c].outcome)
BY DEF ReviewTypeInv, CommandState, Goto, Becomes

LEMMA ReturnBecomes ==
    ASSUME ReviewTypeInv, NEW c \in Command, NEW result, Return(c, result)
    PROVE  Becomes(c, "returned", NoRow, result)
BY DEF ReviewTypeInv, CommandState, Return, Becomes

LEMMA PlanBecomes ==
    ASSUME ReviewTypeInv, NEW c \in Command, NEW pc, NEW plan,
           command' = [command EXCEPT ![c].pc = pc, ![c].plan = plan]
    PROVE  Becomes(c, pc, plan, command[c].outcome)
BY DEF ReviewTypeInv, CommandState, Becomes

\* A step of a running command keeps its arguments.
LEMMA BecomesEffect ==
    ASSUME ReviewTypeInv, NEW c \in Command, NEW pc \in Running \union {"returned"},
           NEW plan \in Position \union {NoRow}, NEW outcome \in Results \union {None},
           Becomes(c, pc, plan, outcome)
    PROVE  /\ command' \in [Command -> CommandState]
           /\ \A d \in Command \ {c} : command'[d] = command[d]
           /\ command'[c].pc = pc /\ command'[c].plan = plan
           /\ command'[c].outcome = outcome
           /\ command'[c].scope = command[c].scope
           /\ command'[c].judgment = command[c].judgment
           /\ command'[c].start = command[c].start
           /\ Decision(c)' = Decision(c) /\ Submitted(c)' = Submitted(c)
<1>1. command \in [Command -> CommandState] /\ command[c] \in CommandState
  BY DEF ReviewTypeInv
<1>2. command'[c] = [command[c] EXCEPT !.pc = pc, !.plan = plan, !.outcome = outcome]
  BY <1>1 DEF Becomes, CommandState
<1>3. /\ command'[c] \in CommandState
      /\ command'[c].pc = pc /\ command'[c].plan = plan
      /\ command'[c].outcome = outcome
      /\ command'[c].scope = command[c].scope
      /\ command'[c].judgment = command[c].judgment
      /\ command'[c].start = command[c].start
  BY <1>1, <1>2 DEF CommandState
<1>4. command' \in [Command -> CommandState] /\ \A d \in Command \ {c} : command'[d] = command[d]
  BY <1>1, <1>3 DEF Becomes
<1> QED
  BY <1>3, <1>4 DEF Decision, Submitted

LEMMA ReturnEffect ==
    ASSUME ReviewTypeInv, NEW c \in Command, NEW result \in Results, Return(c, result)
    PROVE  /\ command' \in [Command -> CommandState]
           /\ \A d \in Command \ {c} : command'[d] = command[d]
           /\ command'[c].pc = "returned" /\ command'[c].outcome = result
           /\ command'[c].scope = command[c].scope
           /\ command'[c].judgment = command[c].judgment
           /\ command'[c].start = command[c].start
           /\ Decision(c)' = Decision(c) /\ Submitted(c)' = Submitted(c)
BY ReturnBecomes, BecomesEffect

-----------------------------------------------------------------------------
(* Steps of one command seen from the rest of the review. *)

LEMMA StepKeeps ==
    ASSUME ReviewInv, NEW c \in Command, Grown, ReviewTypeInv', TablesInv',
           \A d \in Command \ {c} : command'[d] = command[d],
           CallInv(c)'
    PROVE  ReviewInv'
<1>1. \A d \in Command : CallInv(d)'
  BY CallKept DEF ReviewInv
<1> QED
  BY <1>1 DEF ReviewInv

LEMMA UnchangedIsGrown ==
    ASSUME UNCHANGED tables
    PROVE  Grown
BY DEF tables, Grown, ApprovalsOf

LEMMA UnchangedTables ==
    ASSUME TablesInv, UNCHANGED tables
    PROVE  TablesInv'
BY DEF tables, TablesInv, ApprovalsOf

\* A step that leaves the tables alone has only the command's own bookkeeping
\* to keep right.
LEMMA LocalStep ==
    ASSUME ReviewInv, NEW c \in Command, command' \in [Command -> CommandState],
           \A d \in Command \ {c} : command'[d] = command[d],
           UNCHANGED tables, CallInv(c)'
    PROVE  ReviewInv'
<1>1. ReviewTypeInv'
  BY DEF ReviewInv, ReviewTypeInv, tables
<1>2. Grown /\ TablesInv'
  BY UnchangedIsGrown, UnchangedTables DEF ReviewInv
<1> QED
  BY <1>1, <1>2, StepKeeps

\* While the tables do not change, a command's facts change only with its
\* arguments, which no step changes, and its plan.
LEMMA FactsStay ==
    ASSUME NEW c \in Command, UNCHANGED tables,
           command'[c].scope = command[c].scope,
           command'[c].judgment = command[c].judgment,
           command'[c].start = command[c].start
    PROVE  /\ Decision(c)' = Decision(c)
           /\ Operative(c)' <=> Operative(c)
           /\ Overruled(c)' <=> Overruled(c)
           /\ Approved(c)' <=> Approved(c)
           /\ command'[c].plan = command[c].plan =>
                 /\ PlanInv(c)' <=> PlanInv(c)
                 /\ SlotTaken(positions, command[c].plan)
                       <=> SlotTaken(positions', command'[c].plan)
<1>1. Decision(c)' = Decision(c) /\ Submitted(c)' = Submitted(c)
  BY DEF Decision, Submitted
<1>2. UNCHANGED <<decisions, approvals, positions>>
  BY DEF tables
<1> QED
  BY <1>1, <1>2 DEF Operative, Overruled, Approved, ApprovalsOf, PlanInv

\* A return with a justified answer.
LEMMA ReturnKeeps ==
    ASSUME ReviewInv, NEW c \in Command, NEW result \in Results, Return(c, result),
           result \in {"recorded", "reused"} => Approved(c) /\ Operative(c),
           result \in {"collision", "authority_conflict"} => Overruled(c),
           UNCHANGED tables
    PROVE  ReviewInv'
<1>1. /\ command' \in [Command -> CommandState]
      /\ \A d \in Command \ {c} : command'[d] = command[d]
      /\ command'[c].pc = "returned" /\ command'[c].outcome = result
      /\ command'[c].scope = command[c].scope
      /\ command'[c].judgment = command[c].judgment
      /\ command'[c].start = command[c].start
  BY ReturnEffect DEF ReviewInv
<1>2. CallInv(c)'
  BY <1>1, FactsStay DEF CallInv, Running
<1> QED
  BY <1>1, <1>2, LocalStep

\* A step to another place, with the same plan.
LEMMA GotoKeeps ==
    ASSUME ReviewInv, NEW c \in Command, command[c].pc \in Running, NEW pc \in Running,
           Goto(c, pc), UNCHANGED tables,
           pc \in {"find", "reuse"} =>
               IF command[c].plan = NoRow THEN Operative(c) ELSE PlanInv(c),
           pc \in {"persist", "resolve", "settle", "compare"} => PlanInv(c),
           pc = "persist" => Decision(c) \notin decisions,
           pc \in {"resolve", "compare"} => SlotTaken(positions, command[c].plan),
           pc \in {"replan", "reuse"} => Decision(c) \in decisions,
           pc \in {"settle", "compare"} => Approved(c)
    PROVE  ReviewInv'
<1>1. /\ ReviewTypeInv /\ CallInv(c) /\ command[c] \in CommandState
      /\ command[c].outcome = None
      /\ command[c].scope \in ReviewScope /\ command[c].judgment \in Judgment
      /\ command[c].start <= Height(positions, command[c].scope)
  BY DEF ReviewInv, ReviewTypeInv, CallInv, Running
<1>2. /\ command' \in [Command -> CommandState]
      /\ \A d \in Command \ {c} : command'[d] = command[d]
      /\ command'[c].pc = pc /\ command'[c].outcome = None
      /\ command'[c].plan = command[c].plan
      /\ command'[c].scope = command[c].scope
      /\ command'[c].judgment = command[c].judgment
      /\ command'[c].start = command[c].start
  <2>1. Becomes(c, pc, command[c].plan, None)
    BY <1>1, GotoBecomes
  <2>2. command[c].plan \in Position \union {NoRow}
    BY <1>1 DEF CommandState
  <2> QED
    BY <1>1, <2>1, <2>2, BecomesEffect, ZenonT(60) DEF Running
<1>3. UNCHANGED <<decisions, approvals, positions>>
  BY DEF tables
<1>4. CallInv(c)'
  BY <1>1, <1>2, <1>3, FactsStay, NoneAssumption DEF CallInv, Running, Results
<1> QED
  BY <1>2, <1>4, LocalStep

-----------------------------------------------------------------------------
(* The steps of admit_review_decision. *)

LEMMA InvokeKeeps ==
    ASSUME ReviewInv, NEW c \in Command, NEW k \in Candidate, NEW actor \in Actor,
           NEW judgment \in Judgment, Invoke(c, k, actor, judgment)
    PROVE  ReviewInv'
<1> DEFINE h == Height(positions, <<k, actor>>)
<1>1. command[c] = NotStarted /\ command \in [Command -> CommandState]
  BY DEF Invoke, ReviewInv, CallInv, ReviewTypeInv
<1>2. command'[c] = [NotStarted EXCEPT !.pc = "standing", !.scope = <<k, actor>>,
                                       !.judgment = judgment, !.start = h]
  BY <1>1 DEF Invoke
<1>3. h \in Nat
  BY HeightType DEF ReviewInv, ReviewTypeInv
<1> HIDE DEF h
<1>4. command'[c] = [pc |-> "standing", scope |-> <<k, actor>>, judgment |-> judgment,
                     plan |-> NoRow, start |-> h, outcome |-> None]
  BY <1>2 DEF NotStarted
<1>5. /\ command'[c].pc = "standing" /\ command'[c].scope = <<k, actor>>
      /\ command'[c].judgment = judgment /\ command'[c].start = h
      /\ command'[c].outcome = None
  BY <1>4
<1>6. <<k, actor>> \in ReviewScope
  BY DEF ReviewScope
<1>7. command'[c] \in CommandState
  BY <1>3, <1>4, <1>6 DEF CommandState, Running
<1>8. /\ command' \in [Command -> CommandState]
      /\ \A d \in Command \ {c} : command'[d] = command[d]
      /\ UNCHANGED tables
  BY <1>1, <1>7 DEF Invoke
<1>9. Height(positions', <<k, actor>>) = h
  BY <1>8 DEF tables, h
<1>10. CallInv(c)'
  BY <1>3, <1>5, <1>6, <1>9, NoneAssumption DEF CallInv, Running, Results
<1> QED
  BY <1>8, <1>10, LocalStep

LEMMA RequireCurrentChainKeeps ==
    ASSUME ReviewInv, NEW c \in Command, RequireCurrentChain(c)
    PROVE  ReviewInv'
BY GotoKeeps, ReturnKeeps DEF RequireCurrentChain, Running, Results

\* The plan made from the head of a history: nothing if the head is the very
\* judgment, and otherwise the next position.
LEMMA PlanShape ==
    ASSUME ReviewInv, NEW c \in Command, command[c].pc \in Running,
           NEW head \in CurrentAnswers(positions, command[c].scope),
           NEW plan, plan = Plan(head, command[c].scope, Decision(c))
    PROVE  /\ plan = NoRow => Operative(c)
           /\ plan # NoRow =>
                 /\ plan \in Position
                 /\ plan.scope = command[c].scope /\ plan.target = Decision(c)
                 /\ plan.sequence >= command[c].start
                 /\ plan.previous = IF plan.sequence = 0 THEN NoIdentity
                                    ELSE <<plan.scope, plan.sequence - 1>>
                 /\ plan.sequence # 0 => \E old \in positions :
                       /\ old.scope = plan.scope /\ old.sequence = plan.sequence - 1
                       /\ old.target # plan.target
<1> DEFINE scope == command[c].scope
           h == Height(positions, scope)
<1>1. /\ ReviewTypeInv /\ TablesInv /\ CallInv(c) /\ command[c] \in CommandState
      /\ scope \in ReviewScope /\ command[c].judgment \in Judgment
      /\ command[c].start \in Nat /\ command[c].start <= h
  BY DEF ReviewInv, ReviewTypeInv, CallInv, CommandState
<1>2. h \in Nat /\ IsFiniteSet(positions)
  BY <1>1, HeightType DEF ReviewTypeInv
<1>3. Decision(c) \in DecisionRecord /\ Decision(c)[1] = scope
  BY <1>1 DEF Decision, Judgment, DecisionRecord
<1>4. /\ head.sequence + 1 = h
      /\ head # NoRow => head \in positions /\ head.scope = scope
  BY <1>1, <1>2, CurrentIsLast DEF TablesInv
<1>5. CASE head.target = Decision(c)
  <2>1. head # NoRow
    BY <1>3, <1>5, NoneAssumption DEF NoRow, DecisionRecord, ReviewScope
  <2>2. Operative(c)
    BY <1>1, <1>4, <1>5, <2>1 DEF Operative
  <2> QED
    BY <1>5, <2>2 DEF Plan
<1>6. CASE head.target # Decision(c)
  <2>1. plan = [scope |-> scope, target |-> Decision(c), sequence |-> head.sequence + 1,
                previous |-> IF head = NoRow THEN NoIdentity ELSE PositionIdentity(head)]
    BY <1>6 DEF Plan
  <2>2. CASE head = NoRow
    <3>1. head.sequence + 1 = 0
      BY <2>2 DEF NoRow
    <3>2. h = 0 /\ command[c].start = 0
      <4> HIDE DEF h
      <4> QED
        BY <1>1, <1>2, <1>4, <3>1 DEF h
    <3>3. plan = [scope |-> scope, target |-> Decision(c), sequence |-> 0,
                  previous |-> NoIdentity]
      BY <2>1, <2>2, <3>1
    <3>4. plan \in Position
      BY <1>1, <1>3, <3>3 DEF Position
    <3>5. plan # NoRow /\ plan.sequence = 0 /\ plan.scope = scope
          /\ plan.target = Decision(c) /\ plan.previous = NoIdentity
      BY <3>3 DEF NoRow
    <3> QED
      BY <3>2, <3>4, <3>5
  <2>3. CASE head # NoRow
    <3>1. head \in Position /\ head \in positions /\ head.scope = scope
      BY <1>1, <1>4, <2>3 DEF ReviewTypeInv
    <3>2. head.sequence \in Nat /\ PositionIdentity(head) = <<scope, head.sequence>>
      BY <3>1 DEF Position, PositionIdentity
    <3>3. /\ plan.scope = scope /\ plan.target = Decision(c)
          /\ plan.sequence = head.sequence + 1 /\ plan.sequence # 0
          /\ plan.sequence - 1 = head.sequence
          /\ plan.previous = <<plan.scope, plan.sequence - 1>>
      BY <2>1, <2>3, <3>2
    <3>4. plan \in Position
      BY <1>1, <1>3, <2>1, <2>3, <3>2 DEF Position
    <3>5. plan # NoRow
      BY <3>2, <3>3 DEF NoRow
    <3>6. plan.sequence >= command[c].start
      <4> HIDE DEF h
      <4> QED
        BY <1>1, <1>2, <1>4, <3>3
    <3>7. head.target # plan.target /\ head.scope = plan.scope
      BY <1>6, <3>1, <3>3
    <3> QED
      BY <3>1, <3>3, <3>4, <3>5, <3>6, <3>7
  <2> QED
    BY <2>2, <2>3
<1> QED
  BY <1>5, <1>6

LEMMA PlanThenKeeps ==
    ASSUME ReviewInv, NEW c \in Command, command[c].pc \in Running,
           NEW pc \in {"find", "reuse"}, PlanThen(c, pc), UNCHANGED tables,
           pc = "reuse" => Decision(c) \in decisions
    PROVE  ReviewInv'
<1>1. PICK head \in CurrentAnswers(positions, command[c].scope) :
         command' = [command EXCEPT
            ![c].pc = pc, ![c].plan = Plan(head, command[c].scope, Decision(c))]
  BY DEF PlanThen
<1>2. PICK plan : plan = Plan(head, command[c].scope, Decision(c))
  OBVIOUS
<1>3. /\ ReviewTypeInv /\ CallInv(c) /\ command[c] \in CommandState
      /\ command[c].outcome = None
      /\ command[c].scope \in ReviewScope /\ command[c].judgment \in Judgment
      /\ command[c].start <= Height(positions, command[c].scope)
  BY DEF ReviewInv, ReviewTypeInv, CallInv, Running
<1>4. plan \in Position \union {NoRow}
  BY <1>2, PlanShape
<1>5. /\ command' \in [Command -> CommandState]
      /\ \A d \in Command \ {c} : command'[d] = command[d]
      /\ command'[c].pc = pc /\ command'[c].plan = plan /\ command'[c].outcome = None
      /\ command'[c].scope = command[c].scope
      /\ command'[c].judgment = command[c].judgment
      /\ command'[c].start = command[c].start
  <2>1. Becomes(c, pc, plan, None)
    BY <1>1, <1>2, <1>3, PlanBecomes
  <2> QED
    BY <1>3, <1>4, <2>1, BecomesEffect DEF Running
<1>6. UNCHANGED <<decisions, approvals, positions>> /\ Decision(c)' = Decision(c)
  BY <1>5, FactsStay DEF tables
<1>7. plan = NoRow => Operative(c)'
  BY <1>2, <1>5, PlanShape, FactsStay
<1>8. plan # NoRow => PlanInv(c)'
  BY <1>2, <1>5, <1>6, PlanShape DEF PlanInv
<1>9. CallInv(c)'
  BY <1>3, <1>5, <1>6, <1>7, <1>8, NoneAssumption DEF CallInv, Running, Results
<1> QED
  BY <1>5, <1>9, LocalStep

LEMMA PlanPositionKeeps ==
    ASSUME ReviewInv, NEW c \in Command, PlanPosition(c)
    PROVE  ReviewInv'
<1>1. command[c].pc \in Running /\ PlanThen(c, "find") /\ UNCHANGED tables
  BY DEF PlanPosition, Running
<1> QED
  BY <1>1, PlanThenKeeps

LEMMA ReplanKeeps ==
    ASSUME ReviewInv, NEW c \in Command, Replan(c)
    PROVE  ReviewInv'
<1>1. /\ command[c].pc \in Running /\ PlanThen(c, "reuse") /\ UNCHANGED tables
      /\ Decision(c) \in decisions
  BY DEF Replan, Running, ReviewInv, CallInv
<1> QED
  BY <1>1, PlanThenKeeps

\* A decision on record answers a command with its approval: conflict, reuse,
\* or a position to settle.
LEMMA ReuseKeeps ==
    ASSUME ReviewInv, NEW c \in Command, command[c].pc \in {"find", "reuse"},
           Decision(c) \in decisions, Reuse(c), UNCHANGED tables
    PROVE  ReviewInv'
<1>1. /\ command[c].pc \in Running
      /\ IF command[c].plan = NoRow THEN Operative(c) ELSE PlanInv(c)
  BY DEF ReviewInv, CallInv, Running
<1>2. CASE ApprovalsOf(Decision(c)) # Submitted(c)
  BY <1>2, ReturnKeeps DEF Reuse, Results
<1>3. CASE ApprovalsOf(Decision(c)) = Submitted(c) /\ command[c].plan = NoRow
  BY <1>1, <1>3, ReturnKeeps DEF Reuse, Results, Approved
<1>4. CASE ApprovalsOf(Decision(c)) = Submitted(c) /\ command[c].plan # NoRow
  <2>1. Goto(c, "settle") /\ PlanInv(c) /\ Approved(c)
    BY <1>1, <1>4 DEF Reuse, Approved
  <2> QED
    BY <1>1, <2>1, GotoKeeps DEF Running
<1> QED
  BY <1>2, <1>3, <1>4

LEMMA FindExistingKeeps ==
    ASSUME ReviewInv, NEW c \in Command, FindExisting(c)
    PROVE  ReviewInv'
<1>1. command[c].pc = "find" /\ UNCHANGED tables
  BY DEF FindExisting
<1>2. CASE Decision(c) \in decisions
  BY <1>1, <1>2, ReuseKeeps DEF FindExisting
<1>3. CASE Decision(c) \notin decisions
  <2>1. Goto(c, "persist")
    BY <1>3 DEF FindExisting
  <2>2. PlanInv(c)
    <3>1. CASE command[c].plan = NoRow
      BY <1>1, <1>3, <3>1 DEF ReviewInv, CallInv, Operative, TablesInv
    <3> QED
      BY <1>1, <3>1 DEF ReviewInv, CallInv
  <2> QED
    BY <1>1, <1>3, <2>1, <2>2, GotoKeeps DEF Running
<1> QED
  BY <1>2, <1>3

LEMMA ReuseResolvedKeeps ==
    ASSUME ReviewInv, NEW c \in Command, ReuseResolved(c)
    PROVE  ReviewInv'
<1>1. command[c].pc = "reuse" /\ Reuse(c) /\ UNCHANGED tables
  BY DEF ReuseResolved
<1>2. Decision(c) \in decisions
  BY <1>1 DEF ReviewInv, CallInv
<1> QED
  BY <1>1, <1>2, ReuseKeeps

\* The planned position takes the top of its history.
LEMMA PlanIsAppended ==
    ASSUME ReviewTypeInv, TablesInv, NEW c \in Command, PlanInv(c),
           ~SlotTaken(positions, command[c].plan),
           NEW new, new = positions \union {command[c].plan}
    PROVE  /\ new \subseteq Position /\ IsFiniteSet(new)
           /\ \A s \in ReviewScope : Contiguous(new, s)
           /\ \A row, other \in new :
                 row.scope = other.scope /\ row.sequence = other.sequence => row = other
           /\ NeverRepeats(new)
           /\ Height(positions, command[c].scope) < Height(new, command[c].scope)
<1> DEFINE plan == command[c].plan
<1>1. /\ plan \in Position /\ plan.scope = command[c].scope
      /\ plan.sequence \in Nat /\ plan.scope \in ReviewScope
      /\ plan.sequence <= Height(positions, plan.scope)
      /\ plan.sequence # 0 => \E old \in positions :
            /\ old.scope = plan.scope /\ old.sequence = plan.sequence - 1
            /\ old.target # plan.target
  BY PlanBelowTop DEF PlanInv
<1>2. /\ positions \subseteq Position /\ IsFiniteSet(positions)
      /\ \A row \in positions : row.sequence \in Nat /\ row.scope \in ReviewScope
  BY DEF ReviewTypeInv, Position
<1>3. \A old \in positions : old.scope = plan.scope => old.sequence # plan.sequence
  BY DEF SlotTaken
<1>4. plan \notin positions
  BY <1>3
<1> HIDE DEF plan
<1>5. /\ IsFiniteSet(new)
      /\ Height(new, plan.scope) = Height(positions, plan.scope) + 1
      /\ \A s : s # plan.scope => /\ RowsOf(new, s) = RowsOf(positions, s)
                                  /\ Height(new, s) = Height(positions, s)
  BY <1>2, <1>4, InsertAddsOne DEF plan
<1>6. plan.sequence = Height(positions, plan.scope) /\ Contiguous(new, plan.scope)
  BY <1>1, <1>2, AppendKeepsContiguous DEF TablesInv, plan
<1>7. \A s \in ReviewScope : Contiguous(new, s)
  <2> TAKE s \in ReviewScope
  <2>1. CASE s = plan.scope
    BY <1>6, <2>1
  <2>2. CASE s # plan.scope
    <3>1. RowsOf(new, s) = RowsOf(positions, s) /\ Height(new, s) = Height(positions, s)
      BY <1>5, <2>2
    <3>2. Contiguous(positions, s)
      BY DEF TablesInv
    <3> QED
      BY <3>1, <3>2 DEF Contiguous
  <2> QED
    BY <2>1, <2>2
<1>8. \A row, other \in new :
         row.scope = other.scope /\ row.sequence = other.sequence => row = other
  BY <1>3 DEF TablesInv, plan
<1>9. ASSUME NEW row \in new, NEW old \in new,
             row.scope = old.scope, row.sequence = old.sequence + 1
      PROVE  row.target # old.target
  <2>1. CASE row \in positions /\ old \in positions
    BY <1>9, <2>1 DEF TablesInv, NeverRepeats
  <2>2. CASE row = plan /\ old = plan
    BY <1>1, <1>9, <2>2
  <2>3. CASE row = plan /\ old \in positions
    <3>1. plan.sequence # 0 /\ old.sequence = plan.sequence - 1 /\ old.scope = plan.scope
      BY <1>1, <1>2, <1>9, <2>3
    <3>2. PICK before \in positions :
             /\ before.scope = plan.scope /\ before.sequence = plan.sequence - 1
             /\ before.target # plan.target
      BY <1>1, <3>1
    <3>3. before = old
      BY <2>3, <3>1, <3>2 DEF TablesInv
    <3> QED
      BY <2>3, <3>2, <3>3
  <2>4. CASE row \in positions /\ old = plan
    <3>1. row.sequence \in 0 .. Height(positions, plan.scope) - 1
      BY <1>1, <1>9, <2>4 DEF TablesInv, Contiguous, RowsOf
    <3> QED
      BY <1>1, <1>6, <1>9, <2>4, <3>1
  <2> QED
    BY <1>9, <2>1, <2>2, <2>3, <2>4 DEF plan
<1>10. NeverRepeats(new)
  BY <1>9 DEF NeverRepeats
<1>11. Height(positions, plan.scope) < Height(new, plan.scope)
  BY <1>1, <1>5, <1>6
<1>12. new \subseteq Position
  BY <1>1, <1>2 DEF plan
<1> QED
  BY <1>1, <1>5, <1>7, <1>8, <1>10, <1>11, <1>12

LEMMA PersistKeeps ==
    ASSUME ReviewInv, NEW c \in Command, Persist(c)
    PROVE  ReviewInv'
<1> DEFINE plan == command[c].plan
<1>1. /\ ReviewTypeInv /\ TablesInv /\ CallInv(c) /\ PlanInv(c)
      /\ command[c].pc \in Running /\ ~SlotTaken(positions, plan)
      /\ command[c].scope \in ReviewScope /\ command[c].judgment \in Judgment
  BY DEF ReviewInv, Persist, CallInv, Running
<1>2. Decision(c) \notin decisions
  BY <1>1 DEF Persist, CallInv
<1>3. /\ decisions' = decisions \union {Decision(c)}
      /\ approvals' = approvals \union Submitted(c)
      /\ positions' = positions \union {plan}
      /\ Return(c, "recorded")
  BY <1>2 DEF Persist
<1>4. /\ plan.scope = command[c].scope /\ plan.target = Decision(c)
      /\ plan.sequence \in Nat /\ plan.sequence >= command[c].start
      /\ command[c].start \in Nat
      /\ plan.previous = IF plan.sequence = 0 THEN NoIdentity
                         ELSE <<plan.scope, plan.sequence - 1>>
  BY <1>1 DEF PlanInv, Position, ReviewTypeInv, CommandState
<1>5. /\ Decision(c) \in DecisionRecord /\ Decision(c)[1] = command[c].scope
      /\ Submitted(c) \subseteq Approval
      /\ \A a \in Submitted(c) : a.decision = Decision(c)
      /\ IF Decision(c)[2] = "reject" THEN Submitted(c) = {}
         ELSE \E s \in Snapshot : Submitted(c) = {[decision |-> Decision(c), snapshot |-> s]}
  <2>1. Decision(c) = <<command[c].scope, command[c].judgment[1]>>
    BY DEF Decision
  <2>2. Decision(c) \in DecisionRecord
    BY <1>1, <2>1 DEF DecisionRecord, Judgment
  <2>3. CASE command[c].judgment = <<"accept", {Proposal}>>
    BY <2>1, <2>2, <2>3 DEF Submitted, Approval, Snapshot
  <2>4. CASE command[c].judgment = <<"reject", {}>>
    BY <2>1, <2>2, <2>4 DEF Submitted, Approval, Snapshot
  <2>5. CASE \E r \in Replacement : command[c].judgment = <<"modify", {r}>>
    BY <2>1, <2>2, <2>5 DEF Submitted, Approval, Snapshot
  <2> QED
    BY <1>1, <2>3, <2>4, <2>5, <2>1, <2>2 DEF Judgment
<1>6. /\ positions' \subseteq Position /\ IsFiniteSet(positions')
      /\ \A s \in ReviewScope : Contiguous(positions', s)
      /\ \A row, other \in positions' :
            row.scope = other.scope /\ row.sequence = other.sequence => row = other
      /\ NeverRepeats(positions')
      /\ Height(positions, command[c].scope) < Height(positions', command[c].scope)
  BY <1>1, <1>3, PlanIsAppended
<1>7. /\ command' \in [Command -> CommandState]
      /\ \A d \in Command \ {c} : command'[d] = command[d]
      /\ command'[c].pc = "returned" /\ command'[c].outcome = "recorded"
      /\ command'[c].scope = command[c].scope
      /\ command'[c].judgment = command[c].judgment
      /\ command'[c].start = command[c].start
      /\ Decision(c)' = Decision(c) /\ Submitted(c)' = Submitted(c)
  BY <1>1, <1>3, ReturnEffect DEF Results
<1> HIDE DEF plan
<1>8. ReviewTypeInv'
  BY <1>1, <1>3, <1>5, <1>6, <1>7 DEF ReviewTypeInv
<1>9. /\ \A d \in decisions : ApprovalsOf(d)' = ApprovalsOf(d)
      /\ ApprovalsOf(Decision(c))' = Submitted(c)
  <2>1. \A a \in approvals : a.decision # Decision(c)
    BY <1>1, <1>2 DEF TablesInv
  <2>2. ApprovalsOf(Decision(c))' = {a \in approvals' : a.decision = Decision(c)}
    BY <1>7 DEF ApprovalsOf
  <2> QED
    BY <1>2, <1>3, <1>5, <2>1, <2>2 DEF ApprovalsOf
<1>10. TablesInv'
  <2>1. \A d \in decisions' :
           IF d[2] = "reject" THEN ApprovalsOf(d)' = {}
           ELSE \E s \in Snapshot : ApprovalsOf(d)' = {[decision |-> d, snapshot |-> s]}
    <3> TAKE d \in decisions'
    <3>1. CASE d \in decisions
      BY <1>1, <1>9, <3>1 DEF TablesInv
    <3>2. CASE d = Decision(c)
      <4>1. ApprovalsOf(d)' = Submitted(c)
        BY <1>7, <1>9, <3>2 DEF ApprovalsOf
      <4> QED
        BY <1>5, <3>2, <4>1
    <3> QED
      BY <1>3, <3>1, <3>2
  <2>2. \A a \in approvals' : a.decision \in decisions'
    BY <1>1, <1>3, <1>5 DEF TablesInv
  <2>3. \A row \in positions' :
          /\ row.target \in decisions' /\ row.target[1] = row.scope
          /\ row.previous = IF row.sequence = 0 THEN NoIdentity
                            ELSE <<row.scope, row.sequence - 1>>
    BY <1>1, <1>3, <1>4, <1>5 DEF TablesInv
  <2> QED
    BY <1>6, <2>1, <2>2, <2>3 DEF TablesInv
<1>11. Grown
  BY <1>3, <1>5, <1>6, <1>9 DEF Grown
<1>12. CallInv(c)'
  <2>1. Approved(c)'
    BY <1>3, <1>7, <1>9 DEF Approved
  <2>2. plan \in positions' /\ plan.sequence + 1 >= command[c].start
    BY <1>3, <1>4
  <2>3. Operative(c)'
    BY <1>4, <1>7, <2>2 DEF Operative
  <2> QED
    BY <1>7, <2>1, <2>3 DEF CallInv, Running
<1> QED
  BY <1>7, <1>8, <1>10, <1>11, <1>12, StepKeeps

LEMMA PersistCollidesKeeps ==
    ASSUME ReviewInv, NEW c \in Command, PersistCollides(c)
    PROVE  ReviewInv'
<1>1. /\ command[c].pc \in Running /\ PlanInv(c) /\ SlotTaken(positions, command[c].plan)
      /\ Goto(c, "resolve") /\ UNCHANGED tables
  BY DEF PersistCollides, ReviewInv, CallInv, Running
<1> QED
  BY <1>1, GotoKeeps DEF Running

\* Whoever holds the planned place has another decision there.
LEMMA ResolveKeeps ==
    ASSUME ReviewInv, NEW c \in Command, Resolve(c)
    PROVE  ReviewInv'
<1>1. /\ command[c].pc = "resolve" /\ PlanInv(c) /\ SlotTaken(positions, command[c].plan)
      /\ UNCHANGED tables
  BY DEF Resolve, ReviewInv, CallInv
<1>2. CASE Decision(c) \in decisions
  <2>1. Goto(c, "replan")
    BY <1>2 DEF Resolve
  <2> QED
    BY <1>1, <1>2, <2>1, GotoKeeps DEF Running
<1>3. CASE Decision(c) \notin decisions
  <2>1. Return(c, "collision")
    BY <1>3 DEF Resolve
  <2>2. PICK row \in positions : row.scope = command[c].plan.scope
                                 /\ row.sequence = command[c].plan.sequence
    BY <1>1 DEF SlotTaken
  <2>3. row.target # Decision(c)
    BY <1>3 DEF ReviewInv, TablesInv
  <2>4. Overruled(c)
    BY <1>1, <2>2, <2>3 DEF Overruled, PlanInv
  <2> QED
    BY <1>1, <2>1, <2>4, ReturnKeeps DEF Results
<1> QED
  BY <1>2, <1>3

LEMMA SettlePositionKeeps ==
    ASSUME ReviewInv, NEW c \in Command, SettlePosition(c)
    PROVE  ReviewInv'
<1> DEFINE plan == command[c].plan
<1>1. /\ ReviewTypeInv /\ TablesInv /\ PlanInv(c) /\ Approved(c)
      /\ command[c].pc = "settle" /\ command[c].scope \in ReviewScope
  BY DEF ReviewInv, SettlePosition, CallInv, Running
<1>2. CASE SlotTaken(positions, plan)
  <2>1. Goto(c, "compare") /\ UNCHANGED tables
    BY <1>2 DEF SettlePosition, tables
  <2> QED
    BY <1>1, <1>2, <2>1, GotoKeeps DEF Running
<1>3. CASE ~SlotTaken(positions, plan)
  <2>1. /\ positions' = positions \union {plan} /\ Return(c, "reused")
        /\ UNCHANGED <<decisions, approvals>>
    BY <1>3 DEF SettlePosition
  <2>2. /\ positions' \subseteq Position /\ IsFiniteSet(positions')
        /\ \A s \in ReviewScope : Contiguous(positions', s)
        /\ \A row, other \in positions' :
              row.scope = other.scope /\ row.sequence = other.sequence => row = other
        /\ NeverRepeats(positions')
    BY <1>1, <1>3, <2>1, PlanIsAppended
  <2>3. /\ command' \in [Command -> CommandState]
        /\ \A d \in Command \ {c} : command'[d] = command[d]
        /\ command'[c].pc = "returned" /\ command'[c].outcome = "reused"
        /\ command'[c].scope = command[c].scope
        /\ command'[c].judgment = command[c].judgment
        /\ command'[c].start = command[c].start
        /\ Decision(c)' = Decision(c) /\ Submitted(c)' = Submitted(c)
    BY <1>1, <2>1, ReturnEffect DEF Results
  <2>4. /\ plan.scope = command[c].scope /\ plan.target = Decision(c)
        /\ plan.sequence \in Nat /\ plan.sequence >= command[c].start
        /\ command[c].start \in Nat
        /\ plan.previous = IF plan.sequence = 0 THEN NoIdentity
                           ELSE <<plan.scope, plan.sequence - 1>>
    BY <1>1 DEF PlanInv, Position, ReviewTypeInv, CommandState
  <2> HIDE DEF plan
  <2>5. Decision(c) \in decisions /\ Decision(c)[1] = command[c].scope
    BY <1>1 DEF Approved, Decision
  <2>6. \A d : ApprovalsOf(d)' = ApprovalsOf(d)
    BY <2>1 DEF ApprovalsOf
  <2>7. ReviewTypeInv'
    BY <1>1, <2>1, <2>2, <2>3 DEF ReviewTypeInv
  <2>8. TablesInv'
    <3>1. \A row \in positions' :
            /\ row.target \in decisions' /\ row.target[1] = row.scope
            /\ row.previous = IF row.sequence = 0 THEN NoIdentity
                              ELSE <<row.scope, row.sequence - 1>>
      BY <1>1, <2>1, <2>4, <2>5 DEF TablesInv
    <3> QED
      BY <1>1, <2>1, <2>2, <3>1 DEF TablesInv, ApprovalsOf
  <2>9. Grown
    BY <2>1, <2>6 DEF Grown
  <2>10. CallInv(c)'
    <3>1. Approved(c)'
      BY <1>1, <2>1, <2>3 DEF Approved, ApprovalsOf
    <3>2. plan \in positions' /\ plan.sequence + 1 >= command[c].start
      BY <2>1, <2>4
    <3>3. Operative(c)'
      BY <2>3, <2>4, <3>2 DEF Operative
    <3> QED
      BY <2>3, <3>1, <3>3 DEF CallInv, Running
  <2> QED
    BY <2>3, <2>7, <2>8, <2>9, <2>10, StepKeeps
<1> QED
  BY <1>2, <1>3

\* A place taken by another judgment, or a judgment superseded since.
LEMMA ComparePositionKeeps ==
    ASSUME ReviewInv, NEW c \in Command, ComparePosition(c)
    PROVE  ReviewInv'
<1> DEFINE plan == command[c].plan
           scope == command[c].scope
           h == Height(positions, scope)
<1>1. /\ ReviewTypeInv /\ TablesInv /\ PlanInv(c) /\ Approved(c)
      /\ SlotTaken(positions, plan) /\ scope \in ReviewScope /\ UNCHANGED tables
  BY DEF ReviewInv, ComparePosition, CallInv, Running
<1>2. PICK head \in CurrentAnswers(positions, scope) :
         Return(c, IF /\ PositionIdentity(head) = PositionIdentity(plan)
                      /\ head.target = Decision(c)
                   THEN "reused" ELSE "authority_conflict")
  BY DEF ComparePosition
<1>3. /\ h \in Nat /\ Contiguous(positions, scope)
      /\ plan.scope = scope /\ plan.sequence \in Nat
      /\ command[c].start \in Nat /\ plan.sequence >= command[c].start
      /\ \A row \in positions : row.sequence \in Nat
  BY <1>1, HeightType DEF ReviewTypeInv, TablesInv, PlanInv, Position, CommandState
<1>4. PICK taken \in positions : taken.scope = scope /\ taken.sequence = plan.sequence
  BY <1>1, <1>3 DEF SlotTaken
<1>5. plan.sequence \in 0 .. h - 1
  BY <1>3, <1>4 DEF Contiguous, RowsOf
<1>6. head.sequence + 1 = h /\ (head # NoRow => head \in positions /\ head.scope = scope)
  BY <1>1, <1>3, CurrentIsLast DEF ReviewTypeInv
<1> HIDE DEF plan, scope, h
<1>7. head # NoRow
  BY <1>3, <1>5, <1>6 DEF NoRow
<1>8. /\ head \in positions /\ head.scope = scope /\ head.sequence \in Nat
      /\ head.sequence >= plan.sequence
  BY <1>3, <1>5, <1>6, <1>7
<1>9. CASE PositionIdentity(head) = PositionIdentity(plan) /\ head.target = Decision(c)
  <2>1. head.sequence + 1 >= command[c].start
    BY <1>3, <1>8
  <2>2. Operative(c)
    BY <1>8, <1>9, <2>1 DEF Operative, scope
  <2> QED
    BY <1>1, <1>2, <1>9, <2>2, ReturnKeeps DEF Results
<1>10. CASE head.target # Decision(c)
  <2>1. head.sequence >= command[c].start
    BY <1>3, <1>8
  <2>2. Overruled(c)
    BY <1>8, <1>10, <2>1 DEF Overruled, scope
  <2> QED
    BY <1>1, <1>2, <1>10, <2>2, ReturnKeeps DEF Results
<1>11. CASE PositionIdentity(head) # PositionIdentity(plan) /\ head.target = Decision(c)
  <2>1. head.sequence # plan.sequence
    BY <1>3, <1>8, <1>11 DEF PositionIdentity
  <2>2. head.sequence - 1 \in 0 .. h - 1 /\ head.sequence - 1 >= plan.sequence
    BY <1>3, <1>6, <1>8, <2>1
  <2>3. PICK before \in RowsOf(positions, scope) : before.sequence = head.sequence - 1
    BY <1>3, <2>2 DEF Contiguous, h
  <2>4. before \in positions /\ before.scope = scope
    BY DEF RowsOf
  <2>5. head.sequence = before.sequence + 1
    BY <1>8, <2>3
  <2>6. before.target # Decision(c)
    BY <1>1, <1>8, <1>11, <2>4, <2>5 DEF TablesInv, NeverRepeats
  <2>7. before.sequence >= command[c].start
    BY <1>3, <1>8, <2>2, <2>3
  <2>8. Overruled(c)
    BY <2>4, <2>6, <2>7 DEF Overruled, scope
  <2> QED
    BY <1>1, <1>2, <1>11, <2>8, ReturnKeeps DEF Results
<1> QED
  BY <1>9, <1>10, <1>11

LEMMA PersistFailsKeeps ==
    ASSUME ReviewInv, NEW c \in Command, PersistFails(c)
    PROVE  ReviewInv'
BY ReturnKeeps DEF PersistFails, Results

LEMMA KillKeeps ==
    ASSUME ReviewInv, NEW c \in Command, Kill(c)
    PROVE  ReviewInv'
<1>1. command'[c] = [NotStarted EXCEPT !.pc = "killed"]
  BY DEF Kill, ReviewInv, ReviewTypeInv
<1>2. command'[c] = [pc |-> "killed", scope |-> None, judgment |-> None, plan |-> NoRow,
                     start |-> 0, outcome |-> None]
  BY <1>1 DEF NotStarted
<1>3. command'[c].pc = "killed" /\ command'[c].outcome = None /\ command'[c] \in CommandState
  BY <1>2 DEF CommandState
<1>4. /\ command' \in [Command -> CommandState]
      /\ \A d \in Command \ {c} : command'[d] = command[d]
      /\ UNCHANGED tables
  BY <1>3 DEF Kill, ReviewInv, ReviewTypeInv
<1>5. CallInv(c)'
  BY <1>3, NoneAssumption DEF CallInv, Running, Results
<1> QED
  BY <1>4, <1>5, LocalStep

LEMMA ChangeStandingKeeps ==
    ASSUME ReviewInv, NEW k \in Candidate, ChangeStanding(k)
    PROVE  ReviewInv'
<1>1. UNCHANGED <<decisions, approvals, positions, command>>
  BY DEF ChangeStanding, tables
<1>2. ReviewTypeInv' /\ TablesInv' /\ Grown
  BY <1>1, UnchangedTables, UnchangedIsGrown DEF ReviewInv, ReviewTypeInv, tables
<1>3. \A c \in Command : CallInv(c)'
  BY <1>1, <1>2, CallKept DEF ReviewInv
<1> QED
  BY <1>2, <1>3 DEF ReviewInv

LEMMA ReviewNextKeeps ==
    ASSUME ReviewInv, ReviewNext
    PROVE  ReviewInv'
<1>1. CASE \E k \in Candidate : ChangeStanding(k)
  BY <1>1, ChangeStandingKeeps
<1>2. CASE \E c \in Command : \E k \in Candidate, actor \in Actor, judgment \in Judgment :
              Invoke(c, k, actor, judgment)
  BY <1>2, InvokeKeeps
<1>3. ASSUME NEW c \in Command,
             \/ RequireCurrentChain(c) \/ PlanPosition(c) \/ FindExisting(c)
             \/ Persist(c) \/ PersistCollides(c) \/ Resolve(c) \/ Replan(c)
             \/ ReuseResolved(c) \/ SettlePosition(c) \/ ComparePosition(c)
             \/ PersistFails(c) \/ Kill(c)
      PROVE  ReviewInv'
  BY <1>3, RequireCurrentChainKeeps, PlanPositionKeeps, FindExistingKeeps, PersistKeeps,
     PersistCollidesKeeps, ResolveKeeps, ReplanKeeps, ReuseResolvedKeeps,
     SettlePositionKeeps, ComparePositionKeeps, PersistFailsKeeps, KillKeeps
<1> QED
  BY <1>1, <1>2, <1>3 DEF ReviewNext

-----------------------------------------------------------------------------
(* The initial histories, and the validity of the records. *)

LEMMA ImageIsFinite ==
    ASSUME NEW S, IsFiniteSet(S), NEW f, DOMAIN f = S, f = [x \in S |-> f[x]]
    PROVE  IsFiniteSet({f[x] : x \in S})
<1> DEFINE T == {f[x] : x \in S}
<1>1. f \in Surjection(S, T)
  <2>1. f \in [S -> T]
    OBVIOUS
  <2>2. \A t \in T : \E x \in S : f[x] = t
    OBVIOUS
  <2> QED
    BY <2>1, <2>2 DEF Surjection
<1> QED
  BY <1>1, FS_Surjection

LEMMA InitEstablishes == Init => ReviewInv
<1> SUFFICES ASSUME Init PROVE ReviewInv
  OBVIOUS
<1>1. PICK reversed \in SUBSET Reversible :
         /\ decisions = reversed \X {"accept", "reject"}
         /\ approvals = {[decision |-> <<scope, "accept">>, snapshot |-> Proposal] :
                             scope \in reversed}
         /\ positions = {Accepted(scope) : scope \in reversed}
                            \union {Rejected(scope) : scope \in reversed}
  BY DEF Init
<1>2. IsFiniteSet(reversed) /\ \A scope \in reversed : scope \in ReviewScope
  BY ReversibleAssumption, FS_Subset DEF ReviewScope
<1>3. \A scope \in reversed :
         /\ Accepted(scope) \in Position /\ Rejected(scope) \in Position
         /\ Accepted(scope).scope = scope /\ Rejected(scope).scope = scope
         /\ Accepted(scope).target = <<scope, "accept">>
         /\ Rejected(scope).target = <<scope, "reject">>
         /\ Accepted(scope).sequence = 0 /\ Rejected(scope).sequence = 1
         /\ Accepted(scope).previous = NoIdentity
         /\ Rejected(scope).previous = <<scope, 0>>
  BY <1>2 DEF Accepted, Rejected, Position, DecisionRecord
<1>4. IsFiniteSet(positions)
  <2> DEFINE f == [scope \in reversed |-> Accepted(scope)]
             g == [scope \in reversed |-> Rejected(scope)]
  <2>1. {f[scope] : scope \in reversed} = {Accepted(scope) : scope \in reversed}
    OBVIOUS
  <2>2. {g[scope] : scope \in reversed} = {Rejected(scope) : scope \in reversed}
    OBVIOUS
  <2>3. DOMAIN f = reversed /\ f = [scope \in reversed |-> f[scope]]
    OBVIOUS
  <2>4. DOMAIN g = reversed /\ g = [scope \in reversed |-> g[scope]]
    OBVIOUS
  <2> HIDE DEF f, g
  <2>5. IsFiniteSet({Accepted(scope) : scope \in reversed})
    BY <1>2, <2>1, <2>3, ImageIsFinite
  <2>6. IsFiniteSet({Rejected(scope) : scope \in reversed})
    BY <1>2, <2>2, <2>4, ImageIsFinite
  <2> QED
    BY <1>1, <2>5, <2>6, FS_Union
<1>5. command = [c \in Command |-> NotStarted] /\ NotStarted \in CommandState
  BY DEF Init, NotStarted, CommandState
<1>6. ReviewTypeInv
  <2>1. decisions \subseteq DecisionRecord /\ approvals \subseteq Approval
    BY <1>1, <1>2 DEF DecisionRecord, Approval, Snapshot
  <2>2. positions \subseteq Position
    BY <1>1, <1>3
  <2> QED
    BY <1>4, <1>5, <2>1, <2>2 DEF ReviewTypeInv
<1>7. TablesInv
  <2>1. ASSUME NEW d \in decisions
        PROVE  IF d[2] = "reject" THEN ApprovalsOf(d) = {}
               ELSE \E s \in Snapshot : ApprovalsOf(d) = {[decision |-> d, snapshot |-> s]}
    <3>1. PICK scope \in reversed : d = <<scope, "accept">> \/ d = <<scope, "reject">>
      BY <1>1
    <3>2. CASE d = <<scope, "reject">>
      BY <1>1, <3>2 DEF ApprovalsOf
    <3>3. CASE d = <<scope, "accept">>
      <4>1. ApprovalsOf(d) = {[decision |-> d, snapshot |-> Proposal]}
        BY <1>1, <3>3 DEF ApprovalsOf
      <4> QED
        BY <3>3, <4>1 DEF Snapshot
    <3> QED
      BY <3>1, <3>2, <3>3
  <2>2. \A a \in approvals : a.decision \in decisions
    BY <1>1
  <2>3. ASSUME NEW s \in ReviewScope
        PROVE  Contiguous(positions, s)
    <3>1. CASE s \notin reversed
      <4>1. RowsOf(positions, s) = {}
        BY <1>1, <1>3, <3>1 DEF RowsOf
      <4>2. Height(positions, s) = 0
        BY <4>1, FS_EmptySet DEF Height
      <4> QED
        BY <4>1, <4>2 DEF Contiguous
    <3>2. CASE s \in reversed
      <4>1. RowsOf(positions, s) = {Accepted(s), Rejected(s)}
        BY <1>1, <1>3, <3>2 DEF RowsOf
      <4>2. Accepted(s) # Rejected(s) /\ Accepted(s).sequence = 0 /\ Rejected(s).sequence = 1
        BY <1>3, <3>2
      <4>3. Height(positions, s) = 2
        <5>1. IsFiniteSet({Accepted(s)}) /\ Cardinality({Accepted(s)}) = 1
          BY FS_Singleton
        <5>2. Cardinality({Accepted(s)} \union {Rejected(s)}) = 1 + 1
          BY <4>2, <5>1, FS_AddElement, SMTT(30)
        <5>3. {Accepted(s)} \union {Rejected(s)} = {Accepted(s), Rejected(s)}
          OBVIOUS
        <5> QED
          BY <4>1, <5>2, <5>3 DEF Height
      <4>4. 0 .. Height(positions, s) - 1 = {0, 1}
        BY <4>3
      <4> QED
        BY <4>1, <4>2, <4>4 DEF Contiguous
    <3> QED
      BY <3>1, <3>2
  <2>4. \A row \in positions : \E scope \in reversed :
           row = Accepted(scope) \/ row = Rejected(scope)
    BY <1>1
  <2>5. \A row, other \in positions :
           row.scope = other.scope /\ row.sequence = other.sequence => row = other
    BY <1>3, <2>4
  <2>6. \A row \in positions :
           /\ row.target \in decisions /\ row.target[1] = row.scope
           /\ row.previous = IF row.sequence = 0 THEN NoIdentity
                             ELSE <<row.scope, row.sequence - 1>>
    BY <1>1, <1>3, <2>4
  <2>7. NeverRepeats(positions)
    <3> SUFFICES ASSUME NEW row \in positions, NEW old \in positions,
                        row.scope = old.scope, row.sequence = old.sequence + 1
                 PROVE  row.target # old.target
      BY DEF NeverRepeats
    <3> QED
      BY <1>3, <2>4
  <2> QED
    BY <2>1, <2>2, <2>3, <2>5, <2>6, <2>7 DEF TablesInv
<1>8. ASSUME NEW c \in Command
      PROVE  CallInv(c)
  <2>1. command[c].pc = "idle" /\ command[c].outcome = None /\ command[c] = NotStarted
    BY <1>5 DEF NotStarted
  <2> QED
    BY <2>1, NoneAssumption DEF CallInv, Running, Results
<1> QED
  BY <1>6, <1>7, <1>8 DEF ReviewInv

LEMMA ReviewRecordsValid == ReviewInv => ReviewRecordsAreValid
<1> SUFFICES ASSUME ReviewInv PROVE ReviewRecordsAreValid
  OBVIOUS
<1>1. /\ TablesInv /\ IsFiniteSet(positions)
      /\ \A row \in positions : row \in Position /\ row.scope \in ReviewScope
                                /\ row.sequence \in Nat
  BY DEF ReviewInv, ReviewTypeInv, Position
<1>2. WrongApprovals = {}
  <2> SUFFICES ASSUME NEW d \in decisions
               PROVE  Cardinality(ApprovalsOf(d)) = IF d[2] = "reject" THEN 0 ELSE 1
    BY DEF WrongApprovals
  <2>1. CASE d[2] = "reject"
    BY <1>1, <2>1, FS_EmptySet DEF TablesInv
  <2>2. CASE d[2] # "reject"
    <3>1. PICK s : ApprovalsOf(d) = {[decision |-> d, snapshot |-> s]}
      BY <1>1, <2>2 DEF TablesInv
    <3> QED
      BY <2>2, <3>1, FS_Singleton
  <2> QED
    BY <2>1, <2>2
<1>3. StrayPositions = {}
  BY <1>1 DEF StrayPositions, TablesInv
<1>4. BrokenLinks = {}
  <2> SUFFICES ASSUME NEW row \in positions, row.previous # NoIdentity
               PROVE  \E old \in positions : /\ PositionIdentity(old) = row.previous
                                             /\ old.scope = row.scope
                                             /\ old.sequence = row.sequence - 1
    BY DEF BrokenLinks
  <2> DEFINE h == Height(positions, row.scope)
  <2>1. row.sequence # 0 /\ row.previous = <<row.scope, row.sequence - 1>>
    BY <1>1 DEF TablesInv
  <2>2. Contiguous(positions, row.scope) /\ row \in RowsOf(positions, row.scope) /\ h \in Nat
    BY <1>1, HeightType DEF TablesInv, RowsOf
  <2>3. row.sequence \in 0 .. h - 1
    BY <2>2 DEF Contiguous
  <2>4. row.sequence - 1 \in 0 .. h - 1
    BY <1>1, <2>1, <2>2, <2>3
  <2>5. PICK old \in RowsOf(positions, row.scope) : old.sequence = row.sequence - 1
    BY <2>2, <2>4 DEF Contiguous
  <2> QED
    BY <2>1, <2>5 DEF RowsOf, PositionIdentity
<1>5. NoncontiguousSequences(positions) = {}
  BY <1>1, GaplessIsContiguous DEF TablesInv
<1> QED
  BY <1>2, <1>3, <1>4, <1>5 DEF ReviewRecordsAreValid

-----------------------------------------------------------------------------
(* The invariant of the exporters. *)

ExporterState ==
    [pc : {"idle", "actors", "head", "anchor", "lookup", "persist", "returned", "killed"},
     at : Nat, actor : Actor \union {None}, decision : DecisionRecord \union {None},
     members : SUBSET Approval, conflict : BOOLEAN, outcome : ExportResults \union {None}]

Contested(k) == Cardinality(ActorsOf(k)) > 1

CandidateOf(a) == a.decision[1][1]

Contribution(eligible, k) == {a \in eligible : CandidateOf(a) = k}
PartOf(eligible, candidates) == {a \in eligible : CandidateOf(a) \in candidates}

\* The candidates an exporter is done with, and the places it has yet to ask
\* for people.
Visited(e) == {Timeline[n] : n \in 1 .. exporter[e].at - 1}
Ahead(e) ==
    IF exporter[e].pc = "actors" THEN exporter[e].at .. Len(Timeline)
    ELSE exporter[e].at + 1 .. Len(Timeline)

\* What an exporter has gathered if it could only have seen one scope: the
\* scope's part of the candidates visited, unless the scope has a conflict,
\* which it has found or has ahead of it.
Gathered(e, scope) ==
    /\ exporter[e].pc \in Observing =>
          /\ scope.conflict /\ ~exporter[e].conflict =>
                \E n \in Ahead(e) : Contested(Timeline[n])
          /\ ~scope.conflict =>
                exporter[e].members = PartOf(scope.eligible, Visited(e))
    /\ exporter[e].pc = "anchor" /\ ~scope.conflict =>
          Contribution(scope.eligible, Timeline[exporter[e].at])
            = IF Timeline[exporter[e].at] \in scope.standing
              THEN ApprovalsOf(exporter[e].decision) ELSE {}
    /\ exporter[e].pc \in {"lookup", "persist", "returned"} =>
          /\ exporter[e].conflict = scope.conflict
          /\ ~exporter[e].conflict => exporter[e].members = scope.eligible

ExporterInv(e) ==
    /\ exporter[e].pc = "idle" => exporter[e] = NotExporting /\ witnessed[e] = {}
    /\ exporter[e].pc # "returned" => exporter[e].outcome = None
    /\ exporter[e].members \subseteq approvals
    /\ exporter[e].pc \in Observing =>
          /\ exporter[e].at \in 1 .. Len(Timeline)
          /\ Scope \in witnessed[e]
          /\ exporter[e].conflict => \E k \in OnTimeline : Contested(k)
    /\ exporter[e].pc \in {"head", "anchor"} =>
          exporter[e].actor \in ActorsOf(Timeline[exporter[e].at])
    /\ exporter[e].pc = "anchor" => exporter[e].decision \in decisions
    /\ exporter[e].pc \in {"lookup", "persist"} =>
          ~exporter[e].conflict /\ exporter[e].members # {}
    /\ exporter[e].outcome \in Exported => ~exporter[e].conflict
    /\ exporter[e].outcome = "undecided" =>
          exporter[e].conflict \/ exporter[e].members = {}
    /\ \A scope \in witnessed[e] : witnessed[e] = {scope} => Gathered(e, scope)

Inv ==
    /\ ReviewInv
    /\ exporter \in [Exporter -> ExporterState]
    /\ \A members \in assemblies : members # {} /\ members \subseteq approvals
    /\ \A e \in Exporter : ExporterInv(e)

-----------------------------------------------------------------------------
(* What is eligible now, candidate by candidate. *)

LEMMA ActorsAreFinite ==
    ASSUME NEW table, IsFiniteSet(table), NEW k
    PROVE  IsFiniteSet({actor \in Actor : RowsOf(table, <<k, actor>>) # {}})
<1> DEFINE people == {actor \in Actor : RowsOf(table, <<k, actor>>) # {}}
           rows == {row \in table : row.scope[1] = k}
           f == [row \in rows |-> row.scope[2]]
<1>1. IsFiniteSet(rows)
  BY FS_Subset
<1>2. DOMAIN f = rows /\ f = [row \in rows |-> f[row]]
  OBVIOUS
<1>3. ASSUME NEW actor \in people
      PROVE  \E row \in rows : actor = f[row]
  <2>1. PICK row \in table : row.scope = <<k, actor>>
    BY DEF RowsOf
  <2>2. row \in rows /\ f[row] = actor
    BY <2>1
  <2> QED
    BY <2>2
<1> HIDE DEF f
<1>4. IsFiniteSet({f[row] : row \in rows})
  BY <1>1, <1>2, ImageIsFinite
<1>5. people \in SUBSET {f[row] : row \in rows}
  BY <1>3
<1> QED
  BY <1>4, <1>5, FS_Subset

\* One person's history makes the candidate arbitrated by exactly that person,
\* unless there is a second one.
LEMMA ActorsCounted ==
    ASSUME IsFiniteSet(positions), NEW k
    PROVE  /\ Cardinality(ActorsOf(k)) \in Nat
           /\ Cardinality(ActorsOf(k)) = 1 <=> \E actor : ActorsOf(k) = {actor}
           /\ \A actor \in ActorsOf(k) : ~Contested(k) => ActorsOf(k) = {actor}
<1>1. IsFiniteSet(ActorsOf(k)) /\ Cardinality(ActorsOf(k)) \in Nat
  BY ActorsAreFinite, FS_CardinalityType DEF ActorsOf
<1>2. Cardinality(ActorsOf(k)) = 1 <=> \E actor : ActorsOf(k) = {actor}
  BY <1>1, FS_Singleton
<1>3. Cardinality(ActorsOf(k)) = 0 <=> ActorsOf(k) = {}
  BY <1>1, FS_EmptySet
<1>4. ASSUME NEW actor \in ActorsOf(k), ~Contested(k)
      PROVE  ActorsOf(k) = {actor}
  <2>1. Cardinality(ActorsOf(k)) = 1
    BY <1>1, <1>3, <1>4 DEF Contested
  <2> QED
    BY <1>2, <1>4, <2>1
<1> QED
  BY <1>1, <1>2, <1>4

LEMMA EligibleMeans ==
    ASSUME NEW a
    PROVE  a \in EligibleNow <=>
             /\ a \in approvals
             /\ \E k \in OnTimeline \intersect standing :
                   /\ Cardinality(ActorsOf(k)) = 1
                   /\ \E actor \in ActorsOf(k) : \E row \in Newest(positions, <<k, actor>>) :
                         a.decision = row.target
<1> DEFINE judged == {k \in OnTimeline \intersect standing : Cardinality(ActorsOf(k)) = 1}
           operative == UNION {OperativeDecisions(k) : k \in judged}
<1>1. \A k, d : d \in OperativeDecisions(k) <=>
         \E actor \in ActorsOf(k) : \E row \in Newest(positions, <<k, actor>>) :
             d = row.target
  <2> TAKE k, d
  <2> DEFINE rows == UNION {Newest(positions, <<k, actor>>) : actor \in ActorsOf(k)}
  <2>1. d \in OperativeDecisions(k) <=> \E row \in rows : d = row.target
    BY DEF OperativeDecisions
  <2>2. \A row : row \in rows <=>
           \E actor \in ActorsOf(k) : row \in Newest(positions, <<k, actor>>)
    OBVIOUS
  <2> HIDE DEF rows
  <2> QED
    BY <2>1, <2>2
<1>2. EligibleNow = UNION {ApprovalsOf(d) : d \in operative}
  BY DEF EligibleNow
<1>3. \A d : d \in operative <=> \E k \in judged : d \in OperativeDecisions(k)
  OBVIOUS
<1> HIDE DEF operative
<1>4. a \in EligibleNow <=> \E d \in operative : a \in ApprovalsOf(d)
  BY <1>2
<1>5. \A d : a \in ApprovalsOf(d) <=> a \in approvals /\ a.decision = d
  BY DEF ApprovalsOf
<1>6. a \in EligibleNow <=>
         a \in approvals /\ \E k \in judged : a.decision \in OperativeDecisions(k)
  BY <1>3, <1>4, <1>5
<1> QED
  BY <1>1, <1>6

\* The newest judgment of a person is one of the candidate.
LEMMA NewestIsOfScope ==
    ASSUME ReviewInv, NEW k, NEW actor, NEW row \in Newest(positions, <<k, actor>>)
    PROVE  /\ row \in positions /\ row.scope = <<k, actor>>
           /\ row.target \in decisions /\ row.target[1][1] = k
<1>1. row \in positions /\ row.scope = <<k, actor>>
  BY DEF Newest, RowsOf
<1>2. row.target \in decisions /\ row.target[1] = row.scope
  BY <1>1 DEF ReviewInv, TablesInv
<1> QED
  BY <1>1, <1>2

LEMMA EligibleIsOnTimeline ==
    ASSUME ReviewInv, NEW a \in EligibleNow
    PROVE  CandidateOf(a) \in OnTimeline
<1>1. PICK k \in OnTimeline \intersect standing :
         \E actor \in ActorsOf(k) : \E row \in Newest(positions, <<k, actor>>) :
             a.decision = row.target
  BY EligibleMeans
<1> QED
  BY <1>1, NewestIsOfScope DEF CandidateOf

\* A candidate that not exactly one person has judged contributes nothing...
LEMMA NoContribution ==
    ASSUME ReviewInv, NEW k, Cardinality(ActorsOf(k)) # 1
    PROVE  Contribution(EligibleNow, k) = {}
<1> SUFFICES ASSUME NEW a \in EligibleNow, CandidateOf(a) = k
             PROVE  FALSE
  BY DEF Contribution
<1>1. PICK other \in OnTimeline \intersect standing :
         /\ Cardinality(ActorsOf(other)) = 1
         /\ \E actor \in ActorsOf(other) : \E row \in Newest(positions, <<other, actor>>) :
               a.decision = row.target
  BY EligibleMeans
<1>2. CandidateOf(a) = other
  BY <1>1, NewestIsOfScope DEF CandidateOf
<1> QED
  BY <1>1, <1>2

\* ...what a read of a history finds in it is its newest judgment...
LEMMA HeadIsNewest ==
    ASSUME ReviewInv, NEW k \in OnTimeline, NEW actor \in ActorsOf(k),
           NEW head \in CurrentAnswers(positions, <<k, actor>>)
    PROVE  head \in Newest(positions, <<k, actor>>) /\ head.target \in decisions
<1>1. IsFiniteSet(positions) /\ actor \in Actor /\ RowsOf(positions, <<k, actor>>) # {}
  BY DEF ReviewInv, ReviewTypeInv, ActorsOf
<1>2. <<k, actor>> \in ReviewScope
  BY <1>1, TimelineAssumption DEF OnTimeline, ReviewScope
<1>3. Contiguous(positions, <<k, actor>>) /\ Height(positions, <<k, actor>>) \in Nat
  BY <1>1, <1>2, HeightType DEF ReviewInv, TablesInv
<1>4. head.sequence + 1 = Height(positions, <<k, actor>>)
  BY <1>1, <1>3, CurrentIsLast
<1>5. PICK row \in RowsOf(positions, <<k, actor>>) : TRUE
  BY <1>1
<1>6. row.sequence \in 0 .. Height(positions, <<k, actor>>) - 1
  BY <1>3, <1>5 DEF Contiguous
<1>7. head.sequence # -1
  BY <1>3, <1>4, <1>6
<1>8. head \in Newest(positions, <<k, actor>>)
  BY <1>7 DEF CurrentAnswers, NoRow
<1> QED
  BY <1>8, NewestIsOfScope

\* ...and otherwise the approval of that person's newest judgment, if the
\* chain stands.
LEMMA SoleContribution ==
    ASSUME ReviewInv, NEW k \in OnTimeline, NEW actor, ActorsOf(k) = {actor},
           NEW head \in CurrentAnswers(positions, <<k, actor>>)
    PROVE  /\ head.target \in decisions
           /\ Contribution(EligibleNow, k)
                = IF k \in standing THEN ApprovalsOf(head.target) ELSE {}
<1>1. IsFiniteSet(positions) /\ actor \in Actor /\ RowsOf(positions, <<k, actor>>) # {}
  BY DEF ReviewInv, ReviewTypeInv, ActorsOf
<1>3. head \in Newest(positions, <<k, actor>>)
  BY HeadIsNewest
<1>4. /\ head \in positions /\ head.scope = <<k, actor>>
      /\ head.target \in decisions /\ head.target[1][1] = k
  BY <1>3, NewestIsOfScope
<1>5. ASSUME NEW row \in Newest(positions, <<k, actor>>)
      PROVE  row = head
  <2>1. row \in positions /\ row.scope = <<k, actor>>
    BY NewestIsOfScope
  <2>2. row.sequence <= head.sequence /\ head.sequence <= row.sequence
    BY <1>3, <1>5 DEF Newest
  <2>3. row.sequence \in Nat /\ head.sequence \in Nat
    BY <1>4, <2>1 DEF ReviewInv, ReviewTypeInv, Position
  <2> QED
    BY <1>4, <2>1, <2>2, <2>3 DEF ReviewInv, TablesInv
<1>6. Cardinality(ActorsOf(k)) = 1
  BY <1>1, ActorsCounted
<1>7. ASSUME NEW a
      PROVE  a \in Contribution(EligibleNow, k) <=>
                 k \in standing /\ a \in ApprovalsOf(head.target)
  <2>1. ASSUME a \in Contribution(EligibleNow, k)
        PROVE  k \in standing /\ a \in ApprovalsOf(head.target)
    <3>1. a \in EligibleNow /\ CandidateOf(a) = k
      BY <2>1 DEF Contribution
    <3>2. PICK other \in OnTimeline \intersect standing :
             \E person \in ActorsOf(other) : \E row \in Newest(positions, <<other, person>>) :
               a.decision = row.target
      BY <3>1, EligibleMeans
    <3>3. other = k
      BY <3>1, <3>2, NewestIsOfScope DEF CandidateOf
    <3>4. a \in approvals /\ a.decision = head.target
      BY <1>5, <3>1, <3>2, <3>3, EligibleMeans
    <3> QED
      BY <3>2, <3>3, <3>4 DEF ApprovalsOf
  <2>2. ASSUME k \in standing, a \in ApprovalsOf(head.target)
        PROVE  a \in Contribution(EligibleNow, k)
    <3>1. a \in approvals /\ a.decision = head.target
      BY <2>2 DEF ApprovalsOf
    <3>2. a \in EligibleNow
      BY <1>3, <1>6, <2>2, <3>1, EligibleMeans
    <3> QED
      BY <1>4, <3>1, <3>2 DEF Contribution, CandidateOf
  <2> QED
    BY <2>1, <2>2
<1>8. Contribution(EligibleNow, k) = IF k \in standing THEN ApprovalsOf(head.target) ELSE {}
  <2>1. CASE k \in standing
    BY <1>7, <2>1
  <2>2. CASE k \notin standing
    BY <1>7, <2>2
  <2> QED
    BY <2>1, <2>2
<1> QED
  BY <1>4, <1>8

-----------------------------------------------------------------------------
(* What other processes do to an exporter. *)

\* The review only adds records, and the approval of a decision stays.
LEMMA ReviewAdds ==
    ASSUME ReviewInv, ReviewNext
    PROVE  /\ decisions \subseteq decisions' /\ approvals \subseteq approvals'
           /\ positions \subseteq positions'
           /\ \A d \in decisions : ApprovalsOf(d)' = ApprovalsOf(d)
<1> DEFINE Adds == /\ decisions \subseteq decisions' /\ approvals \subseteq approvals'
                   /\ positions \subseteq positions'
                   /\ \A d \in decisions : ApprovalsOf(d)' = ApprovalsOf(d)
<1>1. CASE UNCHANGED tables
  BY <1>1, UnchangedIsGrown DEF Grown
<1>2. ASSUME NEW c \in Command, Persist(c)
      PROVE  Adds
  <2>1. \A a \in Submitted(c) : a.decision = Decision(c)
    BY DEF Submitted
  <2> QED
    BY <1>2, <2>1 DEF Persist, ApprovalsOf
<1>3. ASSUME NEW c \in Command, SettlePosition(c)
      PROVE  Adds
  BY <1>3 DEF SettlePosition, ApprovalsOf
<1> QED
  BY <1>1, <1>2, <1>3, ZenonT(60) DEF ReviewNext, ChangeStanding, Invoke, RequireCurrentChain,
     PlanPosition, FindExisting, PersistCollides, Resolve, Replan, ReuseResolved,
     ComparePosition, PersistFails, Kill

\* People only join a history, so a conflict stays.
LEMMA ActorsGrow ==
    ASSUME IsFiniteSet(positions'), positions \subseteq positions', NEW k
    PROVE  /\ ActorsOf(k) \subseteq ActorsOf(k)'
           /\ Contested(k) => Contested(k)'
<1>1. ActorsOf(k) \in SUBSET ActorsOf(k)'
  BY DEF ActorsOf, RowsOf
<1>2. IsFiniteSet(positions)
  BY FS_Subset
<1>3. IsFiniteSet(ActorsOf(k)) /\ IsFiniteSet(ActorsOf(k)')
  BY <1>2, ActorsAreFinite DEF ActorsOf
<1>4. /\ Cardinality(ActorsOf(k)) \in Nat /\ Cardinality(ActorsOf(k)') \in Nat
      /\ Cardinality(ActorsOf(k)) <= Cardinality(ActorsOf(k)')
  BY <1>1, <1>3, FS_CardinalityType, FS_Subset
<1> QED
  BY <1>1, <1>4 DEF Contested

LEMMA ExporterKept ==
    ASSUME Inv, IsFiniteSet(positions'), NEW e \in Exporter,
           decisions \subseteq decisions', approvals \subseteq approvals',
           positions \subseteq positions',
           \A d \in decisions : ApprovalsOf(d)' = ApprovalsOf(d),
           exporter'[e] = exporter[e],
           witnessed'[e] = IF exporter[e].pc \in Observing THEN witnessed[e] \union {Scope'}
                           ELSE witnessed[e]
    PROVE  ExporterInv(e)'
<1>1. ExporterInv(e)
  BY DEF Inv
<1>2. \A k : (Contested(k) => Contested(k)') /\ ActorsOf(k) \subseteq ActorsOf(k)'
  BY ActorsGrow
<1>3. Visited(e)' = Visited(e) /\ Ahead(e)' = Ahead(e)
  BY DEF Visited, Ahead
<1>4. ASSUME NEW scope, witnessed'[e] = {scope}
      PROVE  Gathered(e, scope)'
  <2>1. witnessed[e] = {scope}
    BY <1>1, <1>4 DEF ExporterInv
  <2>2. Gathered(e, scope)
    BY <1>1, <2>1 DEF ExporterInv
  <2>3. exporter[e].pc = "anchor" =>
           ApprovalsOf(exporter[e].decision)' = ApprovalsOf(exporter[e].decision)
    BY <1>1 DEF ExporterInv
  <2>4. ASSUME exporter[e].pc = "anchor", ~scope.conflict
        PROVE  Contribution(scope.eligible, Timeline[exporter[e].at])
                 = IF Timeline[exporter[e].at] \in scope.standing
                   THEN ApprovalsOf(exporter[e].decision)' ELSE {}
    <3>1. Contribution(scope.eligible, Timeline[exporter[e].at])
            = IF Timeline[exporter[e].at] \in scope.standing
              THEN ApprovalsOf(exporter[e].decision) ELSE {}
      BY <2>2, <2>4 DEF Gathered
    <3> QED
      BY <2>3, <2>4, <3>1
  <2>5. ASSUME exporter[e].pc \in Observing, scope.conflict, ~exporter[e].conflict
        PROVE  \E n \in Ahead(e) : Contested(Timeline[n])'
    <3>1. PICK n \in Ahead(e) : Contested(Timeline[n])
      BY <2>2, <2>5 DEF Gathered
    <3>2. \A k : Contested(k) => Contested(k)'
      BY <1>2
    <3> QED
      BY <3>1, <3>2
  <2>6. exporter[e].pc \in Observing /\ ~scope.conflict =>
           exporter[e].members = PartOf(scope.eligible, Visited(e))
    BY <2>2 DEF Gathered
  <2>7. exporter[e].pc \in {"lookup", "persist", "returned"} =>
           /\ exporter[e].conflict = scope.conflict
           /\ ~exporter[e].conflict => exporter[e].members = scope.eligible
    BY <2>2 DEF Gathered
  <2>8. ApprovalsOf(exporter[e].decision)' = {a \in approvals' : a.decision = exporter'[e].decision}
    BY DEF ApprovalsOf
  <2> QED
    BY <1>3, <2>4, <2>5, <2>6, <2>7, <2>8 DEF Gathered, Observing
<1>5. \A scope \in witnessed'[e] : witnessed'[e] = {scope} => Gathered(e, scope)'
  BY <1>4
<1>6. exporter[e].pc \in Observing => Scope' \in witnessed'[e]
  OBVIOUS
<1> QED
  BY <1>1, <1>2, <1>5, <1>6 DEF ExporterInv, Observing

LEMMA ReviewStutters ==
    ASSUME ReviewInv, UNCHANGED vars
    PROVE  ReviewInv'
<1>1. UNCHANGED <<decisions, approvals, positions, command>> /\ UNCHANGED tables
  BY DEF vars, tables
<1>2. ReviewTypeInv' /\ TablesInv' /\ Grown
  BY <1>1, UnchangedTables, UnchangedIsGrown DEF ReviewInv, ReviewTypeInv
<1>3. \A c \in Command : CallInv(c)'
  BY <1>1, <1>2, CallKept DEF ReviewInv
<1> QED
  BY <1>2, <1>3 DEF ReviewInv

LEMMA ScopeStays ==
    ASSUME UNCHANGED vars
    PROVE  /\ Scope' = Scope
           /\ \A k : ActorsOf(k)' = ActorsOf(k) /\ (Contested(k)' <=> Contested(k))
           /\ \A d : ApprovalsOf(d)' = ApprovalsOf(d)
<1>1. UNCHANGED <<decisions, approvals, positions, standing>>
  BY DEF vars, tables, chains
<1>2. EligibleNow' = EligibleNow
  BY <1>1 DEF EligibleNow, OperativeDecisions, ApprovalsOf, ActorsOf
<1> QED
  BY <1>1, <1>2 DEF Scope, ActorsOf, ApprovalsOf, Contested

\* A step of one exporter leaves the others and the review alone.
LEMMA ExportStep ==
    ASSUME Inv, NEW e \in Exporter, UNCHANGED vars,
           exporter' \in [Exporter -> ExporterState],
           \A d \in Exporter \ {e} : exporter'[d] = exporter[d],
           \A d \in Exporter \ {e} :
              \/ witnessed'[d] = witnessed[d]
              \/ witnessed'[d] = IF exporter[d].pc \in Observing THEN witnessed[d] \union {Scope'}
                                 ELSE witnessed[d],
           \A members \in assemblies' : members # {} /\ members \subseteq approvals,
           ExporterInv(e)'
    PROVE  Inv'
<1>1. ReviewInv' /\ Scope' = Scope /\ approvals' = approvals
  BY ReviewStutters, ScopeStays DEF Inv, vars, tables
<1>2. /\ IsFiniteSet(positions') /\ decisions \subseteq decisions'
      /\ approvals \subseteq approvals' /\ positions \subseteq positions'
      /\ \A d \in decisions : ApprovalsOf(d)' = ApprovalsOf(d)
  BY <1>1, ScopeStays DEF ReviewInv, ReviewTypeInv, vars, tables
<1>3. ASSUME NEW d \in Exporter \ {e}
      PROVE  ExporterInv(d)'
  <2>1. exporter[d].pc \in Observing => Scope \in witnessed[d]
    BY DEF Inv, ExporterInv
  <2>2. witnessed'[d] = IF exporter[d].pc \in Observing THEN witnessed[d] \union {Scope'}
                       ELSE witnessed[d]
    BY <1>1, <2>1
  <2> QED
    BY <1>2, <2>2, ExporterKept
<1> QED
  BY <1>1, <1>3 DEF Inv

-----------------------------------------------------------------------------
(* The steps of admit_assembly. *)

LEMMA ProceedEffect ==
    ASSUME exporter \in [Exporter -> ExporterState], NEW e \in Exporter,
           NEW members \in SUBSET Approval, NEW conflict \in BOOLEAN,
           Proceed(e, members, conflict)
    PROVE  /\ exporter' \in [Exporter -> ExporterState]
           /\ \A d \in Exporter \ {e} : exporter'[d] = exporter[d]
           /\ exporter'[e].members = members /\ exporter'[e].conflict = conflict
           /\ exporter'[e].at = exporter[e].at + 1
           /\ exporter[e].at < Len(Timeline) =>
                 exporter'[e].pc = "actors" /\ exporter'[e].outcome = None
           /\ exporter[e].at = Len(Timeline) =>
                 IF conflict \/ members = {}
                 THEN exporter'[e].pc = "returned" /\ exporter'[e].outcome = "undecided"
                 ELSE exporter'[e].pc = "lookup" /\ exporter'[e].outcome = None
<1> DEFINE at == exporter[e].at
<1>1. PICK pc \in {"actors", "returned", "lookup"} :
         pc = IF at < Len(Timeline) THEN "actors"
              ELSE IF conflict \/ members = {} THEN "returned" ELSE "lookup"
  OBVIOUS
<1>2. PICK outcome \in {"undecided", None} :
         outcome = IF at = Len(Timeline) /\ (conflict \/ members = {})
                   THEN "undecided" ELSE None
  OBVIOUS
<1>3. exporter[e] \in ExporterState
  OBVIOUS
<1>4. exporter'[e] = [pc |-> pc, at |-> at + 1, actor |-> None, decision |-> None,
                      members |-> members, conflict |-> conflict, outcome |-> outcome]
  BY <1>1, <1>2, <1>3 DEF Proceed, ExporterState
<1>5. exporter'[e] \in ExporterState
  BY <1>1, <1>2, <1>3, <1>4 DEF ExporterState, ExportResults
<1>6. /\ exporter' \in [Exporter -> ExporterState]
      /\ \A d \in Exporter \ {e} : exporter'[d] = exporter[d]
  <2>1. exporter' = [exporter EXCEPT ![e].members = members, ![e].conflict = conflict,
                       ![e].actor = None, ![e].decision = None, ![e].at = at + 1,
                       ![e].pc = pc, ![e].outcome = outcome]
    BY <1>1, <1>2 DEF Proceed
  <2> QED
    BY <1>5, <2>1
<1>7. Len(Timeline) \in Nat /\ at \in Nat
  BY <1>3, TimelineAssumption DEF ExporterState
<1> QED
  BY <1>1, <1>2, <1>4, <1>6, <1>7

\* With a candidate done, the set gathered is right for one candidate more;
\* and with all of them done, it is the whole eligible scope.
LEMMA ProceedKeeps ==
    ASSUME Inv, NEW e \in Exporter, exporter[e].pc \in Observing,
           NEW members \in SUBSET approvals, NEW conflict \in BOOLEAN,
           Proceed(e, members, conflict), UNCHANGED <<vars, assemblies, witnessed>>,
           conflict => \E k \in OnTimeline : Contested(k),
           witnessed[e] = {Scope} =>
              /\ Scope.conflict /\ ~conflict =>
                    \E n \in exporter[e].at + 1 .. Len(Timeline) : Contested(Timeline[n])
              /\ ~Scope.conflict =>
                    members = PartOf(Scope.eligible, Visited(e))
                                \union Contribution(Scope.eligible, Timeline[exporter[e].at])
    PROVE  Inv'
<1> DEFINE at == exporter[e].at
<1>1. /\ exporter \in [Exporter -> ExporterState] /\ ReviewInv /\ approvals \subseteq Approval
      /\ \A m \in assemblies : m # {} /\ m \subseteq approvals
      /\ ExporterInv(e)
  BY DEF Inv, ReviewInv, ReviewTypeInv
<1>2. members \in SUBSET Approval
  BY <1>1
<1>3. /\ exporter' \in [Exporter -> ExporterState]
      /\ \A d \in Exporter \ {e} : exporter'[d] = exporter[d]
      /\ exporter'[e].members = members /\ exporter'[e].conflict = conflict
      /\ exporter'[e].at = at + 1
      /\ at < Len(Timeline) =>
            exporter'[e].pc = "actors" /\ exporter'[e].outcome = None
      /\ at = Len(Timeline) =>
            IF conflict \/ members = {}
            THEN exporter'[e].pc = "returned" /\ exporter'[e].outcome = "undecided"
            ELSE exporter'[e].pc = "lookup" /\ exporter'[e].outcome = None
  BY <1>1, <1>2, ProceedEffect
<1>4. /\ at \in 1 .. Len(Timeline) /\ Len(Timeline) \in Nat
      /\ Scope \in witnessed[e]
  BY <1>1, TimelineAssumption DEF ExporterInv
<1>5. Scope' = Scope /\ (\A k : Contested(k)' <=> Contested(k))
      /\ approvals' = approvals /\ witnessed' = witnessed
  BY ScopeStays DEF vars, tables
<1>6. Visited(e)' = Visited(e) \union {Timeline[at]}
  <2>1. Visited(e)' = {Timeline[n] : n \in 1 .. at}
    BY <1>3, <1>4 DEF Visited
  <2>2. 1 .. at = (1 .. at - 1) \union {at}
    BY <1>4
  <2>3. Visited(e) = {Timeline[n] : n \in 1 .. at - 1}
    BY DEF Visited
  <2> HIDE DEF at
  <2> QED
    BY <2>1, <2>2, <2>3
<1>7. \A eligible : PartOf(eligible, Visited(e)) \union Contribution(eligible, Timeline[at])
                      = PartOf(eligible, Visited(e)')
  BY <1>6 DEF PartOf, Contribution
<1>8. Scope.conflict <=> \E k \in OnTimeline : Contested(k)
  BY DEF Scope, Contested
<1>9. Scope.conflict \in BOOLEAN
  BY DEF Scope
<1> HIDE DEF at
<1>10. CASE at < Len(Timeline)
  <2>1. /\ exporter'[e].pc = "actors" /\ exporter'[e].outcome = None
        /\ exporter'[e].at \in 1 .. Len(Timeline)
        /\ Ahead(e)' = at + 1 .. Len(Timeline)
    BY <1>3, <1>4, <1>10 DEF Ahead
  <2>2. ASSUME NEW scope \in witnessed[e], witnessed[e] = {scope}
        PROVE  Gathered(e, scope)'
    <3>1. scope = Scope
      BY <1>4, <2>2
    <3>2. scope.conflict /\ ~conflict => \E n \in Ahead(e)' : Contested(Timeline[n])'
      BY <1>5, <2>1, <2>2, <3>1 DEF at
    <3>3. ~scope.conflict => members = PartOf(scope.eligible, Visited(e)')
      BY <1>7, <2>2, <3>1 DEF at
    <3> QED
      BY <1>3, <2>1, <3>2, <3>3 DEF Gathered, PartOf, CandidateOf
  <2>3. ExporterInv(e)'
    BY <1>3, <1>4, <1>5, <2>1, <2>2, ExportNoneAssumption
       DEF ExporterInv, Observing, Exported, ExportResults
  <2> QED
    BY <1>1, <1>3, <1>5, <2>3, ExportStep
<1>11. CASE at = Len(Timeline)
  <2>1. ASSUME NEW scope \in witnessed[e], witnessed[e] = {scope}
        PROVE  conflict = scope.conflict /\ (~conflict => members = scope.eligible)
    <3>1. scope = Scope
      BY <1>4, <2>1
    <3>2. at + 1 .. Len(Timeline) = {}
      BY <1>4, <1>11
    <3>3. conflict = scope.conflict
      BY <1>8, <1>9, <2>1, <3>1, <3>2 DEF at
    <3>4. Visited(e)' = OnTimeline
      <4>1. DOMAIN Timeline = 1 .. at
        BY <1>11, TimelineAssumption
      <4>2. Visited(e)' = {Timeline[n] : n \in 1 .. at}
        BY <1>3, <1>4 DEF Visited
      <4> QED
        BY <4>1, <4>2 DEF OnTimeline
    <3>5. PartOf(EligibleNow, OnTimeline) = EligibleNow
      BY <1>1, EligibleIsOnTimeline DEF PartOf
    <3>6. Scope.eligible = EligibleNow
      BY DEF Scope
    <3>7. ASSUME ~conflict PROVE members = scope.eligible
      BY <1>7, <2>1, <3>1, <3>3, <3>4, <3>5, <3>6, <3>7 DEF at
    <3> QED
      BY <3>3, <3>7
  <2>2. CASE conflict \/ members = {}
    <3>1. exporter'[e].pc = "returned" /\ exporter'[e].outcome = "undecided"
      BY <1>3, <1>11, <2>2
    <3>2. \A scope \in witnessed[e] : witnessed[e] = {scope} => Gathered(e, scope)'
      BY <1>3, <2>1, <3>1 DEF Gathered, Observing
    <3>3. ExporterInv(e)'
      BY <1>3, <1>5, <2>2, <3>1, <3>2 DEF ExporterInv, Observing, Exported
    <3> QED
      BY <1>1, <1>3, <1>5, <3>3, ExportStep
  <2>3. CASE ~(conflict \/ members = {})
    <3>1. exporter'[e].pc = "lookup" /\ exporter'[e].outcome = None
      BY <1>3, <1>11, <2>3
    <3>2. \A scope \in witnessed[e] : witnessed[e] = {scope} => Gathered(e, scope)'
      BY <1>3, <2>1, <3>1 DEF Gathered, Observing
    <3>3. ExporterInv(e)'
      BY <1>3, <1>5, <2>3, <3>1, <3>2, ExportNoneAssumption
         DEF ExporterInv, Observing, Exported, ExportResults
    <3> QED
      BY <1>1, <1>3, <1>5, <3>3, ExportStep
  <2> QED
    BY <2>2, <2>3
<1> QED
  BY <1>4, <1>10, <1>11

LEMMA InvokeExportKeeps ==
    ASSUME Inv, NEW e \in Exporter, InvokeExport(e)
    PROVE  Inv'
<1>1. /\ exporter \in [Exporter -> ExporterState] /\ ExporterInv(e) /\ ReviewInv
      /\ \A m \in assemblies : m # {} /\ m \subseteq approvals
      /\ UNCHANGED vars /\ UNCHANGED <<assemblies, approvals>>
  BY DEF Inv, InvokeExport, vars, tables
<1>2. exporter[e] = NotExporting /\ witnessed[e] = {}
  BY <1>1 DEF InvokeExport, ExporterInv
<1>3. exporter'[e] = [NotExporting EXCEPT !.pc = "actors", !.at = 1]
  BY <1>1, <1>2 DEF InvokeExport
<1>4. exporter'[e] = [pc |-> "actors", at |-> 1, actor |-> None, decision |-> None,
                      members |-> {}, conflict |-> FALSE, outcome |-> None]
  BY <1>3 DEF NotExporting
<1>5. exporter'[e] \in ExporterState
  BY <1>4 DEF ExporterState
<1>6. /\ exporter' \in [Exporter -> ExporterState]
      /\ \A d \in Exporter \ {e} : exporter'[d] = exporter[d]
  BY <1>1, <1>5 DEF InvokeExport
<1>7. \A d \in Exporter : witnessed'[d] =
         IF exporter[d].pc \in Observing \/ exporter'[d].pc \in Observing
         THEN witnessed[d] \union {Scope'} ELSE witnessed[d]
  BY DEF InvokeExport, Observe
<1>8. \A d \in Exporter \ {e} : witnessed'[d] =
         IF exporter[d].pc \in Observing THEN witnessed[d] \union {Scope'} ELSE witnessed[d]
  BY <1>6, <1>7
<1>9. PICK moment : moment = Scope'
  OBVIOUS
<1>10. witnessed'[e] = {moment}
  <2>1. exporter'[e].pc \in Observing
    BY <1>4 DEF Observing
  <2> QED
    BY <1>2, <1>7, <1>9, <2>1
<1>11. 1 \in 1 .. Len(Timeline) /\ DOMAIN Timeline = 1 .. Len(Timeline)
  BY TimelineAssumption
<1>12. Visited(e)' = {} /\ Ahead(e)' = DOMAIN Timeline
  BY <1>4, <1>11 DEF Visited, Ahead
<1>13. Gathered(e, moment)'
  <2>1. moment.conflict <=> \E n \in DOMAIN Timeline : Contested(Timeline[n])'
    BY <1>9 DEF Scope, Contested, OnTimeline
  <2>2. PartOf(moment.eligible, {}) = {}
    BY DEF PartOf
  <2>3. /\ exporter'[e].pc = "actors" /\ exporter'[e].members = {}
    BY <1>4
  <2> QED
    BY <1>12, <2>1, <2>2, <2>3 DEF Gathered, Observing
<1>14. ExporterInv(e)'
  <2>1. \A scope \in witnessed'[e] : witnessed'[e] = {scope} => Gathered(e, scope)'
    BY <1>10, <1>13
  <2> QED
    BY <1>4, <1>9, <1>10, <1>11, <2>1, ExportNoneAssumption
       DEF ExporterInv, Observing, Exported, ExportResults
<1> QED
  BY <1>1, <1>6, <1>8, <1>14, ExportStep

LEMMA ReadActorsKeeps ==
    ASSUME Inv, NEW e \in Exporter, ReadActors(e)
    PROVE  Inv'
<1> DEFINE k == Timeline[exporter[e].at]
<1>1. /\ exporter \in [Exporter -> ExporterState] /\ ExporterInv(e) /\ ReviewInv
      /\ exporter[e] \in ExporterState
      /\ \A m \in assemblies : m # {} /\ m \subseteq approvals
      /\ UNCHANGED <<vars, assemblies, witnessed>>
      /\ exporter[e].pc = "actors" /\ exporter[e].pc \in Observing
      /\ IsFiniteSet(positions)
  BY DEF Inv, ReadActors, Observing, ReviewInv, ReviewTypeInv
<1>2. /\ exporter[e].at \in 1 .. Len(Timeline) /\ Len(Timeline) \in Nat
      /\ Scope \in witnessed[e] /\ exporter[e].members \subseteq approvals
      /\ exporter[e].conflict \in BOOLEAN
      /\ exporter[e].conflict => \E other \in OnTimeline : Contested(other)
  BY <1>1, TimelineAssumption DEF ExporterInv, ExporterState
<1>3. k \in OnTimeline
  BY <1>2, TimelineAssumption DEF OnTimeline
<1>4. witnessed[e] = {Scope} =>
         /\ Scope.conflict /\ ~exporter[e].conflict =>
               \E n \in exporter[e].at .. Len(Timeline) : Contested(Timeline[n])
         /\ ~Scope.conflict =>
               exporter[e].members = PartOf(Scope.eligible, Visited(e))
  <2>1. witnessed[e] = {Scope} => Gathered(e, Scope)
    BY <1>1 DEF ExporterInv
  <2> QED
    BY <1>1, <2>1 DEF Gathered, Ahead
<1>5. CASE /\ Cardinality(ActorsOf(k)) # 1
           /\ Proceed(e, exporter[e].members, exporter[e].conflict \/ Contested(k))
  <2>1. (exporter[e].conflict \/ Contested(k)) \in BOOLEAN
    BY DEF Contested
  <2>2. exporter[e].conflict \/ Contested(k) => \E other \in OnTimeline : Contested(other)
    BY <1>2, <1>3
  <2>3. Contribution(Scope.eligible, k) = {}
    BY <1>1, <1>5, NoContribution DEF Scope
  <2>4. ASSUME witnessed[e] = {Scope}, Scope.conflict, ~(exporter[e].conflict \/ Contested(k))
        PROVE  \E n \in exporter[e].at + 1 .. Len(Timeline) : Contested(Timeline[n])
    <3>1. PICK n \in exporter[e].at .. Len(Timeline) : Contested(Timeline[n])
      BY <1>4, <2>4
    <3>2. n # exporter[e].at
      BY <2>4, <3>1
    <3>3. n \in exporter[e].at + 1 .. Len(Timeline)
      BY <1>2, <3>1, <3>2
    <3> QED
      BY <3>1, <3>3
  <2>5. witnessed[e] = {Scope} /\ ~Scope.conflict =>
           exporter[e].members = PartOf(Scope.eligible, Visited(e))
                                    \union Contribution(Scope.eligible, k)
    BY <1>4, <2>3
  <2> QED
    BY <1>1, <1>2, <1>5, <2>1, <2>2, <2>4, <2>5, ProceedKeeps
<1>6. ASSUME NEW actor \in ActorsOf(k), ActorsOf(k) = {actor},
             exporter' = [exporter EXCEPT ![e].pc = "head", ![e].actor = actor]
      PROVE  Inv'
  <2>1. exporter'[e] = [exporter[e] EXCEPT !.pc = "head", !.actor = actor]
    BY <1>1, <1>6 DEF ExporterState
  <2>2. /\ exporter'[e] \in ExporterState
        /\ exporter'[e].pc = "head" /\ exporter'[e].actor = actor
        /\ exporter'[e].at = exporter[e].at /\ exporter'[e].members = exporter[e].members
        /\ exporter'[e].conflict = exporter[e].conflict
        /\ exporter'[e].outcome = exporter[e].outcome
    BY <1>1, <2>1 DEF ExporterState, ActorsOf
  <2>3. /\ exporter' \in [Exporter -> ExporterState]
        /\ \A d \in Exporter \ {e} : exporter'[d] = exporter[d]
    BY <1>1, <1>6, <2>2
  <2>4. /\ Scope' = Scope /\ witnessed' = witnessed /\ approvals' = approvals
        /\ \A other : ActorsOf(other)' = ActorsOf(other) /\ (Contested(other)' <=> Contested(other))
    BY <1>1, ScopeStays DEF vars, tables
  <2>5. Visited(e)' = Visited(e) /\ Ahead(e)' = exporter[e].at + 1 .. Len(Timeline)
    BY <2>2 DEF Visited, Ahead
  <2>6. ~Contested(k)
    <3>1. Cardinality(ActorsOf(k)) = 1
      BY <1>1, <1>6, ActorsCounted
    <3> QED
      BY <3>1 DEF Contested
  <2>7. witnessed[e] = {Scope} /\ Scope.conflict /\ ~exporter[e].conflict =>
           \E n \in exporter[e].at + 1 .. Len(Timeline) : Contested(Timeline[n])
    <3> SUFFICES ASSUME witnessed[e] = {Scope}, Scope.conflict, ~exporter[e].conflict
                 PROVE  \E n \in exporter[e].at + 1 .. Len(Timeline) : Contested(Timeline[n])
      OBVIOUS
    <3>1. PICK n \in exporter[e].at .. Len(Timeline) : Contested(Timeline[n])
      BY <1>4
    <3>2. n # exporter[e].at
      BY <2>6, <3>1
    <3>3. n \in exporter[e].at + 1 .. Len(Timeline)
      BY <1>2, <3>1, <3>2
    <3> QED
      BY <3>1, <3>3
  <2>8. ASSUME NEW scope \in witnessed[e], witnessed[e] = {scope}
        PROVE  Gathered(e, scope)'
    <3>1. scope = Scope
      BY <1>2, <2>8
    <3> QED
      BY <1>4, <2>2, <2>4, <2>5, <2>7, <2>8, <3>1 DEF Gathered, Observing
  <2>9. ExporterInv(e)'
    BY <1>1, <1>2, <2>2, <2>4, <2>8, <1>6 DEF ExporterInv, Observing
  <2> QED
    BY <1>1, <2>3, <2>4, <2>9, ExportStep
<1> QED
  BY <1>5, <1>6 DEF ReadActors, Contested

\* With one person's head read, it decides what the candidate contributes to
\* the scope, if that is the scope of the whole observation.
LEMMA ReadHeadKeeps ==
    ASSUME Inv, NEW e \in Exporter, ReadHead(e)
    PROVE  Inv'
<1> DEFINE k == Timeline[exporter[e].at]
           actor == exporter[e].actor
<1>1. /\ exporter \in [Exporter -> ExporterState] /\ ExporterInv(e) /\ ReviewInv
      /\ exporter[e] \in ExporterState
      /\ \A m \in assemblies : m # {} /\ m \subseteq approvals
      /\ UNCHANGED <<vars, assemblies, witnessed>>
      /\ exporter[e].pc = "head" /\ exporter[e].pc \in Observing
      /\ IsFiniteSet(positions)
  BY DEF Inv, ReadHead, Observing, ReviewInv, ReviewTypeInv
<1>2. /\ exporter[e].at \in 1 .. Len(Timeline) /\ Len(Timeline) \in Nat
      /\ Scope \in witnessed[e] /\ exporter[e].members \subseteq approvals
      /\ exporter[e].conflict \in BOOLEAN
      /\ exporter[e].conflict => \E other \in OnTimeline : Contested(other)
      /\ actor \in ActorsOf(k)
  BY <1>1, TimelineAssumption DEF ExporterInv, ExporterState
<1>3. k \in OnTimeline
  BY <1>2, TimelineAssumption DEF OnTimeline
<1>4. witnessed[e] = {Scope} =>
         /\ Scope.conflict /\ ~exporter[e].conflict =>
               \E n \in exporter[e].at + 1 .. Len(Timeline) : Contested(Timeline[n])
         /\ ~Scope.conflict =>
               exporter[e].members = PartOf(Scope.eligible, Visited(e))
  <2>1. witnessed[e] = {Scope} => Gathered(e, Scope)
    BY <1>1 DEF ExporterInv
  <2> QED
    BY <1>1, <2>1 DEF Gathered, Ahead
<1>5. PICK head \in CurrentAnswers(positions, <<k, actor>>) :
         IF ApprovalsOf(head.target) = {}
         THEN Proceed(e, exporter[e].members, exporter[e].conflict)
         ELSE exporter' = [exporter EXCEPT ![e].pc = "anchor", ![e].decision = head.target]
  BY DEF ReadHead
<1>6. head.target \in decisions /\ head.target \in DecisionRecord
  BY <1>1, <1>2, <1>3, <1>5, HeadIsNewest DEF ReviewInv, ReviewTypeInv
<1>7. ~Scope.conflict =>
         Contribution(Scope.eligible, k)
           = IF k \in Scope.standing THEN ApprovalsOf(head.target) ELSE {}
  <2> SUFFICES ASSUME ~Scope.conflict
               PROVE  Contribution(Scope.eligible, k)
                        = IF k \in Scope.standing THEN ApprovalsOf(head.target) ELSE {}
    OBVIOUS
  <2>1. ~Contested(k)
    BY <1>3 DEF Scope, Contested
  <2>2. ActorsOf(k) = {actor}
    BY <1>1, <1>2, <2>1, ActorsCounted
  <2>3. Contribution(EligibleNow, k) = IF k \in standing THEN ApprovalsOf(head.target) ELSE {}
    BY <1>1, <1>3, <1>5, <2>2, SoleContribution
  <2>4. Scope.eligible = EligibleNow /\ (k \in Scope.standing <=> k \in standing)
    BY <1>3 DEF Scope
  <2> QED
    BY <2>3, <2>4
<1>8. CASE ApprovalsOf(head.target) = {}
  <2>1. witnessed[e] = {Scope} /\ ~Scope.conflict =>
           exporter[e].members = PartOf(Scope.eligible, Visited(e))
                                    \union Contribution(Scope.eligible, k)
    BY <1>4, <1>7, <1>8
  <2> QED
    BY <1>1, <1>2, <1>4, <1>5, <1>8, <2>1, ProceedKeeps
<1>9. CASE ApprovalsOf(head.target) # {}
  <2>1. exporter' = [exporter EXCEPT ![e].pc = "anchor", ![e].decision = head.target]
    BY <1>5, <1>9
  <2>2. exporter'[e] = [exporter[e] EXCEPT !.pc = "anchor", !.decision = head.target]
    BY <1>1, <2>1 DEF ExporterState
  <2>3. /\ exporter'[e] \in ExporterState
        /\ exporter'[e].pc = "anchor" /\ exporter'[e].decision = head.target
        /\ exporter'[e].actor = actor
        /\ exporter'[e].at = exporter[e].at /\ exporter'[e].members = exporter[e].members
        /\ exporter'[e].conflict = exporter[e].conflict
        /\ exporter'[e].outcome = exporter[e].outcome
    BY <1>1, <1>6, <2>2 DEF ExporterState
  <2>4. /\ exporter' \in [Exporter -> ExporterState]
        /\ \A d \in Exporter \ {e} : exporter'[d] = exporter[d]
    BY <1>1, <2>1, <2>3
  <2>5. /\ Scope' = Scope /\ witnessed' = witnessed
        /\ approvals' = approvals /\ decisions' = decisions
        /\ \A other : ActorsOf(other)' = ActorsOf(other) /\ (Contested(other)' <=> Contested(other))
        /\ ApprovalsOf(head.target)' = ApprovalsOf(head.target)
    BY <1>1, ScopeStays DEF vars, tables
  <2>6. /\ Visited(e)' = Visited(e) /\ Ahead(e)' = exporter[e].at + 1 .. Len(Timeline)
        /\ ApprovalsOf(exporter[e].decision)' = ApprovalsOf(head.target)
    BY <2>3, <2>5 DEF Visited, Ahead, ApprovalsOf
  <2>7. ASSUME NEW scope \in witnessed[e], witnessed[e] = {scope}
        PROVE  Gathered(e, scope)'
    <3>1. scope = Scope
      BY <1>2, <2>7
    <3>2. ~scope.conflict =>
             Contribution(scope.eligible, k)
               = IF k \in scope.standing THEN ApprovalsOf(exporter[e].decision)' ELSE {}
      BY <1>7, <2>6, <3>1
    <3> QED
      BY <1>4, <2>3, <2>5, <2>6, <2>7, <3>1, <3>2 DEF Gathered, Observing
  <2>8. ExporterInv(e)'
    BY <1>1, <1>2, <1>6, <2>3, <2>5, <2>7 DEF ExporterInv, Observing
  <2> QED
    BY <1>1, <2>4, <2>5, <2>8, ExportStep
<1> QED
  BY <1>8, <1>9

LEMMA ReadAnchorKeeps ==
    ASSUME Inv, NEW e \in Exporter, ReadAnchor(e)
    PROVE  Inv'
<1> DEFINE k == Timeline[exporter[e].at]
           added == IF k \in standing THEN ApprovalsOf(exporter[e].decision) ELSE {}
           gathered == exporter[e].members \union added
<1>1. /\ ExporterInv(e) /\ exporter[e] \in ExporterState
      /\ UNCHANGED <<vars, assemblies, witnessed>>
      /\ exporter[e].pc = "anchor" /\ exporter[e].pc \in Observing
  BY DEF Inv, ReadAnchor, Observing
<1>2. /\ exporter[e].at \in 1 .. Len(Timeline) /\ Len(Timeline) \in Nat
      /\ exporter[e].members \subseteq approvals
      /\ exporter[e].conflict \in BOOLEAN
      /\ exporter[e].conflict => \E other \in OnTimeline : Contested(other)
  BY <1>1, TimelineAssumption DEF ExporterInv, ExporterState
<1>3. k \in OnTimeline
  BY <1>2, TimelineAssumption DEF OnTimeline
<1>4. k \in Scope.standing <=> k \in standing
  BY <1>3 DEF Scope
<1>5. gathered \in SUBSET approvals
  BY <1>2 DEF ApprovalsOf
<1>6. Proceed(e, gathered, exporter[e].conflict)
  <2>1. gathered = IF k \in standing
                   THEN exporter[e].members \union ApprovalsOf(exporter[e].decision)
                   ELSE exporter[e].members
    OBVIOUS
  <2> QED
    BY <2>1 DEF ReadAnchor
<1>7. witnessed[e] = {Scope} =>
         /\ Scope.conflict /\ ~exporter[e].conflict =>
               \E n \in exporter[e].at + 1 .. Len(Timeline) : Contested(Timeline[n])
         /\ ~Scope.conflict =>
               gathered = PartOf(Scope.eligible, Visited(e)) \union Contribution(Scope.eligible, k)
  <2>1. witnessed[e] = {Scope} => Gathered(e, Scope)
    BY <1>1 DEF ExporterInv
  <2> QED
    BY <1>1, <1>4, <2>1 DEF Gathered, Ahead
<1> HIDE DEF gathered
<1> QED
  BY <1>1, <1>2, <1>5, <1>6, <1>7, ProceedKeeps

\* What an exporter has gathered no longer changes once all candidates are
\* done: only its place and its answer do.
LEMMA FinishKeeps ==
    ASSUME Inv, NEW e \in Exporter, exporter[e].pc \in {"lookup", "persist"},
           NEW pc \in {"persist", "returned"}, NEW outcome \in ExportResults \union {None},
           pc = "persist" => outcome = None, outcome # "undecided",
           exporter' = [exporter EXCEPT ![e].pc = pc, ![e].outcome = outcome],
           \A members \in assemblies' : members # {} /\ members \subseteq approvals,
           UNCHANGED <<vars, witnessed>>
    PROVE  Inv'
<1>1. /\ exporter \in [Exporter -> ExporterState] /\ ExporterInv(e)
      /\ exporter[e] \in ExporterState
  BY DEF Inv
<1>2. exporter'[e] = [exporter[e] EXCEPT !.pc = pc, !.outcome = outcome]
  BY <1>1 DEF ExporterState
<1>3. /\ exporter'[e] \in ExporterState
      /\ exporter'[e].pc = pc /\ exporter'[e].outcome = outcome
      /\ exporter'[e].members = exporter[e].members
      /\ exporter'[e].conflict = exporter[e].conflict
  BY <1>1, <1>2 DEF ExporterState
<1>4. /\ exporter' \in [Exporter -> ExporterState]
      /\ \A d \in Exporter \ {e} : exporter'[d] = exporter[d]
  BY <1>1, <1>3
<1>5. witnessed' = witnessed /\ approvals' = approvals
  BY DEF vars, tables
<1>6. ASSUME NEW scope \in witnessed[e], witnessed[e] = {scope}
      PROVE  Gathered(e, scope)'
  <2>1. /\ exporter[e].conflict = scope.conflict
        /\ ~exporter[e].conflict => exporter[e].members = scope.eligible
    BY <1>1, <1>6 DEF ExporterInv, Gathered
  <2> QED
    BY <1>3, <2>1 DEF Gathered, Observing
<1>7. ~exporter[e].conflict /\ exporter[e].members # {} /\ exporter[e].members \subseteq approvals
  BY <1>1 DEF ExporterInv
<1>8. ExporterInv(e)'
  BY <1>3, <1>5, <1>6, <1>7 DEF ExporterInv, Observing
<1> QED
  BY <1>4, <1>5, <1>8, ExportStep

LEMMA FinishSteps ==
    ASSUME Inv, NEW e \in Exporter,
           LookupAssembly(e) \/ PersistAssembly(e) \/ PersistAssemblyFails(e)
    PROVE  Inv'
<1>1. /\ exporter \in [Exporter -> ExporterState] /\ exporter[e] \in ExporterState
      /\ \A m \in assemblies : m # {} /\ m \subseteq approvals
  BY DEF Inv
<1>2. /\ exporter[e].pc \in {"lookup", "persist"}
      /\ exporter[e].outcome = None
      /\ exporter[e].members # {} /\ exporter[e].members \subseteq approvals
      /\ UNCHANGED <<vars, witnessed>>
  BY DEF Inv, ExporterInv, LookupAssembly, PersistAssembly, PersistAssemblyFails
<1>3. \A members \in assemblies' : members # {} /\ members \subseteq approvals
  BY <1>1, <1>2 DEF LookupAssembly, PersistAssembly, PersistAssemblyFails
<1>4. CASE exporter' = [exporter EXCEPT ![e].pc = "persist"]
  <2>1. exporter' = [exporter EXCEPT ![e].pc = "persist", ![e].outcome = None]
    BY <1>1, <1>2, <1>4 DEF ExporterState
  <2>2. None # "undecided"
    BY ExportNoneAssumption DEF ExportResults
  <2> QED
    BY <1>2, <1>3, <2>1, <2>2, FinishKeeps
<1>5. ASSUME NEW result \in {"reused", "collision", "admitted", "error"}, ReturnExport(e, result)
      PROVE  Inv'
  <2>1. exporter' = [exporter EXCEPT ![e].pc = "returned", ![e].outcome = result]
    BY <1>5 DEF ReturnExport
  <2>2. result \in ExportResults /\ result # "undecided"
    BY DEF ExportResults
  <2> QED
    BY <1>2, <1>3, <2>1, <2>2, FinishKeeps
<1> QED
  BY <1>4, <1>5 DEF LookupAssembly, PersistAssembly, PersistAssemblyFails

LEMMA KillExportKeeps ==
    ASSUME Inv, NEW e \in Exporter, KillExport(e)
    PROVE  Inv'
<1>1. /\ exporter \in [Exporter -> ExporterState]
      /\ \A m \in assemblies : m # {} /\ m \subseteq approvals
      /\ UNCHANGED <<vars, assemblies, witnessed>> /\ approvals' = approvals
  BY DEF Inv, KillExport, vars, tables
<1>2. exporter'[e] = [NotExporting EXCEPT !.pc = "killed"]
  BY <1>1 DEF KillExport
<1>3. exporter'[e] = [pc |-> "killed", at |-> 0, actor |-> None, decision |-> None,
                      members |-> {}, conflict |-> FALSE, outcome |-> None]
  BY <1>2 DEF NotExporting
<1>4. exporter'[e] \in ExporterState
  BY <1>3 DEF ExporterState
<1>5. /\ exporter' \in [Exporter -> ExporterState]
      /\ \A d \in Exporter \ {e} : exporter'[d] = exporter[d]
  BY <1>1, <1>4 DEF KillExport
<1>6. \A scope : Gathered(e, scope)'
  BY <1>3 DEF Gathered, Observing
<1>7. ExporterInv(e)'
  BY <1>3, <1>6, ExportNoneAssumption DEF ExporterInv, Observing, Exported, ExportResults
<1> QED
  BY <1>1, <1>5, <1>7, ExportStep

\* Judgments and movements of chains add the scope they lead to to what every
\* observing exporter has witnessed.
LEMMA ReviewKeeps ==
    ASSUME Inv, Review
    PROVE  Inv'
<1>1. /\ ReviewInv /\ ReviewNext /\ UNCHANGED <<assemblies, exporter>>
      /\ exporter \in [Exporter -> ExporterState]
  BY DEF Inv, Review
<1>2. ReviewInv'
  BY <1>1, ReviewNextKeeps
<1>3. /\ decisions \subseteq decisions' /\ approvals \subseteq approvals'
      /\ positions \subseteq positions' /\ IsFiniteSet(positions')
      /\ \A d \in decisions : ApprovalsOf(d)' = ApprovalsOf(d)
  BY <1>1, <1>2, ReviewAdds DEF ReviewInv, ReviewTypeInv
<1>4. ASSUME NEW e \in Exporter
      PROVE  ExporterInv(e)'
  <2>1. witnessed'[e] = IF exporter[e].pc \in Observing THEN witnessed[e] \union {Scope'}
                       ELSE witnessed[e]
    BY <1>1 DEF Review, Observe
  <2> QED
    BY <1>1, <1>3, <2>1, ExporterKept
<1>5. \A members \in assemblies' : members # {} /\ members \subseteq approvals'
  BY <1>1, <1>3 DEF Inv
<1> QED
  BY <1>1, <1>2, <1>4, <1>5 DEF Inv

-----------------------------------------------------------------------------
(* The invariant and what follows from it. *)

LEMMA ExportInitEstablishes == ExportInit => Inv
<1> SUFFICES ASSUME ExportInit PROVE Inv
  OBVIOUS
<1>1. ReviewInv
  BY InitEstablishes DEF ExportInit
<1>2. NotExporting \in ExporterState
  BY DEF NotExporting, ExporterState
<1>3. ASSUME NEW e \in Exporter
      PROVE  ExporterInv(e)
  <2>1. exporter[e] = NotExporting /\ witnessed[e] = {}
    BY DEF ExportInit
  <2>2. /\ exporter[e].pc = "idle" /\ exporter[e].members = {} /\ exporter[e].outcome = None
    BY <2>1 DEF NotExporting
  <2> QED
    BY <2>1, <2>2, ExportNoneAssumption DEF ExporterInv, Observing, Exported, ExportResults
<1> QED
  BY <1>1, <1>2, <1>3 DEF ExportInit, Inv

LEMMA ExportNextKeeps == Inv /\ ExportNext => Inv'
<1> SUFFICES ASSUME Inv, ExportNext PROVE Inv'
  OBVIOUS
<1>1. CASE Review
  BY <1>1, ReviewKeeps
<1>2. ASSUME NEW e \in Exporter,
             \/ InvokeExport(e) \/ ReadActors(e) \/ ReadHead(e) \/ ReadAnchor(e)
             \/ LookupAssembly(e) \/ PersistAssembly(e) \/ PersistAssemblyFails(e)
             \/ KillExport(e)
      PROVE  Inv'
  BY <1>2, InvokeExportKeeps, ReadActorsKeeps, ReadHeadKeeps, ReadAnchorKeeps, FinishSteps,
     KillExportKeeps
<1> QED
  BY <1>1, <1>2 DEF ExportNext

LEMMA ExportStutterKeeps == Inv /\ UNCHANGED exportVars => Inv'
<1> SUFFICES ASSUME Inv, UNCHANGED exportVars PROVE Inv'
  OBVIOUS
<1>1. UNCHANGED vars /\ UNCHANGED <<assemblies, exporter, witnessed, approvals>>
  BY DEF exportVars, vars, tables
<1>2. ReviewInv'
  BY <1>1, ReviewStutters DEF Inv
<1>3. /\ IsFiniteSet(positions') /\ decisions \subseteq decisions'
      /\ approvals \subseteq approvals' /\ positions \subseteq positions'
      /\ \A d \in decisions : ApprovalsOf(d)' = ApprovalsOf(d)
      /\ Scope' = Scope
  BY <1>1, <1>2, ScopeStays DEF ReviewInv, ReviewTypeInv, vars, tables
<1>4. ASSUME NEW e \in Exporter
      PROVE  ExporterInv(e)'
  <2>1. exporter[e].pc \in Observing => Scope \in witnessed[e]
    BY DEF Inv, ExporterInv
  <2>2. witnessed'[e] = IF exporter[e].pc \in Observing THEN witnessed[e] \union {Scope'}
                       ELSE witnessed[e]
    BY <1>1, <1>3, <2>1
  <2> QED
    BY <1>1, <1>3, <2>2, ExporterKept
<1> QED
  BY <1>1, <1>2, <1>4 DEF Inv

\* The invariant of review and export holds, with any number of candidates,
\* people, admission commands and exporters, and chains that move at any time.
THEOREM InvHolds == Spec => []Inv
BY ExportInitEstablishes, ExportNextKeeps, ExportStutterKeeps, PTL DEF Spec

\* Whatever the interleaving of the statements of review commands, and
\* wherever they or exporters are killed or fail, the validator finds every
\* decision with its one approval, every position recorded and chained, and
\* every assembly made of recorded approvals.
THEOREM RepositoryIsValidHolds == Spec => []RepositoryIsValid
<1>1. Inv => RepositoryIsValid
  BY ReviewRecordsValid DEF Inv, RepositoryIsValid
<1> QED
  BY <1>1, InvHolds, PTL

\* A person told that a judgment is on record finds exactly the snapshot
\* submitted as its approval (persist_review, _reuse).
THEOREM ApprovalIsWhatWasSubmittedHolds == Spec => []ApprovalIsWhatWasSubmitted
<1>1. Inv => ApprovalIsWhatWasSubmitted
  BY DEF Inv, ReviewInv, CallInv, Approved, Succeeded, ApprovalIsWhatWasSubmitted
<1> QED
  BY <1>1, InvHolds, PTL

\* A judgment reported as recorded or reused was operative at a moment of the
\* call, and a command refused by the history lost to another judgment that
\* was recorded while it ran (plan_authority_position, _settle_position).
THEOREM JudgmentsTakeEffectHolds == Spec => []JudgmentsTakeEffect
<1>1. Inv => JudgmentsTakeEffect
  BY DEF Inv, ReviewInv, CallInv, Operative, Overruled, Succeeded, JudgmentsTakeEffect, RowsOf
<1> QED
  BY <1>1, InvHolds, PTL

\* If neither the scope of the timeline nor the standing of its chains moved
\* during the observation, the assembly is the eligible edits of that scope; and
\* without a conflict the command stopped undecided only for an empty scope.
THEOREM StableScopeIsExportedHolds == Spec => []StableScopeIsExported
<1>1. Inv => StableScopeIsExported
  <2> SUFFICES ASSUME Inv, NEW e \in Exporter, NEW scope \in witnessed[e],
                      witnessed[e] = {scope}
               PROVE  /\ exporter[e].outcome \in Exported =>
                            exporter[e].members = scope.eligible
                      /\ exporter[e].outcome = "undecided" /\ ~scope.conflict =>
                            scope.eligible = {}
    BY DEF StableScopeIsExported
  <2>1. ExporterInv(e) /\ Gathered(e, scope)
    BY DEF Inv, ExporterInv
  <2>2. CASE exporter[e].outcome \in Exported \union {"undecided"}
    <3>1. exporter[e].pc = "returned"
      BY <2>1, <2>2, ExportNoneAssumption DEF ExporterInv, Exported, ExportResults
    <3>2. /\ exporter[e].conflict = scope.conflict
          /\ ~exporter[e].conflict => exporter[e].members = scope.eligible
      BY <2>1, <3>1 DEF Gathered
    <3> QED
      BY <2>1, <3>2 DEF ExporterInv
  <2> QED
    BY <2>2
<1> QED
  BY <1>1, InvHolds, PTL
=============================================================================

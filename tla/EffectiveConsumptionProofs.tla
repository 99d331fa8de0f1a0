---------------------- MODULE EffectiveConsumptionProofs ----------------------
(***************************************************************************)
(* Proofs about EffectiveConsumption, for any intakes, revisions, members, *)
(* selection commands and consumers.  The inductive invariant has three    *)
(* parts.  The first is about the authorities alone: the selection table   *)
(* and what each selection command has seen.  The second is about the      *)
(* bindings and what each consumer has read, in terms that histories keep  *)
(* by growing.  The third relates a consumer to what it witnessed: while   *)
(* one answer was effective during the whole call, what the consumer has   *)
(* read at different moments is what it would read now.                    *)
(***************************************************************************)
EXTENDS EffectiveConsumption, AuthorityHistoryProofs

Choice == Revision \union {RawFallback}
Decidable == {"accept", "reject"}

SelectionRow ==
    [scope : Intake, target : Choice, sequence : Nat,
     previous : {NoIdentity} \union (Intake \X Choice \X Nat), note : {None}]

MaybeRow == SelectionRow \union {NoRow}

\* What a command remembers of the lengths of the histories it depends on.
Since == {<<>>} \union [raw : Nat, decision : Seq(Nat)]

CommandState ==
    [pc : Selection!Running \union {"idle", "returned", "killed"},
     intake : Intake \union {None}, target : Choice \union {None},
     unread : Seq(Candidate), current : MaybeRow, since : Since,
     outcome : Outcomes \union {None}]

SelectionTypeInv ==
    /\ rawLog \in [Intake -> Seq(Transcript)]
    /\ decisionLog \in [Candidate -> Seq(Decidable)]
    /\ selections \subseteq SelectionRow /\ IsFiniteSet(selections)
    /\ command \in [Command -> CommandState]

-----------------------------------------------------------------------------
(* Reading the members of a revision one after the other. *)

\* unread is what is left of members.
UnreadOf(unread, members) ==
    /\ Len(unread) <= Len(members)
    /\ \A n \in DOMAIN unread : unread[n] = members[Len(members) - Len(unread) + n]

\* The members that are behind a reader.
Passed(unread, members) == 1 .. Len(members) - Len(unread)

LEMMA AllUnread ==
    ASSUME NEW members \in Seq(Candidate)
    PROVE  UnreadOf(members, members) /\ Passed(members, members) = {}
BY DEF UnreadOf, Passed

LEMMA PassedInside ==
    ASSUME NEW members \in Seq(Candidate), NEW unread \in Seq(Candidate)
    PROVE  Passed(unread, members) \subseteq DOMAIN members
<1> DEFINE l == Len(members)
           u == Len(unread)
<1>1. l \in Nat /\ u \in Nat /\ DOMAIN members = 1 .. l
  OBVIOUS
<1>2. Passed(unread, members) = 1 .. l - u
  BY DEF Passed
<1> HIDE DEF l, u
<1> QED
  BY <1>1, <1>2

LEMMA NoneUnread ==
    ASSUME NEW members \in Seq(Candidate)
    PROVE  Passed(<<>>, members) = DOMAIN members
<1>1. Len(<<>>) = 0
  OBVIOUS
<1> QED
  BY <1>1 DEF Passed

\* Whoever reads on reads the member after those behind.
LEMMA NextUnread ==
    ASSUME NEW members \in Seq(Candidate), NEW unread \in Seq(Candidate),
           UnreadOf(unread, members), unread # <<>>
    PROVE  \E k \in DOMAIN members :
              /\ Head(unread) = members[k]
              /\ Tail(unread) \in Seq(Candidate)
              /\ UnreadOf(Tail(unread), members)
              /\ Passed(Tail(unread), members) = Passed(unread, members) \union {k}
<1> DEFINE l == Len(members)
           u == Len(unread)
           k == l - u + 1
<1>1. l \in Nat /\ u \in Nat /\ u # 0 /\ u <= l
  BY DEF UnreadOf
<1>2. Head(unread) = unread[1] /\ 1 \in DOMAIN unread
  BY <1>1
<1>3. /\ Tail(unread) \in Seq(Candidate) /\ Len(Tail(unread)) = u - 1
      /\ \A n \in 1 .. u - 1 : Tail(unread)[n] = unread[n + 1]
  BY <1>1
<1>4. \A n \in 1 .. u : unread[n] = members[l - u + n]
  BY DEF UnreadOf
<1>5. DOMAIN Tail(unread) = 1 .. u - 1
  BY <1>3
<1>6. DOMAIN members = 1 .. l
  OBVIOUS
<1>7. Passed(unread, members) = 1 .. l - u
  BY DEF Passed
<1>8. Passed(Tail(unread), members) = 1 .. l - (u - 1)
  BY <1>3 DEF Passed
<1>9. Head(unread) = members[k]
  BY <1>1, <1>2, <1>4
<1>10. UnreadOf(Tail(unread), members)
  <2> SUFFICES ASSUME NEW n \in 1 .. u - 1
               PROVE  Tail(unread)[n] = members[l - (u - 1) + n]
    BY <1>1, <1>3, <1>5 DEF UnreadOf
  <2>1. n + 1 \in 1 .. u /\ l - (u - 1) + n = l - u + (n + 1)
    BY <1>1
  <2> QED
    BY <1>3, <1>4, <2>1
<1> HIDE DEF l, u
<1>11. k \in 1 .. l /\ (1 .. l - (u - 1)) = (1 .. l - u) \union {k}
  BY <1>1
<1> QED
  BY <1>3, <1>6, <1>7, <1>8, <1>9, <1>10, <1>11

-----------------------------------------------------------------------------
(* The invariant of the authorities. *)

\* Every recorded selection was asked for by a command that is still known.
Requested(row) ==
    \E d \in Command : command[d].intake = row.scope /\ command[d].target = row.target

TableInv ==
    /\ History(selections)
    /\ \A i \in Intake : Contiguous(selections, i)
    /\ \A row \in selections :
          /\ Requested(row)
          /\ row.target \in Revision => row.scope = IntakeOf[row.target]

\* The histories are no shorter than when the command started.
Started(r, since) ==
    /\ since.raw \in Nat /\ since.raw <= Len(rawLog[IntakeOf[r]])
    /\ \A n \in DOMAIN MembersOf[r] :
          /\ since.decision[n] \in Nat
          /\ since.decision[n] <= Len(decisionLog[MembersOf[r][n]])

SawParent(r, since) ==
    Selection!CurrentSince(rawLog[IntakeOf[r]], since.raw, ParentOf[r])

SawAccepted(r, since, n) ==
    Selection!CurrentSince(decisionLog[MembersOf[r][n]], since.decision[n], "accept")

\* What a command that was asked for revision r has found out about it.
Checked(c, r) ==
    LET s == command[c]
    IN  /\ s.pc \in {"raw", "members", "persist"} => Started(r, s.since)
        /\ s.pc = "raw" => s.unread = MembersOf[r]
        /\ s.pc \in {"members", "persist"} => SawParent(r, s.since)
        /\ s.pc = "members" =>
              /\ UnreadOf(s.unread, MembersOf[r])
              /\ \A n \in Passed(s.unread, MembersOf[r]) : SawAccepted(r, s.since, n)
        /\ s.pc = "persist" =>
              \A n \in DOMAIN MembersOf[r] : SawAccepted(r, s.since, n)

\* Somebody else's selection of c's intake is on record.
Contradicted(c) ==
    \E row \in selections : /\ row.scope = command[c].intake
                            /\ row.target # command[c].target

CallInv(c) ==
    LET s == command[c]
    IN  /\ s.pc = "idle" => s = Selection!NotStarted
        /\ s.pc # "idle" =>
              /\ s.intake \in Intake /\ s.target \in Choice
              /\ s.target \in Revision => s.intake = IntakeOf[s.target]
        /\ s.pc \in {"raw", "members"} => s.target \in Revision
        /\ s.pc = "read" => s.target = RawFallback
        /\ \A r \in Revision : s.target = r => Checked(c, r)
        /\ s.pc \in {"persist", "resolve"} =>
              Usable(selections, s.current, s.intake, s.target)
        /\ s.pc = "resolve" => \E row \in selections : row.scope = s.intake
        /\ s.pc # "returned" => s.outcome = None
        /\ s.outcome = "collision" => Contradicted(c)

SelectionInv ==
    /\ SelectionTypeInv
    /\ TableInv
    /\ \A c \in Command : CallInv(c)

-----------------------------------------------------------------------------
(* Histories only grow. *)

Extends(old, new) ==
    /\ Len(old) <= Len(new)
    /\ \A n \in DOMAIN old : n \in DOMAIN new /\ new[n] = old[n]

Grown ==
    /\ \A i \in Intake : Extends(rawLog[i], rawLog'[i])
    /\ \A k \in Candidate : Extends(decisionLog[k], decisionLog'[k])
    /\ selections \subseteq selections'

LEMMA AppendExtends ==
    ASSUME NEW S, NEW log \in Seq(S), NEW x \in S
    PROVE  Append(log, x) \in Seq(S) /\ Extends(log, Append(log, x))
<1>1. /\ Append(log, x) \in Seq(S) /\ Len(Append(log, x)) = Len(log) + 1
      /\ \A n \in 1 .. Len(log) : Append(log, x)[n] = log[n]
      /\ Len(log) \in Nat
      /\ DOMAIN log = 1 .. Len(log)
      /\ DOMAIN Append(log, x) = 1 .. Len(log) + 1
  OBVIOUS
<1> QED
  BY <1>1 DEF Extends

LEMMA SameExtends ==
    ASSUME NEW S, NEW log \in Seq(S)
    PROVE  Extends(log, log)
BY DEF Extends

\* What was current since some moment still was.
LEMMA CurrentSinceStays ==
    ASSUME NEW old, NEW new, Extends(old, new), NEW n, NEW x,
           Selection!CurrentSince(old, n, x)
    PROVE  Selection!CurrentSince(new, n, x)
BY DEF Extends, Selection!CurrentSince

\* What is current was current since any earlier moment.
LEMMA CurrentIsSince ==
    ASSUME NEW S, NEW log \in Seq(S), NEW n \in Nat, n <= Len(log), NEW x,
           log # <<>>, log[Len(log)] = x
    PROVE  Selection!CurrentSince(log, n, x)
<1>1. Len(log) \in DOMAIN log
  OBVIOUS
<1> QED
  BY <1>1 DEF Selection!CurrentSince

LEMMA LineageTypes ==
    ASSUME NEW r \in Revision
    PROVE  /\ IntakeOf[r] \in Intake /\ ParentOf[r] \in Transcript
           /\ MembersOf[r] \in Seq(Candidate)
           /\ DOMAIN MembersOf[r] = 1 .. Len(MembersOf[r]) /\ Len(MembersOf[r]) \in Nat
           /\ \A n \in DOMAIN MembersOf[r] : MembersOf[r][n] \in Candidate
           /\ r # None /\ r # RawFallback
<1>1. MembersOf[r] \in Seq(Candidate)
  BY LineageAssumption
<1> QED
  BY <1>1, LineageAssumption, NoneAssumption

\* A command that does not move stays right while the histories grow.
LEMMA CallKept ==
    ASSUME SelectionTypeInv, SelectionTypeInv', Grown,
           NEW d \in Command, CallInv(d), command'[d] = command[d]
    PROVE  CallInv(d)'
<1> DEFINE s == command[d]
<1>1. ASSUME NEW r \in Revision, NEW since, Started(r, since)
      PROVE  Started(r, since)'
  <2>1. /\ Len(rawLog[IntakeOf[r]]) <= Len(rawLog'[IntakeOf[r]])
        /\ Len(rawLog[IntakeOf[r]]) \in Nat /\ Len(rawLog'[IntakeOf[r]]) \in Nat
    BY LineageTypes DEF Grown, Extends, SelectionTypeInv
  <2>2. \A n \in DOMAIN MembersOf[r] :
           LET k == MembersOf[r][n]
           IN  /\ Len(decisionLog[k]) <= Len(decisionLog'[k])
               /\ Len(decisionLog[k]) \in Nat /\ Len(decisionLog'[k]) \in Nat
    BY LineageTypes DEF Grown, Extends, SelectionTypeInv
  <2> QED
    BY <1>1, <2>1, <2>2 DEF Started
<1>2. ASSUME NEW r \in Revision, NEW since, SawParent(r, since)
      PROVE  SawParent(r, since)'
  BY <1>2, LineageTypes, CurrentSinceStays DEF SawParent, Grown
<1>3. ASSUME NEW r \in Revision, NEW since, NEW n \in DOMAIN MembersOf[r],
             SawAccepted(r, since, n)
      PROVE  SawAccepted(r, since, n)'
  BY <1>3, LineageTypes, CurrentSinceStays DEF SawAccepted, Grown
<1>4. ASSUME NEW r \in Revision, Checked(d, r)
      PROVE  Checked(d, r)'
  <2>1. s.pc = "members" => Passed(s.unread, MembersOf[r]) \subseteq DOMAIN MembersOf[r]
    <3>1. s.unread \in Seq(Candidate)
      BY DEF SelectionTypeInv, CommandState
    <3> QED
      BY <3>1, LineageTypes, PassedInside
  <2> QED
    BY <1>1, <1>2, <1>3, <1>4, <2>1 DEF Checked
<1>5. s.pc \in {"persist", "resolve"} => Usable(selections', s.current, s.intake, s.target)
  <2>1. \A row \in selections : row.sequence \in Int
    BY DEF SelectionTypeInv, SelectionRow
  <2> QED
    BY <2>1, UsableStays DEF CallInv, SelectionTypeInv, Grown
<1>6. Contradicted(d) => Contradicted(d)'
  BY DEF Contradicted, Grown
<1> QED
  BY <1>4, <1>5, <1>6 DEF CallInv, Grown

\* A command that has recorded something keeps its request.
LEMMA RequestsStay ==
    ASSUME SelectionInv, NEW c \in Command,
           \A d \in Command \ {c} : command'[d] = command[d],
           \/ /\ command'[c].intake = command[c].intake
              /\ command'[c].target = command[c].target
           \/ command[c].intake = None
    PROVE  \A row \in selections : Requested(row)'
<1> SUFFICES ASSUME NEW row \in selections PROVE Requested(row)'
  OBVIOUS
<1>1. PICK d \in Command : command[d].intake = row.scope /\ command[d].target = row.target
  BY DEF SelectionInv, TableInv, Requested
<1>2. row.scope # None
  BY NoneAssumption DEF SelectionInv, SelectionTypeInv, SelectionRow
<1> QED
  BY <1>1, <1>2 DEF Requested

\* A command's step that leaves the histories alone has only its own
\* bookkeeping to keep right.
LEMMA LocalStep ==
    ASSUME SelectionInv, NEW c \in Command,
           command' \in [Command -> CommandState],
           \A d \in Command \ {c} : command'[d] = command[d],
           \/ /\ command'[c].intake = command[c].intake
              /\ command'[c].target = command[c].target
           \/ command[c].intake = None,
           UNCHANGED <<rawLog, decisionLog, selections>>,
           CallInv(c)'
    PROVE  SelectionInv' /\ Grown
<1>1. SelectionTypeInv'
  BY DEF SelectionInv, SelectionTypeInv
<1>2. Grown
  BY SameExtends DEF SelectionInv, SelectionTypeInv, Grown
<1>3. TableInv'
  BY RequestsStay DEF SelectionInv, TableInv
<1>4. \A d \in Command : CallInv(d)'
  BY <1>1, <1>2, CallKept DEF SelectionInv
<1> QED
  BY <1>1, <1>2, <1>3, <1>4 DEF SelectionInv

\* So has a step of the processes that move the authorities.
LEMMA LogStep ==
    ASSUME SelectionInv, UNCHANGED <<selections, command>>, Grown,
           rawLog' \in [Intake -> Seq(Transcript)],
           decisionLog' \in [Candidate -> Seq(Decidable)]
    PROVE  SelectionInv'
<1>1. SelectionTypeInv'
  BY DEF SelectionInv, SelectionTypeInv
<1>2. TableInv'
  BY DEF SelectionInv, TableInv, Requested
<1>3. \A d \in Command : CallInv(d)'
  BY <1>1, CallKept DEF SelectionInv
<1> QED
  BY <1>1, <1>2, <1>3 DEF SelectionInv

-----------------------------------------------------------------------------
(* The steps of the authorities. *)

LEMMA SelectRawKeeps ==
    ASSUME SelectionInv, NEW i \in Intake, NEW t \in Transcript, Selection!SelectRaw(i, t)
    PROVE  SelectionInv' /\ Grown
<1>1. /\ rawLog \in [Intake -> Seq(Transcript)] /\ decisionLog \in [Candidate -> Seq(Decidable)]
      /\ UNCHANGED <<decisionLog, selections, command>>
      /\ rawLog' = [rawLog EXCEPT ![i] = Append(@, t)]
  BY DEF SelectionInv, SelectionTypeInv, Selection!SelectRaw, Selection!Raw!Take
<1>2. rawLog' \in [Intake -> Seq(Transcript)]
  BY <1>1, AppendExtends
<1>3. \A j \in Intake : Extends(rawLog[j], rawLog'[j])
  BY <1>1, AppendExtends, SameExtends
<1>4. \A k \in Candidate : Extends(decisionLog[k], decisionLog'[k])
  BY <1>1, SameExtends
<1>5. Grown
  BY <1>1, <1>3, <1>4 DEF Grown
<1> QED
  BY <1>1, <1>2, <1>5, LogStep

LEMMA DecideKeeps ==
    ASSUME SelectionInv, NEW k \in Candidate, NEW kind \in Decidable,
           Selection!Decide(k, kind)
    PROVE  SelectionInv' /\ Grown
<1>1. /\ rawLog \in [Intake -> Seq(Transcript)] /\ decisionLog \in [Candidate -> Seq(Decidable)]
      /\ UNCHANGED <<rawLog, selections, command>>
      /\ decisionLog' = [decisionLog EXCEPT ![k] = Append(@, kind)]
  BY DEF SelectionInv, SelectionTypeInv, Selection!Decide, Selection!Decision!Take
<1>2. decisionLog' \in [Candidate -> Seq(Decidable)]
  BY <1>1, AppendExtends
<1>3. \A j \in Candidate : Extends(decisionLog[j], decisionLog'[j])
  BY <1>1, AppendExtends, SameExtends
<1>4. \A i \in Intake : Extends(rawLog[i], rawLog'[i])
  BY <1>1, SameExtends
<1>5. Grown
  BY <1>1, <1>3, <1>4 DEF Grown
<1> QED
  BY <1>1, <1>2, <1>5, LogStep

\* A return or a death keeps the request and forgets what was read.
LEMMA LeaveEffect ==
    ASSUME SelectionInv, NEW c \in Command, NEW pc \in {"returned", "killed"},
           NEW outcome \in Outcomes \union {None}, Selection!Leave(c, pc, outcome)
    PROVE  /\ command' \in [Command -> CommandState]
           /\ \A d \in Command \ {c} : command'[d] = command[d]
           /\ command'[c].pc = pc /\ command'[c].outcome = outcome
           /\ command'[c].intake = command[c].intake
           /\ command'[c].target = command[c].target
<1>1. command \in [Command -> CommandState] /\ command[c] \in CommandState
  BY DEF SelectionInv, SelectionTypeInv
<1>2. command'[c] = [pc |-> pc, intake |-> command[c].intake, target |-> command[c].target,
                     unread |-> <<>>, current |-> NoRow, since |-> <<>>, outcome |-> outcome]
  BY <1>1 DEF Selection!Leave, Selection!NoRow, NoRow, Selection!NoIdentity, NoIdentity
<1>3. /\ command'[c] \in CommandState
      /\ command'[c].pc = pc /\ command'[c].outcome = outcome
      /\ command'[c].intake = command[c].intake
      /\ command'[c].target = command[c].target
  BY <1>1, <1>2 DEF CommandState, MaybeRow, Since
<1> QED
  BY <1>1, <1>3 DEF Selection!Leave

\* Leaving is right unless it raises a collision that has no reason.
LEMMA LeaveKeeps ==
    ASSUME SelectionInv, NEW c \in Command, command[c].pc # "idle",
           NEW pc \in {"returned", "killed"},
           NEW outcome \in Outcomes \union {None}, Selection!Leave(c, pc, outcome),
           pc = "killed" => outcome = None,
           outcome = "collision" => Contradicted(c),
           UNCHANGED <<rawLog, decisionLog, selections>>
    PROVE  SelectionInv' /\ Grown
<1>1. /\ command' \in [Command -> CommandState]
      /\ \A d \in Command \ {c} : command'[d] = command[d]
      /\ command'[c].pc = pc /\ command'[c].outcome = outcome
      /\ command'[c].intake = command[c].intake
      /\ command'[c].target = command[c].target
  BY LeaveEffect
<1>2. CallInv(c)
  BY DEF SelectionInv
<1>3. outcome = "collision" => Contradicted(c)'
  BY <1>1 DEF Contradicted
<1>4. CallInv(c)'
  BY <1>1, <1>2, <1>3 DEF CallInv, Checked
<1> QED
  BY <1>1, <1>4, LocalStep

\* A step that goes on changes the place and what was read.
GoesOn(c, pc, unread, current) ==
    command' = [command EXCEPT ![c].pc = pc, ![c].unread = unread, ![c].current = current]

LEMMA GoOnEffect ==
    ASSUME SelectionInv, NEW c \in Command, NEW pc \in Selection!Running,
           NEW unread \in Seq(Candidate), NEW current \in MaybeRow,
           GoesOn(c, pc, unread, current)
    PROVE  /\ command' \in [Command -> CommandState]
           /\ \A d \in Command \ {c} : command'[d] = command[d]
           /\ command'[c].pc = pc /\ command'[c].unread = unread
           /\ command'[c].current = current
           /\ command'[c].since = command[c].since
           /\ command'[c].outcome = command[c].outcome
           /\ command'[c].intake = command[c].intake
           /\ command'[c].target = command[c].target
<1>1. command \in [Command -> CommandState] /\ command[c] \in CommandState
  BY DEF SelectionInv, SelectionTypeInv
<1>2. command'[c] = [command[c] EXCEPT !.pc = pc, !.unread = unread, !.current = current]
  BY <1>1 DEF CommandState, GoesOn
<1>3. /\ command'[c] \in CommandState
      /\ command'[c].pc = pc /\ command'[c].unread = unread
      /\ command'[c].current = current
      /\ command'[c].since = command[c].since
      /\ command'[c].outcome = command[c].outcome
      /\ command'[c].intake = command[c].intake
      /\ command'[c].target = command[c].target
  BY <1>1, <1>2 DEF CommandState
<1> QED
  BY <1>1, <1>3 DEF GoesOn

LEMMA SelectRevisionKeeps ==
    ASSUME SelectionInv, NEW c \in Command, NEW r \in Revision,
           Selection!SelectRevision(c, r)
    PROVE  SelectionInv' /\ Grown
<1> DEFINE since == Selection!LengthsFor(r)
<1>1. /\ command[c] = Selection!NotStarted /\ command \in [Command -> CommandState]
      /\ command[c] \in CommandState
      /\ UNCHANGED <<rawLog, decisionLog, selections>>
  BY DEF SelectionInv, SelectionTypeInv, CallInv, Selection!SelectRevision
<1>2. /\ since \in Since /\ Started(r, since)
  <2>1. Len(rawLog[IntakeOf[r]]) \in Nat
    BY LineageTypes DEF SelectionInv, SelectionTypeInv
  <2>2. \A n \in DOMAIN MembersOf[r] : Len(decisionLog[MembersOf[r][n]]) \in Nat
    BY LineageTypes DEF SelectionInv, SelectionTypeInv
  <2>3. /\ since.raw = Len(rawLog[IntakeOf[r]])
        /\ since.decision = [n \in DOMAIN MembersOf[r] |-> Len(decisionLog[MembersOf[r][n]])]
        /\ since = [raw |-> since.raw, decision |-> since.decision]
    BY DEF Selection!LengthsFor
  <2>4. since.decision \in Seq(Nat)
    BY <2>2, <2>3, LineageTypes
  <2> QED
    BY <2>1, <2>2, <2>3, <2>4 DEF Since, Started
<1>3. PICK start : start = since
  OBVIOUS
<1>4. command'[c] = [command[c] EXCEPT !.pc = "raw", !.intake = IntakeOf[r], !.target = r,
                                       !.unread = MembersOf[r], !.since = start]
  BY <1>1, <1>3 DEF Selection!SelectRevision
<1>5. /\ command[c].current = NoRow /\ command[c].outcome = None
      /\ command[c].intake = None
  BY <1>1 DEF Selection!NotStarted, Selection!NoRow, NoRow, Selection!NoIdentity, NoIdentity
<1>6. /\ command'[c].pc = "raw" /\ command'[c].intake = IntakeOf[r]
      /\ command'[c].target = r /\ command'[c].unread = MembersOf[r]
      /\ command'[c].since = start /\ command'[c].outcome = None
      /\ command'[c] \in CommandState
  <2>1. /\ IntakeOf[r] \in Intake /\ MembersOf[r] \in Seq(Candidate) /\ r \in Choice
        /\ start \in Since
    BY <1>2, <1>3, LineageTypes DEF Choice
  <2> HIDE DEF since
  <2> QED
    BY <1>1, <1>4, <1>5, <2>1 DEF CommandState, Selection!Running
<1>7. /\ command' \in [Command -> CommandState]
      /\ \A d \in Command \ {c} : command'[d] = command[d]
  BY <1>1, <1>6 DEF Selection!SelectRevision
<1>8. CallInv(c)'
  <2>1. Started(r, start)'
    BY <1>1, <1>2, <1>3 DEF Started
  <2> QED
    BY <1>6, <2>1, LineageTypes, NoneAssumption DEF CallInv, Checked, Choice, Outcomes
<1> QED
  BY <1>1, <1>5, <1>7, <1>8, LocalStep

LEMMA SelectRawFallbackKeeps ==
    ASSUME SelectionInv, NEW c \in Command, NEW i \in Intake,
           Selection!SelectRawFallback(c, i)
    PROVE  SelectionInv' /\ Grown
<1>1. /\ command[c] = Selection!NotStarted /\ command \in [Command -> CommandState]
      /\ command[c] \in CommandState
      /\ UNCHANGED <<rawLog, decisionLog, selections>>
  BY DEF SelectionInv, SelectionTypeInv, CallInv, Selection!SelectRawFallback
<1>2. command'[c] = [command[c] EXCEPT !.pc = "read", !.intake = i, !.target = RawFallback]
  BY <1>1 DEF Selection!SelectRawFallback
<1>3. command[c].outcome = None /\ command[c].intake = None
  BY <1>1 DEF Selection!NotStarted
<1>4. /\ command'[c].pc = "read" /\ command'[c].intake = i
      /\ command'[c].target = RawFallback /\ command'[c].outcome = None
      /\ command'[c] \in CommandState
  BY <1>1, <1>2, <1>3 DEF CommandState, Selection!Running, Choice
<1>5. /\ command' \in [Command -> CommandState]
      /\ \A d \in Command \ {c} : command'[d] = command[d]
  BY <1>1, <1>4 DEF Selection!SelectRawFallback
<1>6. CallInv(c)'
  BY <1>4, LineageAssumption, NoneAssumption DEF CallInv, Choice, Outcomes
<1> QED
  BY <1>1, <1>3, <1>5, <1>6, LocalStep

LEMMA CheckParentKeeps ==
    ASSUME SelectionInv, NEW c \in Command, Selection!CheckParent(c)
    PROVE  SelectionInv' /\ Grown
<1> DEFINE s == command[c]
<1>0. PICK r, since : r = s.target /\ since = s.since
  OBVIOUS
<1>1. /\ s.pc = "raw" /\ r \in Revision /\ s.intake = IntakeOf[r]
      /\ Started(r, since) /\ s.unread = MembersOf[r]
      /\ s.outcome = None /\ CallInv(c)
      /\ command \in [Command -> CommandState] /\ s \in CommandState
      /\ UNCHANGED <<rawLog, decisionLog, selections>>
  BY <1>0 DEF SelectionInv, SelectionTypeInv, CallInv, Checked, Selection!CheckParent
<1>2. CASE Selection!Raw!CurrentlyHolds(s.intake, ParentOf[r])
  <2>1. GoesOn(c, "members", s.unread, s.current)
    BY <1>0, <1>1, <1>2 DEF Selection!CheckParent, GoesOn, CommandState
  <2>2. /\ command' \in [Command -> CommandState]
        /\ \A d \in Command \ {c} : command'[d] = command[d]
        /\ command'[c].pc = "members" /\ command'[c].unread = s.unread
        /\ command'[c].since = since /\ command'[c].outcome = s.outcome
        /\ command'[c].intake = s.intake /\ command'[c].target = r
    BY <1>0, <1>1, <2>1, GoOnEffect DEF CommandState, Selection!Running
  <2>3. SawParent(r, since)
    <3>1. rawLog[IntakeOf[r]] \in Seq(Transcript)
      BY <1>1, LineageTypes DEF SelectionInv, SelectionTypeInv
    <3> QED
      BY <1>1, <1>2, <3>1, CurrentIsSince DEF SawParent, Started, Selection!Raw!CurrentlyHolds
  <2>4. UnreadOf(s.unread, MembersOf[r]) /\ Passed(s.unread, MembersOf[r]) = {}
    BY <1>1, LineageTypes, AllUnread
  <2>5. /\ Started(r, since)' /\ SawParent(r, since)'
    BY <1>1, <2>3 DEF Started, SawParent
  <2>6. Checked(c, r)'
    BY <1>1, <2>2, <2>4, <2>5 DEF Checked
  <2>7. CallInv(c)'
    BY <1>1, <2>2, <2>6, NoneAssumption DEF CallInv, Choice, Outcomes
  <2> QED
    BY <1>0, <1>1, <2>2, <2>7, LocalStep
<1>3. CASE ~Selection!Raw!CurrentlyHolds(s.intake, ParentOf[r])
  BY <1>0, <1>1, <1>3, LeaveKeeps DEF Selection!CheckParent, Selection!Return, Outcomes
<1> QED
  BY <1>2, <1>3

LEMMA CheckMemberKeeps ==
    ASSUME SelectionInv, NEW c \in Command, Selection!CheckMember(c)
    PROVE  SelectionInv' /\ Grown
<1> DEFINE s == command[c]
<1>0. PICK r, since : r = s.target /\ since = s.since
  OBVIOUS
<1> DEFINE members == MembersOf[r]
<1>1. /\ s.pc = "members" /\ r \in Revision /\ s.intake = IntakeOf[r]
      /\ Started(r, since) /\ SawParent(r, since) /\ UnreadOf(s.unread, members)
      /\ \A n \in Passed(s.unread, members) : SawAccepted(r, since, n)
      /\ s.outcome = None /\ CallInv(c) /\ s.unread # <<>>
      /\ command \in [Command -> CommandState] /\ s \in CommandState
      /\ UNCHANGED <<rawLog, decisionLog, selections>>
  BY <1>0 DEF SelectionInv, SelectionTypeInv, CallInv, Checked, Selection!CheckMember
<1>2. CASE Selection!Decision!CurrentlyHolds(Head(s.unread), "accept")
  <2>1. PICK k \in DOMAIN members :
           /\ Head(s.unread) = members[k]
           /\ Tail(s.unread) \in Seq(Candidate)
           /\ UnreadOf(Tail(s.unread), members)
           /\ Passed(Tail(s.unread), members) = Passed(s.unread, members) \union {k}
    BY <1>1, LineageTypes, NextUnread DEF CommandState
  <2>2. PICK rest : rest = Tail(s.unread)
    OBVIOUS
  <2>3. GoesOn(c, "members", rest, s.current)
    <3>1. command' = [command EXCEPT ![c].unread = rest]
      BY <1>1, <1>2, <2>2 DEF Selection!CheckMember
    <3> QED
      BY <1>1, <3>1 DEF GoesOn, CommandState
  <2>4. /\ command' \in [Command -> CommandState]
        /\ \A d \in Command \ {c} : command'[d] = command[d]
        /\ command'[c].pc = "members" /\ command'[c].unread = rest
        /\ command'[c].since = since /\ command'[c].outcome = s.outcome
        /\ command'[c].intake = s.intake /\ command'[c].target = r
    BY <1>0, <1>1, <2>1, <2>2, <2>3, GoOnEffect, ZenonT(60) DEF CommandState, Selection!Running
  <2>5. SawAccepted(r, since, k)
    <3>1. decisionLog[members[k]] \in Seq(Decidable)
      BY <1>1, LineageTypes DEF SelectionInv, SelectionTypeInv
    <3> QED
      BY <1>1, <1>2, <2>1, <3>1, CurrentIsSince
         DEF SawAccepted, Started, Selection!Decision!CurrentlyHolds
  <2>6. \A n \in Passed(rest, members) : SawAccepted(r, since, n)
    BY <1>1, <2>1, <2>2, <2>5
  <2>7. /\ Started(r, since)' /\ SawParent(r, since)'
        /\ \A n \in Passed(rest, members) : SawAccepted(r, since, n)'
    BY <1>1, <2>6 DEF Started, SawParent, SawAccepted
  <2>8. Checked(c, r)'
    BY <1>1, <2>1, <2>2, <2>4, <2>7 DEF Checked
  <2>9. CallInv(c)'
    BY <1>1, <2>4, <2>8, NoneAssumption DEF CallInv, Choice, Outcomes
  <2> QED
    BY <1>0, <1>1, <2>4, <2>9, LocalStep
<1>3. CASE ~Selection!Decision!CurrentlyHolds(Head(s.unread), "accept")
  BY <1>1, <1>3, LeaveKeeps DEF Selection!CheckMember, Selection!Return, Outcomes
<1> QED
  BY <1>2, <1>3

\* RevisionSelection's instance of the table is this one.
LEMMA SameTable ==
    ASSUME NEW table, NEW scope
    PROVE  /\ Selection!CurrentAnswers(table, scope) = CurrentAnswers(table, scope)
           /\ Selection!TargetsOf(table, scope) = TargetsOf(table, scope)
<1>1. Selection!CurrentAnswers(table, scope) = CurrentAnswers(table, scope)
  BY DEF Selection!CurrentAnswers, Selection!Newest, Selection!RowsOf, Selection!NoRow,
         Selection!NoIdentity, CurrentAnswers, Newest, RowsOf, NoRow, NoIdentity
<1>2. Selection!TargetsOf(table, scope) = TargetsOf(table, scope)
  BY DEF Selection!TargetsOf, Selection!TargetsIn, Selection!RowsOf,
         Selection!Cardinality, TargetsOf, TargetsIn, RowsOf, Cardinality
<1> QED
  BY <1>1, <1>2

\* The record a command is about to insert.
LEMMA NewSelectionIs ==
    ASSUME NEW c \in Command
    PROVE  Selection!NewSelection(c) =
               Successor(command[c].current, command[c].intake, command[c].target, None)
BY DEF Selection!NewSelection, Selection!Successor, Selection!NoRow, Selection!NoIdentity,
       Selection!Identity, Successor, NoRow, NoIdentity, Identity

LEMMA SameSlots ==
    ASSUME NEW table, NEW row
    PROVE  Selection!SlotTaken(table, row) <=> SlotTaken(table, row)
BY DEF Selection!SlotTaken, SlotTaken

\* What a query for the current selection of an intake returns.
LEMMA AnswerIs ==
    ASSUME SelectionTypeInv, NEW i, NEW row \in CurrentAnswers(selections, i)
    PROVE  /\ row \in MaybeRow
           /\ row # NoRow => row \in selections /\ row.scope = i
BY DEF SelectionTypeInv, CurrentAnswers, Newest, RowsOf, MaybeRow

LEMMA ReadCurrentKeeps ==
    ASSUME SelectionInv, NEW c \in Command, Selection!ReadCurrent(c)
    PROVE  SelectionInv' /\ Grown
<1> DEFINE s == command[c]
<1>0. PICK i, target, since : i = s.intake /\ target = s.target /\ since = s.since
  OBVIOUS
<1>1. /\ s.pc \in {"read", "members"}
      /\ s.pc = "members" => s.unread = <<>>
      /\ i \in Intake /\ target \in Choice /\ s.outcome = None /\ CallInv(c)
      /\ s.unread \in Seq(Candidate)
      /\ command \in [Command -> CommandState] /\ s \in CommandState
      /\ UNCHANGED <<rawLog, decisionLog, selections>>
  BY <1>0 DEF SelectionInv, SelectionTypeInv, CallInv, Selection!ReadCurrent, CommandState
<1>2. PICK current \in CurrentAnswers(selections, i) :
         \/ Selection!Return(c, "reused")
         \/ /\ current = NoRow \/ current.target # target
            /\ command' = [command EXCEPT ![c].pc = "persist", ![c].current = current]
  BY <1>0, SameTable DEF Selection!ReadCurrent, Selection!NoRow, NoRow,
                         Selection!NoIdentity, NoIdentity
<1>3. CASE Selection!Return(c, "reused")
  BY <1>1, <1>3, LeaveKeeps DEF Selection!Return, Outcomes
<1>4. CASE /\ current = NoRow \/ current.target # target
           /\ command' = [command EXCEPT ![c].pc = "persist", ![c].current = current]
  <2>1. current \in MaybeRow
    BY AnswerIs DEF SelectionInv
  <2>2. GoesOn(c, "persist", s.unread, current)
    BY <1>1, <1>4 DEF GoesOn, CommandState
  <2>3. /\ command' \in [Command -> CommandState]
        /\ \A d \in Command \ {c} : command'[d] = command[d]
        /\ command'[c].pc = "persist" /\ command'[c].current = current
        /\ command'[c].since = since /\ command'[c].outcome = s.outcome
        /\ command'[c].intake = i /\ command'[c].target = target
    BY <1>0, <1>1, <2>1, <2>2, GoOnEffect DEF Selection!Running
  <2>4. Usable(selections, current, i, target)
    <3>1. target # None
      BY <1>1, NoneAssumption DEF Choice
    <3>2. IsFiniteSet(selections) /\ Contiguous(selections, i)
      BY <1>1 DEF SelectionInv, SelectionTypeInv, TableInv
    <3> QED
      BY <1>2, <1>4, <3>1, <3>2, FreshReadIsUsable
  <2>5. ASSUME NEW r \in Revision, target = r
        PROVE  Checked(c, r)'
    <3>0. s.pc = "members" /\ s.unread = <<>> /\ Checked(c, r)
      BY <1>0, <1>1, <2>5, LineageAssumption DEF CallInv
    <3>1. /\ s.pc = "members" /\ s.unread = <<>>
          /\ Started(r, since) /\ SawParent(r, since)
          /\ \A n \in Passed(s.unread, MembersOf[r]) : SawAccepted(r, since, n)
      BY <1>0, <3>0 DEF Checked
    <3>2. \A n \in DOMAIN MembersOf[r] : SawAccepted(r, since, n)
      BY <3>1, NoneUnread, LineageTypes
    <3>3. /\ Started(r, since)' /\ SawParent(r, since)'
          /\ \A n \in DOMAIN MembersOf[r] : SawAccepted(r, since, n)'
      BY <1>1, <3>1, <3>2 DEF Started, SawParent, SawAccepted
    <3> QED
      BY <2>3, <3>3 DEF Checked
  <2>6. CallInv(c)'
    BY <1>0, <1>1, <2>3, <2>4, <2>5, NoneAssumption DEF CallInv, Outcomes
  <2> QED
    BY <1>0, <1>1, <2>3, <2>6, LocalStep
<1> QED
  BY <1>2, <1>3, <1>4

\* The insert takes the top of the intake's history.
LEMMA PersistAppends ==
    ASSUME SelectionInv, NEW c \in Command, Selection!Persist(c),
           NEW i, NEW target, i = command[c].intake, target = command[c].target
    PROVE  /\ i \in Intake /\ target \in Choice
           /\ target \in Revision => i = IntakeOf[target]
           /\ Usable(selections, command[c].current, i, target)
           /\ \E new : /\ new = Successor(command[c].current, i, target, None)
                       /\ new \in SelectionRow
                       /\ ~SlotTaken(selections, new)
                       /\ selections' = selections \union {new}
<1>1. /\ command[c].pc = "persist" /\ command[c] \in CommandState /\ CallInv(c)
      /\ ~Selection!SlotTaken(selections, Selection!NewSelection(c))
      /\ selections' = selections \union {Selection!NewSelection(c)}
  BY DEF SelectionInv, SelectionTypeInv, Selection!Persist
<1>2. /\ i \in Intake /\ target \in Choice
      /\ target \in Revision => i = IntakeOf[target]
      /\ Usable(selections, command[c].current, i, target)
      /\ command[c].current \in MaybeRow
  BY <1>1 DEF CallInv, CommandState
<1>3. PICK new : new = Successor(command[c].current, i, target, None)
  OBVIOUS
<1>4. ~SlotTaken(selections, new) /\ selections' = selections \union {new}
  <2>1. new = Selection!NewSelection(c)
    BY <1>3, NewSelectionIs
  <2> QED
    BY <1>1, <2>1, SameSlots
<1>5. new \in SelectionRow
  <2>1. command[c].current.sequence + 1 \in Nat
    BY <1>2 DEF MaybeRow, SelectionRow, NoRow
  <2>2. (IF command[c].current = NoRow THEN NoIdentity ELSE Identity(command[c].current))
            \in {NoIdentity} \union (Intake \X Choice \X Nat)
    BY <1>2 DEF MaybeRow, SelectionRow, Identity
  <2> QED
    BY <1>2, <1>3, <2>1, <2>2 DEF Successor, SelectionRow
<1> QED
  BY <1>2, <1>3, <1>4, <1>5

LEMMA PersistKeeps ==
    ASSUME SelectionInv, NEW c \in Command, Selection!Persist(c)
    PROVE  SelectionInv' /\ Grown
<1> DEFINE s == command[c]
<1>0. PICK i, target : i = s.intake /\ target = s.target
  OBVIOUS
<1>1. /\ i \in Intake /\ target \in Choice
      /\ target \in Revision => i = IntakeOf[target]
      /\ Usable(selections, s.current, i, target)
  BY <1>0, PersistAppends
<1>2. PICK new : /\ new = Successor(s.current, i, target, None)
                 /\ new \in SelectionRow
                 /\ ~SlotTaken(selections, new)
                 /\ selections' = selections \union {new}
  BY <1>0, PersistAppends
<1>3. PICK outcome \in {"recorded", "changed"} : Selection!Return(c, outcome)
  BY DEF Selection!Persist
<1>4. UNCHANGED <<rawLog, decisionLog>>
  BY DEF Selection!Persist
<1>5. /\ command' \in [Command -> CommandState]
      /\ \A d \in Command \ {c} : command'[d] = command[d]
      /\ command'[c].pc = "returned" /\ command'[c].outcome = outcome
      /\ command'[c].intake = i /\ command'[c].target = target
  BY <1>0, <1>3, LeaveEffect DEF Selection!Return, Outcomes
<1>6. /\ new.scope = i /\ new.target = target
      /\ History(selections')
      /\ Contiguous(selections', i)
      /\ \A other : other # i =>
             (Contiguous(selections, other) => Contiguous(selections', other))
  <2>1. Contiguous(selections, i) /\ History(selections)
    BY <1>1 DEF SelectionInv, TableInv
  <2>2. PICK current : current = s.current
    OBVIOUS
  <2>3. /\ Usable(selections, current, i, target) /\ ~SlotTaken(selections, new)
        /\ new = Successor(current, i, target, None)
    BY <1>1, <1>2, <2>2
  <2>4. /\ new.scope = i /\ new.target = target
        /\ History(selections \union {new})
        /\ Contiguous(selections \union {new}, i)
        /\ \A other : other # i =>
               (Contiguous(selections, other) => Contiguous(selections \union {new}, other))
    <3> HIDE DEF s
    <3>1. PICK note : note = None
      OBVIOUS
    <3>2. new = Successor(current, i, target, note)
      BY <2>3, <3>1
    <3> QED
      BY <2>1, <2>3, <3>2, AppendKeepsTable
  <2> QED
    BY <1>2, <2>4
<1>7. Grown
  BY <1>2, <1>4, SameExtends DEF SelectionInv, SelectionTypeInv, Grown
<1>8. SelectionTypeInv'
  BY <1>2, <1>4, <1>5, FS_AddElement DEF SelectionInv, SelectionTypeInv
<1>9. TableInv'
  <2>1. \A row \in selections : Requested(row)'
    BY <1>0, <1>5, RequestsStay
  <2>2. Requested(new)'
    BY <1>5, <1>6 DEF Requested
  <2>3. \A j \in Intake : Contiguous(selections', j)
    BY <1>6 DEF SelectionInv, TableInv
  <2>4. \A row \in selections' : row.target \in Revision => row.scope = IntakeOf[row.target]
    BY <1>1, <1>2, <1>6 DEF SelectionInv, TableInv
  <2> QED
    BY <1>2, <1>6, <2>1, <2>2, <2>3, <2>4 DEF TableInv
<1>10. CallInv(c)'
  BY <1>1, <1>3, <1>5 DEF CallInv, Checked
<1>11. \A d \in Command : CallInv(d)'
  BY <1>5, <1>7, <1>8, <1>10, CallKept DEF SelectionInv
<1> QED
  BY <1>7, <1>8, <1>9, <1>11 DEF SelectionInv

\* Both refusals of the insert mean that the intake has a selection.
LEMMA PersistCollidesKeeps ==
    ASSUME SelectionInv, NEW c \in Command, Selection!PersistCollides(c)
    PROVE  SelectionInv' /\ Grown
<1> DEFINE s == command[c]
<1>0. PICK i, target, current : /\ i = s.intake /\ target = s.target
                                /\ current = s.current
  OBVIOUS
<1>1. /\ s.pc = "persist" /\ CallInv(c) /\ s.outcome = None
      /\ i \in Intake /\ target \in Choice
      /\ target \in Revision => i = IntakeOf[target]
      /\ Usable(selections, current, i, target)
      /\ s.unread \in Seq(Candidate) /\ current \in MaybeRow
      /\ command \in [Command -> CommandState] /\ s \in CommandState
      /\ UNCHANGED <<rawLog, decisionLog, selections>>
  BY <1>0 DEF SelectionInv, SelectionTypeInv, CallInv, CommandState,
              Selection!PersistCollides
<1>2. PICK new : /\ new = Successor(current, i, target, None)
                 /\ new = Selection!NewSelection(c)
  BY <1>0, NewSelectionIs
<1>3. \/ \E old \in selections : Identity(old) = Identity(new)
      \/ \E old \in selections : old.scope = new.scope
  BY <1>2 DEF Selection!PersistCollides, Selection!IdentityExists, Selection!SlotTaken,
              Selection!Identity, Identity
<1>4. new.scope = i
  BY <1>2 DEF Successor
<1>5. \E row \in selections : row.scope = i
  BY <1>3, <1>4 DEF Identity
<1>6. GoesOn(c, "resolve", s.unread, current)
  BY <1>0, <1>1 DEF Selection!PersistCollides, GoesOn, CommandState
<1>7. /\ command' \in [Command -> CommandState]
      /\ \A d \in Command \ {c} : command'[d] = command[d]
      /\ command'[c].pc = "resolve" /\ command'[c].current = current
      /\ command'[c].outcome = s.outcome
      /\ command'[c].intake = i /\ command'[c].target = target
  BY <1>0, <1>1, <1>6, GoOnEffect DEF Selection!Running
<1>8. CallInv(c)'
  BY <1>1, <1>5, <1>7, NoneAssumption DEF CallInv, Checked, Outcomes
<1> QED
  BY <1>0, <1>1, <1>7, <1>8, LocalStep

LEMMA PersistFailsKeeps ==
    ASSUME SelectionInv, NEW c \in Command, Selection!PersistFails(c)
    PROVE  SelectionInv' /\ Grown
BY LeaveKeeps DEF Selection!PersistFails, Selection!Return, Outcomes

\* A command that does not find its own choice current finds another one.
LEMMA ResolveKeeps ==
    ASSUME SelectionInv, NEW c \in Command, Selection!Resolve(c)
    PROVE  SelectionInv' /\ Grown
<1>0. PICK i, target : i = command[c].intake /\ target = command[c].target
  OBVIOUS
<1>1. /\ command[c].pc = "resolve" /\ i \in Intake
      /\ \E row \in selections : row.scope = i
      /\ UNCHANGED <<rawLog, decisionLog, selections>>
  BY <1>0 DEF SelectionInv, CallInv, Selection!Resolve
<1>2. PICK current \in CurrentAnswers(selections, i) :
         \/ Selection!Return(c, "reused")
         \/ /\ current = NoRow \/ current.target # target
            /\ Selection!Return(c, "collision")
  BY <1>0, SameTable DEF Selection!Resolve, Selection!NoRow, NoRow,
                         Selection!NoIdentity, NoIdentity
<1>3. CASE Selection!Return(c, "reused")
  BY <1>1, <1>3, LeaveKeeps DEF Selection!Return, Outcomes
<1>4. CASE /\ current = NoRow \/ current.target # target
           /\ Selection!Return(c, "collision")
  <2>1. current # NoRow
    <3>1. /\ IsFiniteSet(selections) /\ Contiguous(selections, i)
          /\ \A row \in selections : row.sequence \in Nat
      BY <1>1 DEF SelectionInv, SelectionTypeInv, TableInv, SelectionRow
    <3>2. current.sequence + 1 = Height(selections, i) /\ Height(selections, i) \in Nat
      BY <3>1, CurrentIsLast, HeightType
    <3>3. Height(selections, i) # 0
      <4>1. PICK row \in RowsOf(selections, i) : TRUE
        BY <1>1 DEF RowsOf
      <4>2. row.sequence \in 0 .. Height(selections, i) - 1
        BY <3>1 DEF Contiguous
      <4> QED
        BY <3>2, <4>2
    <3> QED
      BY <3>2, <3>3 DEF NoRow
  <2>2. current \in selections /\ current.scope = i
    BY <2>1, AnswerIs DEF SelectionInv
  <2>3. Contradicted(c)
    BY <1>0, <1>4, <2>1, <2>2 DEF Contradicted
  <2> QED
    BY <1>1, <1>4, <2>3, LeaveKeeps DEF Selection!Return, Outcomes
<1> QED
  BY <1>2, <1>3, <1>4

LEMMA CommandKillKeeps ==
    ASSUME SelectionInv, NEW c \in Command, Selection!Kill(c)
    PROVE  SelectionInv' /\ Grown
<1>1. /\ command[c].pc \in Selection!Running
      /\ Selection!Leave(c, "killed", None)
      /\ UNCHANGED <<rawLog, decisionLog, selections>>
  BY DEF Selection!Kill
<1>2. command[c].pc # "idle"
  BY <1>1 DEF Selection!Running
<1>3. None # "collision"
  BY NoneAssumption DEF Outcomes
<1> QED
  BY <1>1, <1>2, <1>3, LeaveKeeps

LEMMA SelectionInitEstablishes == Selection!Init => SelectionInv
<1> SUFFICES ASSUME Selection!Init PROVE SelectionInv
  OBVIOUS
<1>1. /\ rawLog = RawAtStart /\ selections = {}
      /\ decisionLog = [k \in Candidate |-> <<"accept">>]
      /\ command = [c \in Command |-> Selection!NotStarted]
  BY DEF Selection!Init
<1>2. Selection!NotStarted \in CommandState
  BY DEF Selection!NotStarted, Selection!NoRow, Selection!NoIdentity, NoRow, NoIdentity,
         CommandState, MaybeRow, Since
<1>3. <<"accept">> \in Seq(Decidable)
  BY DEF Decidable
<1>4. SelectionTypeInv
  BY <1>1, <1>2, <1>3, StartAssumption, FS_EmptySet DEF SelectionTypeInv
<1>5. TableInv
  BY <1>1, EmptyHistory DEF TableInv
<1>6. \A c \in Command : CallInv(c)
  <2> SUFFICES ASSUME NEW c \in Command PROVE CallInv(c)
    OBVIOUS
  <2>1. /\ command[c] = Selection!NotStarted /\ command[c].pc = "idle"
        /\ command[c].target = None /\ command[c].outcome = None
    BY <1>1 DEF Selection!NotStarted
  <2> QED
    BY <2>1, NoneAssumption DEF CallInv, Outcomes
<1> QED
  BY <1>4, <1>5, <1>6 DEF SelectionInv

\* Whatever moves an authority keeps the authorities right, and histories grow.
LEMMA SelectionNextKeeps ==
    ASSUME SelectionInv, Selection!Next
    PROVE  SelectionInv' /\ Grown
<1>1. ASSUME NEW i \in Intake, NEW t \in Transcript, Selection!SelectRaw(i, t)
      PROVE  SelectionInv' /\ Grown
  BY <1>1, SelectRawKeeps
<1>2. ASSUME NEW k \in Candidate, NEW kind \in Decidable, Selection!Decide(k, kind)
      PROVE  SelectionInv' /\ Grown
  BY <1>2, DecideKeeps
<1>3. ASSUME NEW c \in Command,
             \/ \E r \in Revision : Selection!SelectRevision(c, r)
             \/ \E i \in Intake : Selection!SelectRawFallback(c, i)
             \/ Selection!CheckParent(c)
             \/ Selection!CheckMember(c)
             \/ Selection!ReadCurrent(c)
      PROVE  SelectionInv' /\ Grown
  BY <1>3, SelectRevisionKeeps, SelectRawFallbackKeeps, CheckParentKeeps,
     CheckMemberKeeps, ReadCurrentKeeps
<1>4. ASSUME NEW c \in Command,
             \/ Selection!Persist(c) \/ Selection!PersistCollides(c)
             \/ Selection!PersistFails(c) \/ Selection!Resolve(c) \/ Selection!Kill(c)
      PROVE  SelectionInv' /\ Grown
  BY <1>4, PersistKeeps, PersistCollidesKeeps, PersistFailsKeeps, ResolveKeeps,
     CommandKillKeeps
<1>5. Selection!Decidable = Decidable
  BY DEF Selection!Decidable, Decidable
<1> QED
  BY <1>1, <1>2, <1>3, <1>4, <1>5 DEF Selection!Next

\* A step that leaves the authorities alone keeps them right.
LEMMA SelectionStutterKeeps ==
    ASSUME SelectionInv, UNCHANGED authorities
    PROVE  SelectionInv' /\ Grown
<1>1. UNCHANGED <<rawLog, decisionLog, selections, command>>
  BY DEF authorities
<1>2. SelectionTypeInv'
  BY <1>1 DEF SelectionInv, SelectionTypeInv
<1>3. Grown
  BY <1>1, SameExtends DEF SelectionInv, SelectionTypeInv, Grown
<1>4. TableInv'
  BY <1>1 DEF SelectionInv, TableInv, Requested
<1>5. \A c \in Command : CallInv(c)'
  BY <1>1, <1>2, <1>3, CallKept DEF SelectionInv
<1> QED
  BY <1>2, <1>3, <1>4, <1>5 DEF SelectionInv

LEMMA ConsumerStepsLeaveAuthorities ==
    ASSUME NEW u \in Consumer, ConsumerStep(u)
    PROVE  UNCHANGED authorities
BY DEF ConsumerStep, Consume, AskCurrentness, ReadRaw, ReadSelection, RereadRaw,
       CheckMember, Refuse, Acquire, Persist, PersistCollides, PersistFails, Resolve,
       Judge, Kill

\* Every step keeps the authorities right and lets histories grow.
LEMMA AuthoritiesKept ==
    ASSUME SelectionInv, [Next]_vars
    PROVE  SelectionInv' /\ Grown
<1>1. CASE AuthorityStep
  BY <1>1, SelectionNextKeeps DEF AuthorityStep
<1>2. CASE \E u \in Consumer : ConsumerStep(u)
  BY <1>2, ConsumerStepsLeaveAuthorities, SelectionStutterKeeps
<1>3. CASE UNCHANGED vars
  BY <1>3, SelectionStutterKeeps DEF vars
<1> QED
  BY <1>1, <1>2, <1>3 DEF Next

\* The authorities are right at every moment, whatever consumers do beside them.
THEOREM AuthoritiesHold == Spec => []SelectionInv
<1>1. Init => SelectionInv
  BY SelectionInitEstablishes DEF Init
<1>2. SelectionInv /\ [Next]_vars => SelectionInv'
  BY AuthoritiesKept
<1> QED
  BY <1>1, <1>2, PTL DEF Spec

\* A command that is about to record a revision saw, since it was invoked, its
\* parent as the current raw transcript and each of its members accepted.
THEOREM EligibilityWasObservedHolds == Spec => []EligibilityWasObserved
<1>1. SelectionInv => EligibilityWasObserved
  <2> SUFFICES ASSUME SelectionInv, NEW c \in Command,
                      command[c].pc = "persist", command[c].target \in Revision
               PROVE  LET r     == command[c].target
                          since == command[c].since
                      IN  /\ Selection!CurrentSince(rawLog[IntakeOf[r]], since.raw,
                                                    ParentOf[r])
                          /\ \A n \in DOMAIN MembersOf[r] :
                                Selection!CurrentSince(decisionLog[MembersOf[r][n]],
                                                       since.decision[n], "accept")
    BY DEF EligibilityWasObserved, Selection!EligibilityWasObserved
  <2>1. PICK r, since : r = command[c].target /\ since = command[c].since
    OBVIOUS
  <2>2. Checked(c, r)
    BY <2>1 DEF SelectionInv, CallInv
  <2>3. SawParent(r, since) /\ \A n \in DOMAIN MembersOf[r] : SawAccepted(r, since, n)
    BY <2>1, <2>2 DEF Checked
  <2> QED
    BY <2>1, <2>3 DEF SawParent, SawAccepted
<1> QED
  BY <1>1, AuthoritiesHold, PTL

\* A selection command fails on a collision only if somebody asked for another
\* choice for the same intake.
THEOREM CollisionMeansDivergenceHolds == Spec => []CollisionMeansDivergence
<1>1. SelectionInv => CollisionMeansDivergence
  <2> SUFFICES ASSUME SelectionInv, NEW c \in Command, command[c].outcome = "collision"
               PROVE  \E d \in Command : /\ command[d].intake = command[c].intake
                                         /\ command[d].target # command[c].target
    BY DEF CollisionMeansDivergence, Selection!CollisionMeansDivergence
  <2>1. PICK row \in selections : /\ row.scope = command[c].intake
                                  /\ row.target # command[c].target
    BY DEF SelectionInv, CallInv, Contradicted
  <2>2. Requested(row)
    BY DEF SelectionInv, TableInv
  <2> QED
    BY <2>1, <2>2 DEF Requested
<1> QED
  BY <1>1, AuthoritiesHold, PTL

-----------------------------------------------------------------------------
(* The abstract register. *)

Logs == [i \in Intake |-> TargetsOf(selections, i)]

SelectedLogs == [i \in Intake |-> Selection!TargetsOf(selections, i)]

LEMMA SameLogs == SelectedLogs = Logs
BY SameTable DEF SelectedLogs, Logs

\* An insert takes the next place of its intake's log, for a choice that the
\* log does not already end with.
LEMMA SelectionTakes ==
    ASSUME SelectionInv, NEW c \in Command, Selection!Persist(c)
    PROVE  Selection!Register!Next
<1>0. PICK i, target : i = command[c].intake /\ target = command[c].target
  OBVIOUS
<1>1. /\ i \in Intake /\ target \in Choice
      /\ Usable(selections, command[c].current, i, target)
  BY <1>0, PersistAppends
<1>2. PICK new : /\ new = Successor(command[c].current, i, target, None)
                 /\ ~SlotTaken(selections, new)
                 /\ selections' = selections \union {new}
  BY <1>0, PersistAppends
<1>3. History(selections) /\ Contiguous(selections, i)
  BY <1>1 DEF SelectionInv, TableInv
<1>4. Takes(selections, selections', i, target)
  <2>1. PICK current, note : current = command[c].current /\ note = None
    OBVIOUS
  <2>2. /\ Usable(selections, current, i, target)
        /\ new = Successor(current, i, target, note)
    BY <1>1, <1>2, <2>1
  <2> QED
    BY <1>2, <1>3, <2>2, AppendTakes
<1>5. /\ SelectedLogs = Logs
      /\ SelectedLogs' = Logs'
  BY SameTable DEF SelectedLogs, Logs
<1>6. Logs' = [Logs EXCEPT ![i] = Append(@, target)]
  BY <1>1, <1>4 DEF Takes, Logs
<1>7. Logs[i] = TargetsOf(selections, i)
  BY <1>1 DEF Logs
<1>8. Selection!Register!Take(i, target)
  BY <1>4, <1>5, <1>6, <1>7
     DEF Selection!Register!Take, Selection!Register!CurrentlyHolds, Takes, SelectedLogs
<1>9. target \in Selection!Target
  BY <1>1 DEF Choice, Selection!Target
<1> QED
  BY <1>1, <1>8, <1>9 DEF Selection!Register!Next

\* The selections implement the abstract register: whatever the race, a step
\* replaces one intake's choice by a different one, or changes nothing a reader
\* can see.
THEOREM RegisterImplemented == Spec => ImplementsRegister
<1>1. Init => Selection!Register!Init
  <2> SUFFICES ASSUME Init PROVE SelectedLogs = [i \in Intake |-> <<>>]
    BY DEF Selection!Register!Init, SelectedLogs
  <2>1. selections = {}
    BY DEF Init, Selection!Init
  <2> QED
    BY <2>1, SameLogs, EmptyHistory DEF Logs
<1>2. SelectionInv /\ [Next]_vars => [Selection!Register!Next]_SelectedLogs
  <2> SUFFICES ASSUME SelectionInv, [Next]_vars
               PROVE  Selection!Register!Next \/ UNCHANGED SelectedLogs
    OBVIOUS
  <2>1. CASE UNCHANGED selections
    BY <2>1 DEF SelectedLogs
  <2>2. CASE \E c \in Command : Selection!Persist(c)
    BY <2>2, SelectionTakes
  <2>3. CASE Selection!Next
    <3>1. UNCHANGED selections \/ \E c \in Command : Selection!Persist(c)
      BY <2>3 DEF Selection!Next, Selection!SelectRaw, Selection!Decide,
                  Selection!SelectRevision, Selection!SelectRawFallback,
                  Selection!CheckParent, Selection!CheckMember, Selection!ReadCurrent,
                  Selection!PersistCollides, Selection!PersistFails, Selection!Resolve,
                  Selection!Kill
    <3> QED
      BY <2>1, <2>2, <3>1
  <2>4. CASE UNCHANGED authorities
    BY <2>1, <2>4 DEF authorities
  <2> QED
    BY <2>3, <2>4, ConsumerStepsLeaveAuthorities DEF Next, AuthorityStep, vars
<1> QED
  BY <1>1, <1>2, AuthoritiesHold, PTL
     DEF Spec, ImplementsRegister, Selection!ImplementsRegister, Selection!Register!Spec,
         SelectedLogs

-----------------------------------------------------------------------------
(* The invariant of the bindings and of what consumers have read. *)

Resolutions == {"raw", "corrected", "parent_not_current", "not_accepted"}

Binding ==
    [intake : Intake, source : Source, parent : Transcript, raw : Nat,
     selection : {NoIdentity} \union (Intake \X Choice \X Nat),
     state : {"selected", "no_history", "raw_fallback"}]

ConsumerState ==
    [pc : Running \union {"idle", "returned", "killed"},
     asked : Binding \union {NoBinding}, intake : Intake \union {None}, raw : Nat,
     selection : MaybeRow, unread : Seq(Candidate),
     resolution : Resolutions \union {None},
     outcome : Outcomes \union {None}, binding : Binding \union {NoBinding}]

ConsumptionTypeInv ==
    /\ consumptions \subseteq Binding
    /\ consumer \in [Consumer -> ConsumerState]

\* The transcript, the number of its raw selection and the revision selection
\* agree with the source.
FromRaw(b) ==
    /\ b.source = <<"raw", b.parent>>
    /\ b.state = IF b.selection = NoIdentity THEN "no_history" ELSE "raw_fallback"

FromRevision(b, r) ==
    /\ b.source = <<"corrected", r>> /\ b.state = "selected"
    /\ ParentOf[r] = b.parent /\ b.selection # NoIdentity

\* The selection that a binding names is on record for the choice it rests on.
NamesSelection(b, choice) ==
    \E row \in selections : /\ Identity(row) = b.selection
                            /\ row.scope = b.intake /\ row.target = choice

\* The records that a binding names exist and agree with its source.
BindingRight(b) ==
    /\ b.raw \in DOMAIN rawLog[b.intake] /\ rawLog[b.intake][b.raw] = b.parent
    /\ \/ /\ FromRaw(b)
          /\ b.selection # NoIdentity => NamesSelection(b, RawFallback)
       \/ \E r \in Revision : FromRevision(b, r) /\ NamesSelection(b, r)

AfterSelection == {"reread", "members", "resolved", "persist", "resolve"}

\* What a consumer has read, at whatever moments it did.
ReadInv(u) ==
    LET s      == consumer[u]
        target == s.selection.target
    IN  /\ s.pc = "idle" => s = NotStarted
        /\ s.pc # "idle" => s.intake \in Intake
        /\ s.asked # NoBinding => s.asked \in consumptions /\ s.asked.intake = s.intake
        /\ s.pc \in {"selection"} \union AfterSelection => s.raw \in DOMAIN rawLog[s.intake]
        /\ s.pc \in AfterSelection =>
              \/ s.selection = NoRow
              \/ s.selection \in selections /\ s.selection.scope = s.intake
        /\ s.pc \in {"reread", "members"} =>
              target \in Revision /\ UnreadOf(s.unread, MembersOf[target])
        /\ s.pc = "reread" => s.unread = MembersOf[target]
        /\ s.pc \in {"resolved", "persist", "resolve"} =>
              IF target \in Revision
              THEN s.resolution \in {"corrected", "parent_not_current", "not_accepted"}
              ELSE s.resolution = "raw"
        /\ s.pc \in {"persist", "resolve"} => ~Refused(u) /\ ~AuthorityMoved(u)
        /\ s.pc # "returned" => s.outcome = None

ConsumptionInv ==
    /\ ConsumptionTypeInv
    /\ \A b \in consumptions : BindingRight(b)
    /\ \A u \in Consumer : ReadInv(u)

-----------------------------------------------------------------------------
(* The invariant of what consumers have witnessed. *)

Last(log) == log[Len(log)]

ParentHolds(r) == Selection!Raw!CurrentlyHolds(IntakeOf[r], ParentOf[r])

Accepted(r, n) == Selection!Decision!CurrentlyHolds(MembersOf[r][n], "accept")

\* What the consumer has read is what it would read now, as far as that
\* determines what is effective.
Faithful(u) ==
    LET s      == consumer[u]
        i      == s.intake
        target == s.selection.target
    IN  /\ s.pc \in {"selection"} \union AfterSelection =>
              (EffectiveSource(i)[1] # "nothing" => rawLog[i][s.raw] = Last(rawLog[i]))
        /\ s.pc \in AfterSelection =>
              \A row \in CurrentAnswers(selections, i) :
                  IF target \in Revision THEN row.target = target
                                         ELSE row.target \notin Revision
        /\ s.pc = "members" =>
              /\ ParentHolds(target)
              /\ \A n \in Passed(s.unread, MembersOf[target]) : Accepted(target, n)
        /\ s.pc \in {"resolved", "persist", "resolve"} /\ target \in Revision =>
              (s.resolution = "corrected" <=> Selection!Applicable(target))

RightSource(u) ==
    \A source \in witnessed[u] :
        Consumed(u) /\ witnessed[u] = {source} => consumer[u].binding.source = source

RightVerdict(u) ==
    \A source \in witnessed[u] :
        ~Consuming(u) /\ consumer[u].outcome \in Verdicts /\ witnessed[u] = {source} =>
            (consumer[u].outcome = "current" <=> consumer[u].asked.source = source)

WitnessInv(u) ==
    /\ consumer[u].pc \in Running =>
          /\ EffectiveFor(u) \in witnessed[u]
          /\ witnessed[u] = {EffectiveFor(u)} => Faithful(u)
    /\ RightSource(u) /\ RightVerdict(u)

Witnessing == \A u \in Consumer : WitnessInv(u)

-----------------------------------------------------------------------------
(* Bindings and readings are kept. *)

\* A binding stays right while the histories grow.
LEMMA BindingKept ==
    ASSUME SelectionTypeInv, Grown, NEW b \in Binding, BindingRight(b)
    PROVE  BindingRight(b)'
<1>1. b.intake \in Intake
  BY DEF Binding
<1>2. b.raw \in DOMAIN rawLog'[b.intake] /\ rawLog'[b.intake][b.raw] = b.parent
  BY <1>1 DEF BindingRight, Grown, Extends
<1>3. \A choice : NamesSelection(b, choice) => NamesSelection(b, choice)'
  BY DEF NamesSelection, Grown
<1> QED
  BY <1>2, <1>3 DEF BindingRight

\* So does a consumer that does not move.
LEMMA ReadKept ==
    ASSUME SelectionTypeInv, Grown, consumptions \subseteq consumptions',
           NEW u \in Consumer, ReadInv(u), consumer'[u] = consumer[u]
    PROVE  ReadInv(u)'
<1> DEFINE s == consumer[u]
<1>1. s.pc # "idle" => s.intake \in Intake
  BY DEF ReadInv
<1>2. s.pc \in {"selection"} \union AfterSelection =>
         /\ s.raw \in DOMAIN rawLog'[s.intake]
         /\ ResolvedRaw(u)' = ResolvedRaw(u)
  BY <1>1 DEF ReadInv, Grown, Extends, ResolvedRaw, AfterSelection
<1>3. s.pc \in {"persist", "resolve"} => ~Refused(u)' /\ ~AuthorityMoved(u)'
  BY <1>2 DEF ReadInv, Refused, AuthorityMoved, AfterSelection
<1> QED
  BY <1>2, <1>3 DEF ReadInv, Grown

\* A consumer's step that records nothing has only its own reading to keep right.
LEMMA LocalRead ==
    ASSUME SelectionInv, ConsumptionInv, NEW u \in Consumer,
           consumer' \in [Consumer -> ConsumerState],
           \A v \in Consumer \ {u} : consumer'[v] = consumer[v],
           UNCHANGED authorities, UNCHANGED consumptions,
           ReadInv(u)'
    PROVE  ConsumptionInv'
<1>1. Grown
  BY SelectionStutterKeeps
<1>2. ConsumptionTypeInv'
  BY DEF ConsumptionInv, ConsumptionTypeInv
<1>3. \A b \in consumptions' : BindingRight(b)'
  BY <1>1, BindingKept DEF ConsumptionInv, ConsumptionTypeInv, SelectionInv
<1>4. \A v \in Consumer : ReadInv(v)'
  BY <1>1, ReadKept DEF ConsumptionInv, SelectionInv
<1> QED
  BY <1>2, <1>3, <1>4 DEF ConsumptionInv

\* Nor has a step of the authorities anything to keep right but their growth.
LEMMA AuthorityStepKeepsReadings ==
    ASSUME SelectionInv, ConsumptionInv, Grown, UNCHANGED <<consumptions, consumer>>
    PROVE  ConsumptionInv'
<1>1. ConsumptionTypeInv'
  BY DEF ConsumptionInv, ConsumptionTypeInv
<1>2. \A b \in consumptions' : BindingRight(b)'
  BY BindingKept DEF ConsumptionInv, ConsumptionTypeInv, SelectionInv
<1>3. \A v \in Consumer : ReadInv(v)'
  BY ReadKept DEF ConsumptionInv, SelectionInv
<1> QED
  BY <1>1, <1>2, <1>3 DEF ConsumptionInv

\* A return or a death keeps the request and forgets what was read.
LEMMA ConsumerLeaves ==
    ASSUME ConsumptionTypeInv, NEW u \in Consumer, NEW pc \in {"returned", "killed"},
           NEW outcome \in Outcomes \union {None},
           NEW binding \in Binding \union {NoBinding}, Leave(u, pc, outcome, binding)
    PROVE  /\ consumer' \in [Consumer -> ConsumerState]
           /\ \A v \in Consumer \ {u} : consumer'[v] = consumer[v]
           /\ consumer'[u].pc = pc /\ consumer'[u].outcome = outcome
           /\ consumer'[u].binding = binding
           /\ consumer'[u].asked = consumer[u].asked
           /\ consumer'[u].intake = consumer[u].intake
<1>1. consumer \in [Consumer -> ConsumerState] /\ consumer[u] \in ConsumerState
  BY DEF ConsumptionTypeInv
<1>2. consumer'[u] = [pc |-> pc, asked |-> consumer[u].asked,
                      intake |-> consumer[u].intake, raw |-> 0, selection |-> NoRow,
                      unread |-> <<>>, resolution |-> None, outcome |-> outcome,
                      binding |-> binding]
  BY <1>1 DEF Leave
<1>3. /\ consumer'[u] \in ConsumerState
      /\ consumer'[u].pc = pc /\ consumer'[u].outcome = outcome
      /\ consumer'[u].binding = binding
      /\ consumer'[u].asked = consumer[u].asked
      /\ consumer'[u].intake = consumer[u].intake
  BY <1>1, <1>2 DEF ConsumerState, MaybeRow
<1> QED
  BY <1>1, <1>3 DEF Leave

LEMMA LeavingKeepsReadings ==
    ASSUME SelectionInv, ConsumptionInv, NEW u \in Consumer, consumer[u].pc # "idle",
           NEW pc \in {"returned", "killed"}, NEW outcome \in Outcomes \union {None},
           NEW binding \in Binding \union {NoBinding}, Leave(u, pc, outcome, binding),
           pc = "killed" => outcome = None,
           UNCHANGED authorities, UNCHANGED consumptions
    PROVE  ConsumptionInv'
<1>1. /\ consumer' \in [Consumer -> ConsumerState]
      /\ \A v \in Consumer \ {u} : consumer'[v] = consumer[v]
      /\ consumer'[u].pc = pc /\ consumer'[u].outcome = outcome
      /\ consumer'[u].asked = consumer[u].asked
      /\ consumer'[u].intake = consumer[u].intake
  BY ConsumerLeaves DEF ConsumptionInv
<1>2. ReadInv(u)
  BY DEF ConsumptionInv
<1>3. ReadInv(u)'
  BY <1>1, <1>2 DEF ReadInv, AfterSelection
<1> QED
  BY <1>1, <1>3, LocalRead

\* A step that reads on changes the place and what was read.
ReadsOn(u, pc, raw, selection, unread, resolution) ==
    consumer' = [consumer EXCEPT ![u].pc = pc, ![u].raw = raw, ![u].selection = selection,
                                 ![u].unread = unread, ![u].resolution = resolution]

LEMMA ReadOnEffect ==
    ASSUME ConsumptionTypeInv, NEW u \in Consumer, NEW pc \in Running, NEW raw \in Nat,
           NEW selection \in MaybeRow, NEW unread \in Seq(Candidate),
           NEW resolution \in Resolutions \union {None},
           ReadsOn(u, pc, raw, selection, unread, resolution)
    PROVE  /\ consumer' \in [Consumer -> ConsumerState]
           /\ \A v \in Consumer \ {u} : consumer'[v] = consumer[v]
           /\ consumer'[u].pc = pc /\ consumer'[u].raw = raw
           /\ consumer'[u].selection = selection /\ consumer'[u].unread = unread
           /\ consumer'[u].resolution = resolution
           /\ consumer'[u].outcome = consumer[u].outcome
           /\ consumer'[u].asked = consumer[u].asked
           /\ consumer'[u].intake = consumer[u].intake
<1>1. consumer \in [Consumer -> ConsumerState] /\ consumer[u] \in ConsumerState
  BY DEF ConsumptionTypeInv
<1>2. consumer'[u] = [consumer[u] EXCEPT !.pc = pc, !.raw = raw, !.selection = selection,
                                         !.unread = unread, !.resolution = resolution]
  BY <1>1 DEF ReadsOn
<1>3. /\ consumer'[u] \in ConsumerState
      /\ consumer'[u].pc = pc /\ consumer'[u].raw = raw
      /\ consumer'[u].selection = selection /\ consumer'[u].unread = unread
      /\ consumer'[u].resolution = resolution
      /\ consumer'[u].outcome = consumer[u].outcome
      /\ consumer'[u].asked = consumer[u].asked
      /\ consumer'[u].intake = consumer[u].intake
  BY <1>1, <1>2 DEF ConsumerState
<1> QED
  BY <1>1, <1>3 DEF ReadsOn

\* The types of what a consumer keeps.
LEMMA ConsumerTypes ==
    ASSUME ConsumptionTypeInv, NEW u \in Consumer
    PROVE  /\ consumer \in [Consumer -> ConsumerState] /\ consumer[u] \in ConsumerState
           /\ consumer[u].raw \in Nat /\ consumer[u].selection \in MaybeRow
           /\ consumer[u].unread \in Seq(Candidate)
           /\ consumer[u].resolution \in Resolutions \union {None}
           /\ consumer[u].asked \in Binding \union {NoBinding}
BY DEF ConsumptionTypeInv, ConsumerState

LEMMA ConsumeKeepsReadings ==
    ASSUME SelectionInv, ConsumptionInv, NEW u \in Consumer, NEW i \in Intake, Consume(u, i)
    PROVE  ConsumptionInv'
<1>1. /\ consumer[u] = NotStarted /\ UNCHANGED authorities /\ UNCHANGED consumptions
      /\ consumer \in [Consumer -> ConsumerState] /\ consumer[u] \in ConsumerState
  BY ConsumerTypes DEF Consume, ConsumptionInv, ReadInv
<1>2. consumer'[u] = [consumer[u] EXCEPT !.pc = "raw", !.intake = i]
  BY <1>1 DEF Consume
<1>3. consumer[u].asked = NoBinding /\ consumer[u].outcome = None
  BY <1>1 DEF NotStarted
<1>4. /\ consumer'[u].pc = "raw" /\ consumer'[u].intake = i
      /\ consumer'[u].asked = NoBinding /\ consumer'[u].outcome = None
      /\ consumer'[u] \in ConsumerState
  BY <1>1, <1>2, <1>3 DEF ConsumerState, Running
<1>5. /\ consumer' \in [Consumer -> ConsumerState]
      /\ \A v \in Consumer \ {u} : consumer'[v] = consumer[v]
  BY <1>1, <1>4 DEF Consume
<1>6. ReadInv(u)'
  BY <1>4 DEF ReadInv, AfterSelection
<1> QED
  BY <1>1, <1>5, <1>6, LocalRead

LEMMA AskKeepsReadings ==
    ASSUME SelectionInv, ConsumptionInv, NEW u \in Consumer, NEW b \in consumptions,
           AskCurrentness(u, b)
    PROVE  ConsumptionInv'
<1>1. /\ consumer[u] = NotStarted /\ UNCHANGED authorities /\ UNCHANGED consumptions
      /\ consumer \in [Consumer -> ConsumerState] /\ consumer[u] \in ConsumerState
      /\ b \in Binding
  BY ConsumerTypes DEF AskCurrentness, ConsumptionInv, ConsumptionTypeInv, ReadInv
<1>2. PICK i : i = b.intake
  OBVIOUS
<1>3. consumer'[u] = [consumer[u] EXCEPT !.pc = "raw", !.asked = b, !.intake = i]
  BY <1>1, <1>2 DEF AskCurrentness
<1>4. consumer[u].outcome = None /\ i \in Intake
  BY <1>1, <1>2 DEF NotStarted, Binding
<1>5. /\ consumer'[u].pc = "raw" /\ consumer'[u].intake = i
      /\ consumer'[u].asked = b /\ consumer'[u].outcome = None
      /\ consumer'[u] \in ConsumerState
  BY <1>1, <1>3, <1>4 DEF ConsumerState, Running
<1>6. /\ consumer' \in [Consumer -> ConsumerState]
      /\ \A v \in Consumer \ {u} : consumer'[v] = consumer[v]
  BY <1>1, <1>5 DEF AskCurrentness
<1>7. ReadInv(u)'
  BY <1>1, <1>2, <1>4, <1>5 DEF ReadInv, AfterSelection
<1> QED
  BY <1>1, <1>6, <1>7, LocalRead

LEMMA ReadRawKeepsReadings ==
    ASSUME SelectionInv, ConsumptionInv, NEW u \in Consumer, ReadRaw(u)
    PROVE  ConsumptionInv'
<1> DEFINE s == consumer[u]
<1>0. PICK history : history = rawLog[s.intake]
  OBVIOUS
<1>1. /\ s.pc = "raw" /\ s.intake \in Intake /\ history \in Seq(Transcript)
      /\ ReadInv(u) /\ s.outcome = None
      /\ UNCHANGED authorities /\ UNCHANGED consumptions
  BY <1>0 DEF ReadRaw, ConsumptionInv, ReadInv, SelectionInv, SelectionTypeInv
<1>2. CASE history = <<>>
  BY <1>0, <1>1, <1>2, LeavingKeepsReadings DEF ReadRaw, Return, Outcomes
<1>3. CASE history # <<>>
  <2>1. PICK n : n = Len(history)
    OBVIOUS
  <2>2. n \in Nat /\ n \in DOMAIN history
    BY <1>1, <1>3, <2>1
  <2>3. ReadsOn(u, "selection", n, s.selection, s.unread, s.resolution)
    <3>1. consumer' = [consumer EXCEPT ![u].pc = "selection", ![u].raw = n]
      BY <1>0, <1>3, <2>1 DEF ReadRaw
    <3> QED
      BY <3>1, ConsumerTypes DEF ReadsOn, ConsumerState, ConsumptionInv
  <2>4. /\ consumer' \in [Consumer -> ConsumerState]
        /\ \A v \in Consumer \ {u} : consumer'[v] = consumer[v]
        /\ consumer'[u].pc = "selection" /\ consumer'[u].raw = n
        /\ consumer'[u].outcome = s.outcome /\ consumer'[u].asked = s.asked
        /\ consumer'[u].intake = s.intake
    <3>1. "selection" \in Running
      BY DEF Running
    <3> QED
      BY <2>2, <2>3, <3>1, ConsumerTypes, ReadOnEffect DEF ConsumptionInv
  <2>5. ReadInv(u)'
    BY <1>0, <1>1, <2>2, <2>4 DEF ReadInv, AfterSelection, authorities
  <2> QED
    BY <1>1, <2>4, <2>5, LocalRead
<1> QED
  BY <1>2, <1>3

LEMMA ReadSelectionKeepsReadings ==
    ASSUME SelectionInv, ConsumptionInv, NEW u \in Consumer, ReadSelection(u)
    PROVE  ConsumptionInv'
<1> DEFINE s == consumer[u]
<1>0. PICK i : i = s.intake
  OBVIOUS
<1>1. /\ s.pc = "selection" /\ i \in Intake /\ s.raw \in DOMAIN rawLog[i]
      /\ ReadInv(u) /\ s.outcome = None
      /\ UNCHANGED authorities /\ UNCHANGED consumptions
  BY <1>0 DEF ReadSelection, ConsumptionInv, ReadInv
<1>2. PICK row \in CurrentAnswers(selections, i) :
         consumer' =
             [consumer EXCEPT
                 ![u].selection = row,
                 ![u].pc = IF row.target \in Revision THEN "reread" ELSE "resolved",
                 ![u].resolution = IF row.target \in Revision THEN None ELSE "raw",
                 ![u].unread =
                     IF row.target \in Revision THEN MembersOf[row.target] ELSE <<>>]
  BY <1>0 DEF ReadSelection
<1>3. /\ row \in MaybeRow
      /\ row # NoRow => row \in selections /\ row.scope = i
  BY AnswerIs DEF SelectionInv
<1>4. PICK pc, resolution, unread, target :
         /\ target = row.target
         /\ pc = IF target \in Revision THEN "reread" ELSE "resolved"
         /\ resolution = IF target \in Revision THEN None ELSE "raw"
         /\ unread = IF target \in Revision THEN MembersOf[target] ELSE <<>>
  OBVIOUS
<1>5. /\ pc \in Running /\ resolution \in Resolutions \union {None}
      /\ unread \in Seq(Candidate)
      /\ target \in Revision => UnreadOf(unread, MembersOf[target])
  BY <1>4, LineageTypes, AllUnread DEF Running, Resolutions
<1>6. ReadsOn(u, pc, s.raw, row, unread, resolution)
  <2>1. consumer' = [consumer EXCEPT ![u].selection = row, ![u].pc = pc,
                                     ![u].resolution = resolution, ![u].unread = unread]
    BY <1>2, <1>4
  <2> QED
    BY <2>1, ConsumerTypes DEF ReadsOn, ConsumerState, ConsumptionInv
<1>7. /\ consumer' \in [Consumer -> ConsumerState]
      /\ \A v \in Consumer \ {u} : consumer'[v] = consumer[v]
      /\ consumer'[u].pc = pc /\ consumer'[u].raw = s.raw
      /\ consumer'[u].selection = row /\ consumer'[u].unread = unread
      /\ consumer'[u].resolution = resolution
      /\ consumer'[u].outcome = s.outcome /\ consumer'[u].asked = s.asked
      /\ consumer'[u].intake = i
  BY <1>0, <1>3, <1>5, <1>6, ConsumerTypes, ReadOnEffect DEF ConsumptionInv
<1>8. ReadInv(u)'
  BY <1>0, <1>1, <1>3, <1>4, <1>5, <1>7 DEF ReadInv, AfterSelection, authorities
<1> QED
  BY <1>1, <1>7, <1>8, LocalRead

\* A consumer of a selected revision that knows how it stands.
LEMMA ResolvingEffect ==
    ASSUME ConsumptionInv, NEW u \in Consumer,
           NEW resolution \in {"corrected", "parent_not_current", "not_accepted"},
           Resolved(u, resolution)
    PROVE  /\ consumer' \in [Consumer -> ConsumerState]
           /\ \A v \in Consumer \ {u} : consumer'[v] = consumer[v]
           /\ consumer'[u].pc = "resolved" /\ consumer'[u].resolution = resolution
           /\ consumer'[u].raw = consumer[u].raw
           /\ consumer'[u].selection = consumer[u].selection
           /\ consumer'[u].outcome = consumer[u].outcome
           /\ consumer'[u].asked = consumer[u].asked
           /\ consumer'[u].intake = consumer[u].intake
<1> DEFINE s == consumer[u]
<1>1. ReadsOn(u, "resolved", s.raw, s.selection, s.unread, resolution)
  BY ConsumerTypes DEF Resolved, ReadsOn, ConsumerState, ConsumptionInv
<1>2. "resolved" \in Running /\ resolution \in Resolutions \union {None}
  BY DEF Running, Resolutions
<1> QED
  BY <1>1, <1>2, ConsumerTypes, ReadOnEffect DEF ConsumptionInv

LEMMA ResolvingKeepsReadings ==
    ASSUME SelectionInv, ConsumptionInv, NEW u \in Consumer,
           consumer[u].pc \in {"reread", "members"},
           NEW resolution \in {"corrected", "parent_not_current", "not_accepted"},
           Resolved(u, resolution), UNCHANGED authorities, UNCHANGED consumptions
    PROVE  ConsumptionInv'
<1>1. /\ consumer' \in [Consumer -> ConsumerState]
      /\ \A v \in Consumer \ {u} : consumer'[v] = consumer[v]
      /\ consumer'[u].pc = "resolved" /\ consumer'[u].resolution = resolution
      /\ consumer'[u].raw = consumer[u].raw
      /\ consumer'[u].selection = consumer[u].selection
      /\ consumer'[u].outcome = consumer[u].outcome
      /\ consumer'[u].asked = consumer[u].asked
      /\ consumer'[u].intake = consumer[u].intake
  BY ResolvingEffect
<1>2. ReadInv(u)
  BY DEF ConsumptionInv
<1>3. ReadInv(u)'
  BY <1>1, <1>2 DEF ReadInv, AfterSelection, authorities
<1> QED
  BY <1>1, <1>3, LocalRead

LEMMA RereadKeepsReadings ==
    ASSUME SelectionInv, ConsumptionInv, NEW u \in Consumer, RereadRaw(u)
    PROVE  ConsumptionInv'
<1> DEFINE s == consumer[u]
<1>1. /\ s.pc = "reread" /\ ReadInv(u)
      /\ UNCHANGED authorities /\ UNCHANGED consumptions
  BY DEF RereadRaw, ConsumptionInv
<1>2. CASE consumer' = [consumer EXCEPT ![u].pc = "members"]
  <2>1. ReadsOn(u, "members", s.raw, s.selection, s.unread, s.resolution)
    BY <1>2, ConsumerTypes DEF ReadsOn, ConsumerState, ConsumptionInv
  <2>2. "members" \in Running
    BY DEF Running
  <2>3. /\ consumer' \in [Consumer -> ConsumerState]
        /\ \A v \in Consumer \ {u} : consumer'[v] = consumer[v]
        /\ consumer'[u].pc = "members" /\ consumer'[u].raw = s.raw
        /\ consumer'[u].selection = s.selection /\ consumer'[u].unread = s.unread
        /\ consumer'[u].outcome = s.outcome /\ consumer'[u].asked = s.asked
        /\ consumer'[u].intake = s.intake
    BY <2>1, <2>2, ConsumerTypes, ReadOnEffect DEF ConsumptionInv
  <2>4. ReadInv(u)'
    BY <1>1, <2>3 DEF ReadInv, AfterSelection, authorities
  <2> QED
    BY <1>1, <2>3, <2>4, LocalRead
<1>3. CASE Resolved(u, "parent_not_current")
  BY <1>1, <1>3, ResolvingKeepsReadings
<1> QED
  BY <1>2, <1>3 DEF RereadRaw

LEMMA RestEffect ==
    ASSUME ConsumptionInv, NEW u \in Consumer, NEW rest \in Seq(Candidate),
           ReadsOn(u, "members", consumer[u].raw, consumer[u].selection, rest,
                   consumer[u].resolution)
    PROVE  /\ consumer' \in [Consumer -> ConsumerState]
           /\ \A v \in Consumer \ {u} : consumer'[v] = consumer[v]
           /\ consumer'[u].pc = "members" /\ consumer'[u].raw = consumer[u].raw
           /\ consumer'[u].selection = consumer[u].selection
           /\ consumer'[u].unread = rest
           /\ consumer'[u].outcome = consumer[u].outcome
           /\ consumer'[u].asked = consumer[u].asked
           /\ consumer'[u].intake = consumer[u].intake
<1>1. "members" \in Running
  BY DEF Running
<1> QED
  BY <1>1, ConsumerTypes, ReadOnEffect DEF ConsumptionInv

\* A member that was found accepted is behind the consumer.
Passes(u) == consumer' = [consumer EXCEPT ![u].unread = Tail(@)]

LEMMA PassingEffect ==
    ASSUME ConsumptionInv, NEW u \in Consumer, consumer[u].pc = "members",
           NEW target, target = consumer[u].selection.target,
           consumer[u].unread # <<>>,
           Passes(u)
    PROVE  /\ consumer' \in [Consumer -> ConsumerState]
           /\ \A v \in Consumer \ {u} : consumer'[v] = consumer[v]
           /\ consumer'[u].pc = "members" /\ consumer'[u].raw = consumer[u].raw
           /\ consumer'[u].selection = consumer[u].selection
           /\ consumer'[u].outcome = consumer[u].outcome
           /\ consumer'[u].asked = consumer[u].asked
           /\ consumer'[u].intake = consumer[u].intake
           /\ target \in Revision
           /\ UnreadOf(consumer'[u].unread, MembersOf[target])
           /\ \E k \in DOMAIN MembersOf[target] :
                 /\ Head(consumer[u].unread) = MembersOf[target][k]
                 /\ Passed(consumer'[u].unread, MembersOf[target])
                      = Passed(consumer[u].unread, MembersOf[target]) \union {k}
<1> DEFINE s == consumer[u]
<1>1. /\ target \in Revision /\ UnreadOf(s.unread, MembersOf[target])
      /\ s.unread \in Seq(Candidate) /\ s.unread # <<>>
  BY ConsumerTypes DEF ConsumptionInv, ReadInv
<1>2. PICK k \in DOMAIN MembersOf[target] :
         /\ Head(s.unread) = MembersOf[target][k]
         /\ Tail(s.unread) \in Seq(Candidate)
         /\ UnreadOf(Tail(s.unread), MembersOf[target])
         /\ Passed(Tail(s.unread), MembersOf[target])
              = Passed(s.unread, MembersOf[target]) \union {k}
  BY <1>1, LineageTypes, NextUnread
<1>3. PICK rest : rest = Tail(s.unread)
  OBVIOUS
<1>4. ReadsOn(u, "members", s.raw, s.selection, rest, s.resolution)
  <2>1. consumer' = [consumer EXCEPT ![u].unread = rest]
    BY <1>3 DEF Passes
  <2> QED
    BY <2>1, ConsumerTypes DEF ReadsOn, ConsumerState, ConsumptionInv
<1>5. rest \in Seq(Candidate)
  BY <1>2, <1>3
<1>6. /\ consumer' \in [Consumer -> ConsumerState]
      /\ \A v \in Consumer \ {u} : consumer'[v] = consumer[v]
      /\ consumer'[u].pc = "members" /\ consumer'[u].raw = s.raw
      /\ consumer'[u].selection = s.selection /\ consumer'[u].unread = rest
      /\ consumer'[u].outcome = s.outcome /\ consumer'[u].asked = s.asked
      /\ consumer'[u].intake = s.intake
  BY <1>4, <1>5, RestEffect
<1> QED
  BY <1>1, <1>2, <1>3, <1>6

LEMMA CheckMemberKeepsReadings ==
    ASSUME SelectionInv, ConsumptionInv, NEW u \in Consumer, CheckMember(u)
    PROVE  ConsumptionInv'
<1> DEFINE s == consumer[u]
<1>1. /\ s.pc = "members" /\ ReadInv(u)
      /\ UNCHANGED authorities /\ UNCHANGED consumptions
  BY DEF CheckMember, ConsumptionInv
<1>2. CASE s.unread # <<>> /\ Passes(u)
  <2>1. PICK target : target = s.selection.target
    OBVIOUS
  <2>2. /\ consumer' \in [Consumer -> ConsumerState]
        /\ \A v \in Consumer \ {u} : consumer'[v] = consumer[v]
        /\ consumer'[u].pc = "members" /\ consumer'[u].raw = s.raw
        /\ consumer'[u].selection = s.selection
        /\ consumer'[u].outcome = s.outcome /\ consumer'[u].asked = s.asked
        /\ consumer'[u].intake = s.intake
        /\ target \in Revision /\ UnreadOf(consumer'[u].unread, MembersOf[target])
    BY <1>1, <1>2, <2>1, PassingEffect
  <2>3. ReadInv(u)'
    BY <1>1, <2>1, <2>2 DEF ReadInv, AfterSelection, authorities
  <2> QED
    BY <1>1, <2>2, <2>3, LocalRead
<1>3. CASE Resolved(u, "corrected") \/ Resolved(u, "not_accepted")
  BY <1>1, <1>3, ResolvingKeepsReadings
<1> QED
  BY <1>2, <1>3 DEF CheckMember, Passes

\* A step to another place with the same reading.
LEMMA MovingEffect ==
    ASSUME ConsumptionInv, NEW u \in Consumer, NEW pc \in Running,
           consumer' = [consumer EXCEPT ![u].pc = pc]
    PROVE  /\ consumer' \in [Consumer -> ConsumerState]
           /\ \A v \in Consumer \ {u} : consumer'[v] = consumer[v]
           /\ consumer'[u].pc = pc /\ consumer'[u].raw = consumer[u].raw
           /\ consumer'[u].selection = consumer[u].selection
           /\ consumer'[u].resolution = consumer[u].resolution
           /\ consumer'[u].outcome = consumer[u].outcome
           /\ consumer'[u].asked = consumer[u].asked
           /\ consumer'[u].intake = consumer[u].intake
<1> DEFINE s == consumer[u]
<1>1. ReadsOn(u, pc, s.raw, s.selection, s.unread, s.resolution)
  BY ConsumerTypes DEF ReadsOn, ConsumerState, ConsumptionInv
<1> QED
  BY <1>1, ConsumerTypes, ReadOnEffect DEF ConsumptionInv

LEMMA MovingKeepsReadings ==
    ASSUME SelectionInv, ConsumptionInv, NEW u \in Consumer,
           consumer[u].pc \in {"resolved", "persist"}, ~Refused(u), ~AuthorityMoved(u),
           NEW pc \in {"persist", "resolve"},
           consumer' = [consumer EXCEPT ![u].pc = pc],
           UNCHANGED authorities, UNCHANGED consumptions
    PROVE  ConsumptionInv'
<1>1. pc \in Running
  BY DEF Running
<1>2. /\ consumer' \in [Consumer -> ConsumerState]
      /\ \A v \in Consumer \ {u} : consumer'[v] = consumer[v]
      /\ consumer'[u].pc = pc /\ consumer'[u].raw = consumer[u].raw
      /\ consumer'[u].selection = consumer[u].selection
      /\ consumer'[u].resolution = consumer[u].resolution
      /\ consumer'[u].outcome = consumer[u].outcome
      /\ consumer'[u].asked = consumer[u].asked
      /\ consumer'[u].intake = consumer[u].intake
  BY <1>1, MovingEffect
<1>3. ReadInv(u) /\ UNCHANGED <<rawLog, selections>>
  BY DEF ConsumptionInv, authorities
<1>4. ~Refused(u)' /\ ~AuthorityMoved(u)'
  BY <1>2, <1>3 DEF Refused, AuthorityMoved, ResolvedRaw
<1>5. ReadInv(u)'
  BY <1>2, <1>3, <1>4 DEF ReadInv, AfterSelection
<1> QED
  BY <1>2, <1>5, LocalRead

LEMMA RefuseKeepsReadings ==
    ASSUME SelectionInv, ConsumptionInv, NEW u \in Consumer, Refuse(u)
    PROVE  ConsumptionInv'
<1>1. /\ consumer[u].pc # "idle" /\ UNCHANGED authorities /\ UNCHANGED consumptions
      /\ \/ Leave(u, "returned", "inapplicable", NoBinding)
         \/ Leave(u, "returned", "retry", NoBinding)
  BY DEF Refuse, Return
<1>2. "inapplicable" \in Outcomes /\ "retry" \in Outcomes
  BY DEF Outcomes, Verdicts
<1> QED
  BY <1>1, <1>2, LeavingKeepsReadings

LEMMA AcquireKeepsReadings ==
    ASSUME SelectionInv, ConsumptionInv, NEW u \in Consumer, Acquire(u)
    PROVE  ConsumptionInv'
<1>1. /\ consumer[u].pc = "resolved" /\ ~Refused(u) /\ ~AuthorityMoved(u)
      /\ UNCHANGED authorities /\ UNCHANGED consumptions
      /\ \/ consumer' = [consumer EXCEPT ![u].pc = "persist"]
         \/ \E b \in SameBinding(u) : Leave(u, "returned", "reused", b)
  BY DEF Acquire, Return
<1>2. CASE consumer' = [consumer EXCEPT ![u].pc = "persist"]
  BY <1>1, <1>2, MovingKeepsReadings
<1>3. ASSUME NEW b \in SameBinding(u), Leave(u, "returned", "reused", b)
      PROVE  ConsumptionInv'
  <2>1. b \in Binding /\ "reused" \in Outcomes
    BY DEF SameBinding, ConsumptionInv, ConsumptionTypeInv, Outcomes
  <2> QED
    BY <1>1, <1>3, <2>1, LeavingKeepsReadings
<1> QED
  BY <1>1, <1>2, <1>3

\* What a consumer is about to bind: the records it names are on record and
\* agree with the source, although they were read one by one.
LEMMA NewBindingRight ==
    ASSUME SelectionInv, ConsumptionInv, NEW u \in Consumer,
           consumer[u].pc \in {"persist", "resolve"},
           NEW new, new = NewBinding(u)
    PROVE  new \in Binding /\ BindingRight(new)
<1> DEFINE s == consumer[u]
<1>0. PICK i, n, row, target, t :
         /\ i = s.intake /\ n = s.raw /\ row = s.selection /\ target = row.target
         /\ t = ResolvedRaw(u)
  OBVIOUS
<1>1. /\ i \in Intake /\ n \in DOMAIN rawLog[i] /\ rawLog[i][n] = t
      /\ row = NoRow \/ (row \in selections /\ row.scope = i)
      /\ s.resolution \in {"raw", "corrected"}
      /\ IF target \in Revision THEN s.resolution # "raw" ELSE s.resolution = "raw"
      /\ s.resolution = "corrected" => ParentOf[target] = t
  <2>1. ReadInv(u) /\ s.pc \in AfterSelection /\ ~Refused(u) /\ ~AuthorityMoved(u)
    BY DEF ConsumptionInv, ReadInv, AfterSelection
  <2>2. /\ i \in Intake /\ n \in DOMAIN rawLog[i]
        /\ row = NoRow \/ (row \in selections /\ row.scope = i)
    <3>1. s.pc # "idle" /\ s.pc \in {"selection"} \union AfterSelection
      BY <2>1 DEF AfterSelection
    <3>2. s.intake \in Intake /\ s.raw \in DOMAIN rawLog[s.intake]
      BY <2>1, <3>1 DEF ReadInv
    <3>3. s.selection = NoRow
            \/ (s.selection \in selections /\ s.selection.scope = s.intake)
      BY <2>1 DEF ReadInv
    <3> QED
      BY <1>0, <3>2, <3>3
  <2>3. IF target \in Revision
        THEN s.resolution \in {"corrected", "parent_not_current", "not_accepted"}
        ELSE s.resolution = "raw"
    BY <1>0, <2>1 DEF ReadInv
  <2>4. rawLog[i][n] = t /\ (s.resolution = "corrected" => ParentOf[target] = t)
    BY <1>0, <2>1 DEF AuthorityMoved, ResolvedRaw
  <2> QED
    BY <2>1, <2>2, <2>3, <2>4 DEF Refused
<1>2. rawLog[i] \in Seq(Transcript)
  BY <1>1 DEF SelectionInv, SelectionTypeInv
<1>3. n \in Nat /\ t \in Transcript
  BY <1>1, <1>2
<1>4. row # NoRow => /\ row.scope = i /\ row.target \in Choice /\ row.sequence \in Nat
                     /\ Identity(row) \in Intake \X Choice \X Nat
                     /\ Identity(row) # NoIdentity
  <2> SUFFICES ASSUME row # NoRow
               PROVE  /\ row.scope = i /\ row.target \in Choice /\ row.sequence \in Nat
                      /\ Identity(row) \in Intake \X Choice \X Nat
                      /\ Identity(row) # NoIdentity
    OBVIOUS
  <2>1. row.scope = i /\ row.target \in Choice /\ row.sequence \in Nat
    BY <1>1 DEF SelectionInv, SelectionTypeInv, SelectionRow
  <2>2. Identity(row) = <<row.scope, row.target, row.sequence>>
    BY DEF Identity
  <2>3. Len(Identity(row)) = 3 /\ Len(NoIdentity) = 0
    BY <2>2 DEF NoIdentity
  <2> QED
    BY <1>1, <2>1, <2>2, <2>3
<1>5. row = NoRow => target \notin Revision
  BY <1>0, NoneAssumption DEF NoRow
<1>6. CASE target \in Revision
  <2>1. /\ s.resolution = "corrected" /\ row # NoRow /\ ParentOf[target] = t
    BY <1>1, <1>5, <1>6
  <2>2. new = [intake |-> i, source |-> <<"corrected", target>>, parent |-> t, raw |-> n,
               selection |-> Identity(row), state |-> "selected"]
    BY <1>0, <2>1 DEF NewBinding
  <2>3. new \in Binding
    BY <1>1, <1>3, <1>4, <1>6, <2>1, <2>2 DEF Binding, Source
  <2>4. FromRevision(new, target)
    BY <1>4, <2>1, <2>2 DEF FromRevision
  <2>5. NamesSelection(new, target)
    BY <1>0, <1>1, <2>1, <2>2 DEF NamesSelection
  <2>6. new.raw \in DOMAIN rawLog[new.intake] /\ rawLog[new.intake][new.raw] = new.parent
    BY <1>1, <2>2
  <2> QED
    BY <1>6, <2>3, <2>4, <2>5, <2>6 DEF BindingRight
<1>7. CASE target \notin Revision
  <2>1. s.resolution = "raw"
    BY <1>1, <1>7
  <2>2. PICK named, state :
           /\ named = IF row = NoRow THEN NoIdentity ELSE Identity(row)
           /\ state = IF row = NoRow THEN "no_history" ELSE "raw_fallback"
    OBVIOUS
  <2>3. new = [intake |-> i, source |-> <<"raw", t>>, parent |-> t, raw |-> n,
               selection |-> named, state |-> state]
    BY <1>0, <2>1, <2>2 DEF NewBinding
  <2>4. named \in {NoIdentity} \union (Intake \X Choice \X Nat)
    BY <1>4, <2>2
  <2>5. new \in Binding
    <3>1. <<"raw", t>> \in Source /\ state \in {"selected", "no_history", "raw_fallback"}
      BY <1>3, <2>2 DEF Source
    <3> QED
      BY <1>1, <1>3, <2>3, <2>4, <3>1 DEF Binding
  <2>6. FromRaw(new)
    BY <1>4, <2>2, <2>3 DEF FromRaw
  <2>7. new.selection # NoIdentity => NamesSelection(new, RawFallback)
    <3> SUFFICES ASSUME row # NoRow PROVE NamesSelection(new, RawFallback)
      BY <2>2, <2>3
    <3>1. target = RawFallback
      BY <1>0, <1>4, <1>7 DEF Choice
    <3>2. /\ row \in selections /\ row.scope = i /\ row.target = target
          /\ new.selection = Identity(row) /\ new.intake = i
      BY <1>0, <1>1, <2>2, <2>3
    <3> QED
      BY <3>1, <3>2 DEF NamesSelection
  <2>8. new.raw \in DOMAIN rawLog[new.intake] /\ rawLog[new.intake][new.raw] = new.parent
    BY <1>1, <2>3
  <2> QED
    BY <2>5, <2>6, <2>7, <2>8 DEF BindingRight
<1> QED
  BY <1>6, <1>7

LEMMA PersistKeepsReadings ==
    ASSUME SelectionInv, ConsumptionInv, NEW u \in Consumer, Persist(u)
    PROVE  ConsumptionInv'
<1>1. PICK new : new = NewBinding(u)
  OBVIOUS
<1>2. /\ consumer[u].pc = "persist" /\ UNCHANGED authorities
      /\ consumptions' = consumptions \union {new}
      /\ Leave(u, "returned", "created", new)
  BY <1>1 DEF Persist, Return
<1>3. new \in Binding /\ BindingRight(new)
  BY <1>1, <1>2, NewBindingRight
<1>4. Grown
  BY <1>2, SelectionStutterKeeps
<1>5. "created" \in Outcomes
  BY DEF Outcomes
<1>6. /\ consumer' \in [Consumer -> ConsumerState]
      /\ \A v \in Consumer \ {u} : consumer'[v] = consumer[v]
      /\ consumer'[u].pc = "returned"
      /\ consumer'[u].asked = consumer[u].asked
      /\ consumer'[u].intake = consumer[u].intake
  BY <1>2, <1>3, <1>5, ConsumerLeaves DEF ConsumptionInv
<1>7. ConsumptionTypeInv'
  BY <1>2, <1>3, <1>6 DEF ConsumptionInv, ConsumptionTypeInv
<1>8. \A b \in consumptions' : BindingRight(b)'
  BY <1>2, <1>3, <1>4, BindingKept DEF ConsumptionInv, ConsumptionTypeInv, SelectionInv
<1>9. ReadInv(u)'
  <2>1. ReadInv(u)
    BY DEF ConsumptionInv
  <2> QED
    BY <1>2, <1>6, <2>1 DEF ReadInv, AfterSelection
<1>10. \A v \in Consumer : ReadInv(v)'
  BY <1>2, <1>4, <1>6, <1>9, ReadKept DEF ConsumptionInv, SelectionInv
<1> QED
  BY <1>7, <1>8, <1>10 DEF ConsumptionInv

LEMMA PersistCollidesKeepsReadings ==
    ASSUME SelectionInv, ConsumptionInv, NEW u \in Consumer, PersistCollides(u)
    PROVE  ConsumptionInv'
<1>1. /\ consumer[u].pc = "persist" /\ UNCHANGED authorities /\ UNCHANGED consumptions
      /\ consumer' = [consumer EXCEPT ![u].pc = "resolve"]
  BY DEF PersistCollides
<1>2. ~Refused(u) /\ ~AuthorityMoved(u)
  BY <1>1 DEF ConsumptionInv, ReadInv
<1> QED
  BY <1>1, <1>2, MovingKeepsReadings

LEMMA PersistFailsKeepsReadings ==
    ASSUME SelectionInv, ConsumptionInv, NEW u \in Consumer, PersistFails(u)
    PROVE  ConsumptionInv'
<1>1. "error" \in Outcomes
  BY DEF Outcomes
<1> QED
  BY <1>1, LeavingKeepsReadings DEF PersistFails, Return

LEMMA ResolveKeepsReadings ==
    ASSUME SelectionInv, ConsumptionInv, NEW u \in Consumer, Resolve(u)
    PROVE  ConsumptionInv'
<1>1. PICK b \in SameBinding(u) : Leave(u, "returned", "reused", b)
  BY DEF Resolve, Return
<1>2. b \in Binding /\ "reused" \in Outcomes
  BY DEF SameBinding, ConsumptionInv, ConsumptionTypeInv, Outcomes
<1> QED
  BY <1>1, <1>2, LeavingKeepsReadings DEF Resolve

\* A currentness query answers one of four things.
LEMMA VerdictType ==
    ASSUME NEW b, NEW resolution, NEW r, NEW t
    PROVE  Verdict(b, resolution, r, t) \in Verdicts
BY DEF Verdict, Verdicts

LEMMA JudgeKeepsReadings ==
    ASSUME SelectionInv, ConsumptionInv, NEW u \in Consumer, Judge(u)
    PROVE  ConsumptionInv'
<1>1. PICK verdict : verdict = Verdict(consumer[u].asked, consumer[u].resolution,
                                       consumer[u].selection.target, ResolvedRaw(u))
  OBVIOUS
<1>2. /\ consumer[u].pc # "idle" /\ UNCHANGED authorities /\ UNCHANGED consumptions
      /\ Leave(u, "returned", verdict, consumer[u].asked)
  BY <1>1 DEF Judge, Return
<1>3. verdict \in Outcomes \union {None}
  BY <1>1, VerdictType DEF Outcomes
<1>4. consumer[u].asked \in Binding \union {NoBinding}
  BY ConsumerTypes DEF ConsumptionInv
<1> QED
  BY <1>2, <1>3, <1>4, LeavingKeepsReadings

LEMMA KillKeepsReadings ==
    ASSUME SelectionInv, ConsumptionInv, NEW u \in Consumer, Kill(u)
    PROVE  ConsumptionInv'
<1>1. consumer[u].pc # "idle"
  BY DEF Kill, Running
<1> QED
  BY <1>1, LeavingKeepsReadings DEF Kill

LEMMA ConsumptionInitEstablishes == Init => ConsumptionInv
<1> SUFFICES ASSUME Init PROVE ConsumptionInv
  OBVIOUS
<1>1. consumptions = {} /\ consumer = [u \in Consumer |-> NotStarted]
  BY DEF Init
<1>2. NotStarted \in ConsumerState
  BY DEF NotStarted, ConsumerState, MaybeRow
<1>3. ASSUME NEW u \in Consumer PROVE ReadInv(u)
  <2>1. /\ consumer[u] = NotStarted /\ consumer[u].pc = "idle"
        /\ consumer[u].asked = NoBinding /\ consumer[u].outcome = None
    BY <1>1 DEF NotStarted
  <2> QED
    BY <2>1 DEF ReadInv, AfterSelection
<1> QED
  BY <1>1, <1>2, <1>3 DEF ConsumptionInv, ConsumptionTypeInv

\* Every step keeps the bindings and the readings right.
LEMMA ConsumptionKept ==
    ASSUME SelectionInv, ConsumptionInv, [Next]_vars
    PROVE  ConsumptionInv'
<1>1. CASE AuthorityStep
  BY <1>1, AuthoritiesKept, AuthorityStepKeepsReadings DEF AuthorityStep
<1>2. ASSUME NEW u \in Consumer, ConsumerStep(u) PROVE ConsumptionInv'
  <2>1. CASE \/ \E i \in Intake : Consume(u, i)
             \/ \E b \in consumptions : AskCurrentness(u, b)
    BY <2>1, ConsumeKeepsReadings, AskKeepsReadings
  <2>2. CASE ReadRaw(u) \/ ReadSelection(u) \/ RereadRaw(u) \/ CheckMember(u)
    BY <2>2, ReadRawKeepsReadings, ReadSelectionKeepsReadings, RereadKeepsReadings,
       CheckMemberKeepsReadings
  <2>3. CASE Refuse(u) \/ Acquire(u) \/ Persist(u) \/ PersistCollides(u)
    BY <2>3, RefuseKeepsReadings, AcquireKeepsReadings, PersistKeepsReadings,
       PersistCollidesKeepsReadings
  <2>4. CASE PersistFails(u) \/ Resolve(u) \/ Judge(u) \/ Kill(u)
    BY <2>4, PersistFailsKeepsReadings, ResolveKeepsReadings, JudgeKeepsReadings,
       KillKeepsReadings
  <2> QED
    BY <1>2, <2>1, <2>2, <2>3, <2>4 DEF ConsumerStep
<1>3. CASE UNCHANGED vars
  <2>1. Grown /\ UNCHANGED <<consumptions, consumer>>
    BY <1>3, SelectionStutterKeeps DEF vars
  <2> QED
    BY <2>1, AuthorityStepKeepsReadings
<1> QED
  BY <1>1, <1>2, <1>3 DEF Next

\* The bindings and what consumers have read are right at every moment.
THEOREM ConsumptionHolds == Spec => []ConsumptionInv
<1>1. Init => ConsumptionInv
  BY ConsumptionInitEstablishes
<1>2. SelectionInv /\ ConsumptionInv /\ [Next]_vars => ConsumptionInv'
  BY ConsumptionKept
<1> QED
  BY <1>1, <1>2, AuthoritiesHold, PTL DEF Spec

\* The validator never has anything to say against the selections and bindings:
\* a binding names authority records that exist and agree with its source, and a
\* raw source never rests on a selected revision that could not be used.
THEOREM RepositoryIsValidHolds == Spec => []RepositoryIsValid
<1>1. SelectionInv /\ ConsumptionInv => RepositoryIsValid
  <2> SUFFICES ASSUME SelectionInv, ConsumptionInv PROVE RepositoryIsValid
    OBVIOUS
  <2>1. HistoryIsValid(selections)
    <3>1. History(selections) /\ \A row \in selections : Contiguous(selections, row.scope)
      BY DEF SelectionInv, TableInv, SelectionTypeInv, SelectionRow
    <3> QED
      BY <3>1, ValidatorAgrees
  <2>2. ASSUME NEW b \in consumptions
        PROVE  /\ b \notin KindDisagreements
               /\ b \notin ParentMismatches
               /\ b \notin AuthorityMismatches
    <3>1. /\ b.raw \in DOMAIN rawLog[b.intake] /\ rawLog[b.intake][b.raw] = b.parent
          /\ \/ /\ FromRaw(b)
                /\ b.selection # NoIdentity => NamesSelection(b, RawFallback)
             \/ \E r \in Revision : FromRevision(b, r) /\ NamesSelection(b, r)
      BY DEF ConsumptionInv, BindingRight
    <3>2. ASSUME NEW choice, NamesSelection(b, choice)
          PROVE  /\ SelectionNamed(b) # {}
                 /\ \A row \in SelectionNamed(b) :
                       row.scope = b.intake /\ row.target = choice
      <4>1. PICK named \in selections : /\ Identity(named) = b.selection
                                        /\ named.scope = b.intake
                                        /\ named.target = choice
        BY <3>2 DEF NamesSelection
      <4>2. \A row \in selections : Identity(row) = Identity(named) =>
               row.scope = named.scope /\ row.target = named.target
        BY DEF Identity
      <4> QED
        BY <4>1, <4>2 DEF SelectionNamed
    <3>3. CASE /\ FromRaw(b)
               /\ b.selection # NoIdentity => NamesSelection(b, RawFallback)
      <4>1. b.source[1] = "raw" /\ b.state # "selected"
        BY <3>3 DEF FromRaw
      <4>2. b.selection = NoIdentity => SelectionNamed(b) = {}
        <5>1. \A row : Identity(row) # NoIdentity
          <6> SUFFICES ASSUME NEW row PROVE Identity(row) # NoIdentity
            OBVIOUS
          <6>1. Len(Identity(row)) = 3 /\ Len(NoIdentity) = 0
            BY DEF Identity, NoIdentity
          <6> QED
            BY <6>1
        <5> QED
          BY <5>1 DEF SelectionNamed
      <4> QED
        BY <3>1, <3>2, <3>3, <4>1, <4>2
           DEF FromRaw, KindDisagreements, ParentMismatches, AuthorityMismatches
    <3>4. ASSUME NEW r \in Revision, FromRevision(b, r), NamesSelection(b, r)
          PROVE  /\ b \notin KindDisagreements
                 /\ b \notin ParentMismatches
                 /\ b \notin AuthorityMismatches
      <4>1. b.source[1] = "corrected" /\ b.source[2] = r
        BY <3>4 DEF FromRevision
      <4> QED
        BY <3>1, <3>2, <3>4, <4>1
           DEF FromRevision, KindDisagreements, ParentMismatches, AuthorityMismatches
    <3> QED
      BY <3>1, <3>3, <3>4
  <2>3. KindDisagreements = {} /\ ParentMismatches = {} /\ AuthorityMismatches = {}
    BY <2>2 DEF KindDisagreements, ParentMismatches, AuthorityMismatches
  <2> QED
    BY <2>1, <2>3 DEF RepositoryIsValid
<1> QED
  BY <1>1, AuthoritiesHold, ConsumptionHolds, PTL

-----------------------------------------------------------------------------
(* What is effective at one moment. *)

\* A query for the current selection has one answer.
LEMMA OneAnswer ==
    ASSUME SelectionInv, NEW i \in Intake
    PROVE  \E row : CurrentAnswers(selections, i) = {row}
<1> SUFFICES ASSUME NEW row \in CurrentAnswers(selections, i),
                    NEW other \in CurrentAnswers(selections, i)
             PROVE  row = other
  <2>1. CurrentAnswers(selections, i) # {}
    BY DEF CurrentAnswers
  <2> QED
    BY <2>1
<1>1. CASE Newest(selections, i) = {}
  BY <1>1 DEF CurrentAnswers
<1>2. CASE Newest(selections, i) # {}
  <2>1. /\ row \in selections /\ row.scope = i /\ row.sequence \in Nat
        /\ other \in selections /\ other.scope = i /\ other.sequence \in Nat
        /\ row.sequence <= other.sequence /\ other.sequence <= row.sequence
    BY <1>2 DEF CurrentAnswers, Newest, RowsOf, SelectionInv, SelectionTypeInv, SelectionRow
  <2>2. row.sequence = other.sequence
    BY <2>1
  <2> QED
    BY <2>1, <2>2 DEF SelectionInv, TableInv, History, Chained
<1> QED
  BY <1>1, <1>2

\* A selected revision is a revision of that very intake.
LEMMA AnswerBelongs ==
    ASSUME SelectionInv, NEW i \in Intake, NEW row \in CurrentAnswers(selections, i),
           row.target \in Revision
    PROVE  IntakeOf[row.target] = i
<1>1. row # NoRow
  BY NoneAssumption DEF NoRow
<1>2. row \in selections /\ row.scope = i
  BY <1>1, AnswerIs DEF SelectionInv
<1> QED
  BY <1>2 DEF SelectionInv, TableInv

\* The four cases of what is effective.
LEMMA EffectiveCases ==
    ASSUME SelectionInv, NEW i \in Intake, rawLog[i] # <<>>,
           NEW row \in CurrentAnswers(selections, i)
    PROVE  /\ row.target \notin Revision =>
                 EffectiveSource(i) = <<"raw", Last(rawLog[i])>>
           /\ row.target \in Revision /\ Selection!Applicable(row.target) =>
                 EffectiveSource(i) = <<"corrected", row.target>>
           /\ row.target \in Revision /\ ~Selection!Applicable(row.target) =>
                 EffectiveSource(i) = <<"nothing", {Unmet(row.target)}>>
<1>1. CurrentAnswers(selections, i) = {row}
  BY OneAnswer
<1>2. row # NoRow => row.target \in Choice
  <2>1. row # NoRow => row \in selections
    BY AnswerIs DEF SelectionInv
  <2> QED
    BY <2>1 DEF SelectionInv, SelectionTypeInv, SelectionRow
<1>3. row = NoRow => row.target \notin Revision
  BY NoneAssumption DEF NoRow
<1>4. row.target \in Revision => row.target # RawFallback
  BY LineageAssumption
<1>5. CASE row.target \notin Revision
  <2>1. row = NoRow \/ row.target = RawFallback
    BY <1>2, <1>5 DEF Choice
  <2> QED
    BY <1>1, <1>5, <2>1 DEF EffectiveSource, Last
<1>6. CASE row.target \in Revision
  <2>1. ~\E answer \in CurrentAnswers(selections, i) :
           answer = NoRow \/ answer.target = RawFallback
    BY <1>1, <1>3, <1>4, <1>6
  <2>2. CASE Selection!Applicable(row.target)
    <3>1. EffectiveSource(i) = <<"corrected", (CHOOSE answer \in {row} : TRUE).target>>
      BY <1>1, <1>6, <2>1, <2>2 DEF EffectiveSource
    <3>2. (CHOOSE answer \in {row} : TRUE) = row
      OBVIOUS
    <3> QED
      BY <1>6, <2>2, <3>1, <3>2
  <2>3. CASE ~Selection!Applicable(row.target)
    <3>1. EffectiveSource(i)
            = NothingEffective({Unmet(answer.target) : answer \in {row}})
      BY <1>1, <1>6, <2>1, <2>3 DEF EffectiveSource
    <3>2. {Unmet(answer.target) : answer \in {row}} = {Unmet(row.target)}
      OBVIOUS
    <3> QED
      BY <1>6, <2>3, <3>1, <3>2 DEF NothingEffective
  <2> QED
    BY <1>6, <2>2, <2>3
<1> QED
  BY <1>5, <1>6

\* What a revision that is not applicable lacks.
LEMMA ApplicableIs ==
    ASSUME NEW r \in Revision
    PROVE  /\ Selection!Applicable(r) <=>
                 ParentHolds(r) /\ \A n \in DOMAIN MembersOf[r] : Accepted(r, n)
           /\ Unmet(r).revision = r
           /\ Unmet(r).parent <=> ParentHolds(r)
           /\ Unmet(r).members = {n \in DOMAIN MembersOf[r] : ~Accepted(r, n)}
BY DEF Selection!Applicable, ParentHolds, Accepted, Unmet

\* The four cases as one formula, to be read at two moments.
EffectiveIs(i) ==
    rawLog[i] # <<>> =>
        \A row \in CurrentAnswers(selections, i) :
            /\ row.target \notin Revision =>
                  EffectiveSource(i) = <<"raw", Last(rawLog[i])>>
            /\ row.target \in Revision =>
                  /\ IntakeOf[row.target] = i
                  /\ Selection!Applicable(row.target) =>
                        EffectiveSource(i) = <<"corrected", row.target>>
                  /\ ~Selection!Applicable(row.target) =>
                        EffectiveSource(i) = <<"nothing", {Unmet(row.target)}>>

EffectiveAre == \A i \in Intake : EffectiveIs(i)

LEMMA EffectiveAlwaysAre == SelectionInv => EffectiveAre
BY EffectiveCases, AnswerBelongs DEF EffectiveAre, EffectiveIs

Standing(r) ==
    /\ Selection!Applicable(r) <=>
          ParentHolds(r) /\ \A n \in DOMAIN MembersOf[r] : Accepted(r, n)
    /\ Unmet(r).revision = r
    /\ Unmet(r).parent <=> ParentHolds(r)
    /\ Unmet(r).members = {n \in DOMAIN MembersOf[r] : ~Accepted(r, n)}

LEMMA StandingAlwaysIs == \A r \in Revision : Standing(r)
BY ApplicableIs DEF Standing

\* While one answer stays effective, the current selection keeps its choice, the
\* last raw transcript stays the last unless nothing is effective, and the
\* selected revision keeps what it lacks.
LEMMA SameEffective ==
    ASSUME SelectionInv, SelectionInv', NEW i \in Intake,
           rawLog[i] # <<>>, rawLog'[i] # <<>>,
           EffectiveSource(i)' = EffectiveSource(i),
           NEW row \in CurrentAnswers(selections, i),
           NEW next \in CurrentAnswers(selections', i)
    PROVE  /\ IF row.target \in Revision THEN next.target = row.target
                                         ELSE next.target \notin Revision
           /\ EffectiveSource(i)[1] # "nothing" => Last(rawLog'[i]) = Last(rawLog[i])
           /\ row.target \in Revision =>
                 /\ ParentHolds(row.target)' <=> ParentHolds(row.target)
                 /\ \A n \in DOMAIN MembersOf[row.target] :
                       Accepted(row.target, n)' <=> Accepted(row.target, n)
                 /\ Selection!Applicable(row.target)' <=> Selection!Applicable(row.target)
<1>1. EffectiveIs(i)
  BY EffectiveAlwaysAre DEF EffectiveAre
<1>2. EffectiveIs(i)'
  <2>1. (SelectionInv => EffectiveAre)'
    BY EffectiveAlwaysAre, PTL
  <2> QED
    BY <2>1 DEF EffectiveAre
<1>3. \A r \in Revision : Standing(r)
  BY StandingAlwaysIs
<1>4. \A r \in Revision : Standing(r)'
  <2>1. (\A r \in Revision : Standing(r))'
    BY StandingAlwaysIs, PTL
  <2> QED
    BY <2>1
<1>5. PICK r, q : r = row.target /\ q = next.target
  OBVIOUS
<1>6. /\ r \notin Revision => EffectiveSource(i) = <<"raw", Last(rawLog[i])>>
      /\ r \in Revision =>
            /\ IntakeOf[r] = i
            /\ Selection!Applicable(r) => EffectiveSource(i) = <<"corrected", r>>
            /\ ~Selection!Applicable(r) => EffectiveSource(i) = <<"nothing", {Unmet(r)}>>
  BY <1>1, <1>5 DEF EffectiveIs
<1>7. /\ q \notin Revision => EffectiveSource(i) = <<"raw", Last(rawLog'[i])>>
      /\ q \in Revision =>
            /\ IntakeOf[q] = i
            /\ Selection!Applicable(q)' => EffectiveSource(i) = <<"corrected", q>>
            /\ ~Selection!Applicable(q)' => EffectiveSource(i) = <<"nothing", {Unmet(q)'}>>
  <2>1. \A answer \in CurrentAnswers(selections', i) :
            /\ answer.target \notin Revision =>
                  EffectiveSource(i)' = <<"raw", Last(rawLog'[i])>>
            /\ answer.target \in Revision =>
                  /\ IntakeOf[answer.target] = i
                  /\ Selection!Applicable(answer.target)' =>
                        EffectiveSource(i)' = <<"corrected", answer.target>>
                  /\ ~Selection!Applicable(answer.target)' =>
                        EffectiveSource(i)' = <<"nothing", {Unmet(answer.target)'}>>
    BY <1>2 DEF EffectiveIs
  <2> QED
    BY <1>5, <2>1
<1>8. CASE r \notin Revision
  <2>1. q \notin Revision
    BY <1>6, <1>7, <1>8
  <2> QED
    BY <1>5, <1>6, <1>7, <1>8, <2>1
<1>9. CASE r \in Revision /\ Selection!Applicable(r)
  <2>1. q = r /\ Selection!Applicable(r)' /\ EffectiveSource(i)[1] = "corrected"
    BY <1>6, <1>7, <1>9
  <2>2. /\ ParentHolds(r) /\ ParentHolds(r)'
        /\ \A n \in DOMAIN MembersOf[r] : Accepted(r, n) /\ Accepted(r, n)'
    BY <1>3, <1>4, <1>9, <2>1 DEF Standing
  <2>3. Last(rawLog'[i]) = Last(rawLog[i])
    BY <1>6, <1>9, <2>2 DEF ParentHolds, Selection!Raw!CurrentlyHolds, Last
  <2> QED
    BY <1>5, <1>9, <2>1, <2>2, <2>3
<1>10. CASE r \in Revision /\ ~Selection!Applicable(r)
  <2>1. /\ q \in Revision /\ ~Selection!Applicable(q)'
        /\ {Unmet(q)'} = {Unmet(r)} /\ EffectiveSource(i)[1] = "nothing"
    BY <1>6, <1>7, <1>10, SMTT(30)
  <2>2. Unmet(q)' = Unmet(r)
    BY <2>1
  <2>3. q = r
    BY <1>3, <1>4, <1>10, <2>1, <2>2 DEF Standing
  <2>4. /\ ParentHolds(r)' <=> ParentHolds(r)
        /\ {n \in DOMAIN MembersOf[r] : ~Accepted(r, n)'}
             = {n \in DOMAIN MembersOf[r] : ~Accepted(r, n)}
    BY <1>3, <1>4, <1>10, <2>2, <2>3 DEF Standing
  <2>5. \A n \in DOMAIN MembersOf[r] : Accepted(r, n)' <=> Accepted(r, n)
    BY <2>4
  <2> QED
    BY <1>5, <1>10, <2>1, <2>3, <2>4, <2>5
<1> QED
  BY <1>8, <1>9, <1>10

-----------------------------------------------------------------------------
(* What a consumer has read stays what it would read now. *)

\* While the authorities stand still, everything that is read of them does.
LEMMA SameMoment ==
    ASSUME UNCHANGED authorities
    PROVE  /\ \A i : EffectiveSource(i)' = EffectiveSource(i)
           /\ \A i : CurrentAnswers(selections', i) = CurrentAnswers(selections, i)
           /\ \A r : ParentHolds(r)' <=> ParentHolds(r)
           /\ \A r, n : Accepted(r, n)' <=> Accepted(r, n)
           /\ \A r : Selection!Applicable(r)' <=> Selection!Applicable(r)
<1>1. /\ rawLog' = rawLog /\ decisionLog' = decisionLog /\ selections' = selections
  BY DEF authorities
<1>2. /\ \A r : ParentHolds(r)' <=> ParentHolds(r)
      /\ \A r, n : Accepted(r, n)' <=> Accepted(r, n)
  BY <1>1 DEF ParentHolds, Accepted, Selection!Raw!CurrentlyHolds,
              Selection!Decision!CurrentlyHolds
<1>3. \A r : Selection!Applicable(r)' <=> Selection!Applicable(r)
  BY <1>1 DEF Selection!Applicable, Selection!Raw!CurrentlyHolds,
              Selection!Decision!CurrentlyHolds
<1>4. \A r : Unmet(r)' = Unmet(r)
  BY <1>1 DEF Unmet, Selection!Raw!CurrentlyHolds, Selection!Decision!CurrentlyHolds
<1>5. \A i : EffectiveSource(i)' = EffectiveSource(i)
  <2> SUFFICES ASSUME NEW i PROVE EffectiveSource(i)' = EffectiveSource(i)
    OBVIOUS
  <2>1. PICK chosen : chosen = CurrentAnswers(selections, i)
    OBVIOUS
  <2>2. {Unmet(row.target)' : row \in chosen} = {Unmet(row.target) : row \in chosen}
    BY <1>4
  <2>3. (\E row \in chosen : row.target \in Revision /\ Selection!Applicable(row.target)')
          <=> (\E row \in chosen : row.target \in Revision
                                   /\ Selection!Applicable(row.target))
    BY <1>3
  <2>4. EffectiveSource(i)'
          = IF rawLog[i] = <<>> THEN NothingEffective(None)
            ELSE IF \E row \in chosen : row = NoRow \/ row.target = RawFallback
            THEN <<"raw", rawLog[i][Len(rawLog[i])]>>
            ELSE IF \E row \in chosen : row.target \in Revision
                                         /\ Selection!Applicable(row.target)'
            THEN <<"corrected", (CHOOSE row \in chosen : TRUE).target>>
            ELSE NothingEffective({Unmet(row.target)' : row \in chosen})
    BY <1>1, <2>1 DEF EffectiveSource
  <2> QED
    BY <2>1, <2>2, <2>3, <2>4 DEF EffectiveSource
<1> QED
  BY <1>1, <1>2, <1>3, <1>5

LEMMA FaithfulKept ==
    ASSUME SelectionInv, SelectionInv', Grown, ConsumptionInv, NEW u \in Consumer,
           consumer'[u] = consumer[u], consumer[u].pc \in Running,
           EffectiveFor(u)' = EffectiveFor(u), Faithful(u)
    PROVE  Faithful(u)'
<1>0. PICK s, i, target : /\ s = consumer[u] /\ i = s.intake
                          /\ target = s.selection.target
  OBVIOUS
<1>1. /\ ReadInv(u) /\ s.pc # "idle" /\ i \in Intake
      /\ s.unread \in Seq(Candidate)
      /\ EffectiveSource(i)' = EffectiveSource(i)
  BY <1>0, ConsumerTypes DEF ConsumptionInv, ReadInv, Running, EffectiveFor
<1>2. CASE s.pc = "raw"
  BY <1>0, <1>2 DEF Faithful, AfterSelection
<1>3. CASE s.pc \in {"selection"} \union AfterSelection
  <2>1. s.raw \in DOMAIN rawLog[i]
    BY <1>0, <1>1, <1>3 DEF ReadInv
  <2>2. /\ s.raw \in DOMAIN rawLog'[i] /\ rawLog'[i][s.raw] = rawLog[i][s.raw]
        /\ rawLog[i] \in Seq(Transcript) /\ rawLog'[i] \in Seq(Transcript)
    BY <1>1, <2>1 DEF Grown, Extends, SelectionInv, SelectionTypeInv
  <2>3. rawLog[i] # <<>> /\ rawLog'[i] # <<>>
    BY <2>1, <2>2
  <2>4. PICK row : CurrentAnswers(selections, i) = {row}
    BY <1>1, OneAnswer
  <2>5. \A next \in CurrentAnswers(selections', i) :
           IF row.target \in Revision THEN next.target = row.target
                                      ELSE next.target \notin Revision
    BY <1>1, <2>3, <2>4, SameEffective
  <2>6. /\ EffectiveSource(i)[1] # "nothing" => Last(rawLog'[i]) = Last(rawLog[i])
        /\ row.target \in Revision =>
              /\ ParentHolds(row.target)' <=> ParentHolds(row.target)
              /\ \A n \in DOMAIN MembersOf[row.target] :
                    Accepted(row.target, n)' <=> Accepted(row.target, n)
              /\ Selection!Applicable(row.target)' <=> Selection!Applicable(row.target)
    <3>1. PICK next : next \in CurrentAnswers(selections', i)
      BY DEF CurrentAnswers
    <3> QED
      BY <1>1, <2>3, <2>4, <3>1, SameEffective
  <2>7. EffectiveSource(i)'[1] # "nothing" => rawLog'[i][s.raw] = Last(rawLog'[i])
    BY <1>0, <1>1, <1>3, <2>2, <2>6 DEF Faithful
  <2>8. s.pc \in AfterSelection =>
           /\ IF target \in Revision THEN row.target = target
                                     ELSE row.target \notin Revision
           /\ \A next \in CurrentAnswers(selections', i) :
                  IF target \in Revision THEN next.target = target
                                         ELSE next.target \notin Revision
    BY <1>0, <2>4, <2>5 DEF Faithful
  <2>9. s.pc = "members" =>
           /\ ParentHolds(target)'
           /\ \A n \in Passed(s.unread, MembersOf[target]) : Accepted(target, n)'
    <3> SUFFICES ASSUME s.pc = "members"
                 PROVE  /\ ParentHolds(target)'
                        /\ \A n \in Passed(s.unread, MembersOf[target]) :
                              Accepted(target, n)'
      OBVIOUS
    <3>1. target \in Revision /\ row.target = target
      BY <1>0, <1>1, <2>8 DEF ReadInv, AfterSelection
    <3>2. /\ ParentHolds(target)
          /\ \A n \in Passed(s.unread, MembersOf[target]) : Accepted(target, n)
      BY <1>0 DEF Faithful
    <3>3. Passed(s.unread, MembersOf[target]) \subseteq DOMAIN MembersOf[target]
      BY <1>1, <3>1, LineageTypes, PassedInside
    <3> QED
      BY <2>6, <3>1, <3>2, <3>3
  <2>10. s.pc \in {"resolved", "persist", "resolve"} /\ target \in Revision =>
            (s.resolution = "corrected" <=> Selection!Applicable(target)')
    BY <1>0, <2>6, <2>8 DEF Faithful, AfterSelection
  <2>11. consumer'[u] = s
    BY <1>0
  <2> QED
    BY <1>0, <2>7, <2>8, <2>9, <2>10, <2>11 DEF Faithful
<1> QED
  BY <1>0, <1>2, <1>3 DEF Running, AfterSelection

\* A call that has not returned has nothing to answer for yet.
LEMMA NothingReturned ==
    ASSUME NEW u \in Consumer, consumer[u].outcome = None
    PROVE  RightSource(u) /\ RightVerdict(u)
BY NoneAssumption DEF RightSource, RightVerdict, Consumed, Outcomes, Verdicts

\* A consumer that does not move, and observes what others do.
LEMMA WitnessKept ==
    ASSUME SelectionInv, SelectionInv', Grown, ConsumptionInv, NEW u \in Consumer,
           WitnessInv(u), consumer'[u] = consumer[u],
           witnessed'[u] = IF consumer[u].pc \in Running
                           THEN witnessed[u] \union {EffectiveFor(u)'} ELSE witnessed[u]
    PROVE  WitnessInv(u)'
<1>1. RightSource(u)' /\ RightVerdict(u)'
  <2>1. CASE consumer[u].pc \in Running
    <3>1. consumer'[u].outcome = None
      BY <2>1 DEF ConsumptionInv, ReadInv, Running
    <3> QED
      BY <3>1, NoneAssumption DEF RightSource, RightVerdict, Consumed, Outcomes, Verdicts
  <2>2. CASE consumer[u].pc \notin Running
    BY <2>2 DEF WitnessInv, RightSource, RightVerdict, Consumed, Consuming
  <2> QED
    BY <2>1, <2>2
<1>2. ASSUME consumer'[u].pc \in Running
      PROVE  /\ EffectiveFor(u)' \in witnessed'[u]
             /\ witnessed'[u] = {EffectiveFor(u)'} => Faithful(u)'
  <2>1. /\ consumer[u].pc \in Running
        /\ EffectiveFor(u) \in witnessed[u]
        /\ witnessed[u] = {EffectiveFor(u)} => Faithful(u)
        /\ witnessed'[u] = witnessed[u] \union {EffectiveFor(u)'}
    BY <1>2 DEF WitnessInv
  <2>2. ASSUME witnessed'[u] = {EffectiveFor(u)'} PROVE Faithful(u)'
    <3>1. EffectiveFor(u)' = EffectiveFor(u) /\ witnessed[u] = {EffectiveFor(u)}
      BY <2>1, <2>2
    <3> QED
      BY <2>1, <3>1, FaithfulKept
  <2> QED
    BY <2>1, <2>2
<1> QED
  BY <1>1, <1>2 DEF WitnessInv

\* A consumer that goes on reading, and finds what it would find later.
LEMMA ContinuesWitness ==
    ASSUME NEW u \in Consumer, WitnessInv(u), consumer[u].pc \in Running,
           UNCHANGED authorities, UNCHANGED witnessed,
           consumer'[u].intake = consumer[u].intake, consumer'[u].outcome = None,
           Faithful(u) => Faithful(u)'
    PROVE  WitnessInv(u)'
<1>1. EffectiveFor(u)' = EffectiveFor(u)
  BY SameMoment DEF EffectiveFor
<1>2. RightSource(u)' /\ RightVerdict(u)'
  BY NoneAssumption DEF RightSource, RightVerdict, Consumed, Outcomes, Verdicts
<1> QED
  BY <1>1, <1>2 DEF WitnessInv

\* A consumer that returns what it would return if it read everything now.
LEMMA ReturnsWitness ==
    ASSUME NEW u \in Consumer, WitnessInv(u), consumer[u].pc \in Running,
           UNCHANGED authorities, UNCHANGED witnessed, consumer'[u].pc \notin Running,
           Faithful(u) /\ Consumed(u)' => consumer'[u].binding.source = EffectiveFor(u),
           Faithful(u) /\ ~Consuming(u)' /\ consumer'[u].outcome \in Verdicts =>
               (consumer'[u].outcome = "current"
                    <=> consumer'[u].asked.source = EffectiveFor(u))
    PROVE  WitnessInv(u)'
<1>1. /\ EffectiveFor(u) \in witnessed[u]
      /\ witnessed[u] = {EffectiveFor(u)} => Faithful(u)
  BY DEF WitnessInv
<1>2. \A source \in witnessed[u] :
         witnessed[u] = {source} => Faithful(u) /\ EffectiveFor(u) = source
  BY <1>1
<1>3. RightSource(u)'
  <2> SUFFICES ASSUME NEW source \in witnessed'[u], Consumed(u)', witnessed'[u] = {source}
               PROVE  consumer'[u].binding.source = source
    BY DEF RightSource
  <2> QED
    BY <1>2
<1>4. RightVerdict(u)'
  <2> SUFFICES ASSUME NEW source \in witnessed'[u], ~Consuming(u)',
                      consumer'[u].outcome \in Verdicts, witnessed'[u] = {source}
               PROVE  consumer'[u].outcome = "current"
                          <=> consumer'[u].asked.source = source
    BY DEF RightVerdict
  <2> QED
    BY <1>2
<1> QED
  BY <1>3, <1>4 DEF WitnessInv

\* A call that starts observes what is effective and has read nothing yet.
LEMMA StartsWitness ==
    ASSUME NEW u \in Consumer, consumer'[u].pc = "raw", consumer'[u].outcome = None,
           witnessed'[u] = witnessed[u] \union {EffectiveFor(u)'}
    PROVE  WitnessInv(u)'
<1>1. Faithful(u)'
  BY DEF Faithful, AfterSelection
<1>2. RightSource(u)' /\ RightVerdict(u)'
  BY NoneAssumption DEF RightSource, RightVerdict, Consumed, Outcomes, Verdicts
<1> QED
  BY <1>1, <1>2 DEF WitnessInv

\* A death returns nothing.
LEMMA DiesWitness ==
    ASSUME NEW u \in Consumer, WitnessInv(u), consumer[u].pc \in Running,
           UNCHANGED authorities, UNCHANGED witnessed, consumer'[u].pc \notin Running,
           ~Consumed(u)', Consuming(u)' \/ consumer'[u].outcome \notin Verdicts
    PROVE  WitnessInv(u)'
BY ReturnsWitness

-----------------------------------------------------------------------------
(* The steps of a consumer, one by one. *)

LEMMA ReadRawIsFaithful ==
    ASSUME SelectionInv, ConsumptionInv, NEW u \in Consumer, WitnessInv(u), ReadRaw(u)
    PROVE  WitnessInv(u)'
<1> DEFINE s == consumer[u]
<1>0. PICK history : history = rawLog[s.intake]
  OBVIOUS
<1>1. /\ s.pc = "raw" /\ s.pc \in Running /\ s.outcome = None
      /\ UNCHANGED authorities /\ UNCHANGED witnessed
      /\ consumer \in [Consumer -> ConsumerState]
  BY ConsumerTypes DEF ReadRaw, ConsumptionInv, ReadInv, Running
<1>2. CASE history = <<>>
  <2>1. Leave(u, "returned", "unresolvable", NoBinding)
    BY <1>0, <1>2 DEF ReadRaw, Return
  <2>2. "unresolvable" \in Outcomes
    BY DEF Outcomes
  <2>3. consumer'[u].pc = "returned" /\ consumer'[u].outcome = "unresolvable"
    BY <2>1, <2>2, ConsumerLeaves DEF ConsumptionInv
  <2> QED
    BY <1>1, <2>3, DiesWitness DEF Running, Consumed, Verdicts
<1>3. CASE history # <<>>
  <2>1. consumer' = [consumer EXCEPT ![u].pc = "selection", ![u].raw = Len(history)]
    BY <1>0, <1>3 DEF ReadRaw
  <2>2. /\ consumer'[u].pc = "selection" /\ consumer'[u].raw = Len(history)
        /\ consumer'[u].intake = s.intake /\ consumer'[u].outcome = s.outcome
    BY <1>1, <2>1 DEF ConsumerState
  <2>3. rawLog' = rawLog
    BY <1>1 DEF authorities
  <2>4. Faithful(u)'
    BY <1>0, <2>2, <2>3 DEF Faithful, AfterSelection, Last
  <2> QED
    BY <1>1, <2>2, <2>4, ContinuesWitness
<1> QED
  BY <1>2, <1>3

LEMMA ReadSelectionIsFaithful ==
    ASSUME SelectionInv, ConsumptionInv, NEW u \in Consumer, WitnessInv(u),
           ReadSelection(u)
    PROVE  WitnessInv(u)'
<1>0. PICK s, i : s = consumer[u] /\ i = s.intake
  OBVIOUS
<1>1. /\ s.pc = "selection" /\ s.pc \in Running /\ s.outcome = None /\ i \in Intake
      /\ UNCHANGED authorities /\ UNCHANGED witnessed
      /\ consumer \in [Consumer -> ConsumerState] /\ s \in ConsumerState
  BY <1>0, ConsumerTypes DEF ReadSelection, ConsumptionInv, ReadInv, Running
<1>2. PICK row \in CurrentAnswers(selections, i) :
         consumer' =
             [consumer EXCEPT
                 ![u].selection = row,
                 ![u].pc = IF row.target \in Revision THEN "reread" ELSE "resolved",
                 ![u].resolution = IF row.target \in Revision THEN None ELSE "raw",
                 ![u].unread =
                     IF row.target \in Revision THEN MembersOf[row.target] ELSE <<>>]
  BY <1>0 DEF ReadSelection
<1>3. PICK pc, target : /\ target = row.target
                        /\ pc = IF target \in Revision THEN "reread" ELSE "resolved"
  OBVIOUS
<1>4. /\ consumer'[u].selection = row /\ consumer'[u].pc = pc
      /\ consumer'[u].raw = s.raw /\ consumer'[u].intake = i
      /\ consumer'[u].outcome = s.outcome
  BY <1>0, <1>1, <1>2, <1>3 DEF ConsumerState
<1>5. CurrentAnswers(selections, i) = {row}
  BY <1>1, OneAnswer
<1>6. /\ EffectiveSource(i)' = EffectiveSource(i)
      /\ CurrentAnswers(selections', i) = {row}
      /\ rawLog' = rawLog
  BY <1>1, <1>5, SameMoment DEF authorities
<1>7. Faithful(u) => Faithful(u)'
  <2> SUFFICES ASSUME Faithful(u) PROVE Faithful(u)'
    OBVIOUS
  <2>1. EffectiveSource(i)[1] # "nothing" => rawLog[i][s.raw] = Last(rawLog[i])
    BY <1>0, <1>1 DEF Faithful
  <2> QED
    BY <1>3, <1>4, <1>6, <2>1 DEF Faithful, AfterSelection
<1> QED
  BY <1>0, <1>1, <1>4, <1>7, ContinuesWitness

\* The revision that a consumer looks at is one of its intake.
LEMMA LookedAt ==
    ASSUME SelectionInv, ConsumptionInv, NEW u \in Consumer,
           consumer[u].pc \in AfterSelection,
           NEW r \in Revision, r = consumer[u].selection.target
    PROVE  IntakeOf[r] = consumer[u].intake
<1>1. consumer[u].selection # NoRow
  BY LineageTypes DEF NoRow
<1>2. consumer[u].selection \in selections /\ consumer[u].selection.scope = consumer[u].intake
  BY <1>1 DEF ConsumptionInv, ReadInv
<1> QED
  BY <1>2 DEF SelectionInv, TableInv

\* A consumer that knows how its revision stands has found out how it stands.
LEMMA ResolvingIsFaithful ==
    ASSUME SelectionInv, ConsumptionInv, NEW u \in Consumer, WitnessInv(u),
           consumer[u].pc \in {"reread", "members"},
           NEW resolution \in {"corrected", "parent_not_current", "not_accepted"},
           Resolved(u, resolution), UNCHANGED authorities, UNCHANGED witnessed,
           NEW target, target = consumer[u].selection.target,
           Faithful(u) => (resolution = "corrected" <=> Selection!Applicable(target))
    PROVE  WitnessInv(u)'
<1>0. PICK s, i : s = consumer[u] /\ i = s.intake
  OBVIOUS
<1>1. /\ consumer'[u].pc = "resolved" /\ consumer'[u].resolution = resolution
      /\ consumer'[u].raw = s.raw /\ consumer'[u].selection = s.selection
      /\ consumer'[u].outcome = s.outcome /\ consumer'[u].intake = i
  BY <1>0, ResolvingEffect
<1>2. s.pc \in Running /\ s.pc \in AfterSelection /\ s.outcome = None
  BY <1>0 DEF ConsumptionInv, ReadInv, Running, AfterSelection
<1>3. /\ EffectiveSource(i)' = EffectiveSource(i) /\ rawLog' = rawLog
      /\ CurrentAnswers(selections', i) = CurrentAnswers(selections, i)
      /\ Selection!Applicable(target)' <=> Selection!Applicable(target)
  BY SameMoment DEF authorities
<1>4. Faithful(u) => Faithful(u)'
  <2> SUFFICES ASSUME Faithful(u) PROVE Faithful(u)'
    OBVIOUS
  <2>1. /\ EffectiveSource(i)[1] # "nothing" => rawLog[i][s.raw] = Last(rawLog[i])
        /\ \A row \in CurrentAnswers(selections, i) :
              IF target \in Revision THEN row.target = target
                                     ELSE row.target \notin Revision
    BY <1>0, <1>2 DEF Faithful
  <2> QED
    BY <1>0, <1>1, <1>3, <2>1 DEF Faithful, AfterSelection
<1> QED
  BY <1>0, <1>1, <1>2, <1>4, ContinuesWitness

LEMMA RereadIsFaithful ==
    ASSUME SelectionInv, ConsumptionInv, NEW u \in Consumer, WitnessInv(u), RereadRaw(u)
    PROVE  WitnessInv(u)'
<1>0. PICK s, i, target : s = consumer[u] /\ i = s.intake /\ target = s.selection.target
  OBVIOUS
<1>1. /\ s.pc = "reread" /\ s.pc \in Running /\ s.pc \in AfterSelection
      /\ s.outcome = None /\ target \in Revision /\ s.unread = MembersOf[target]
      /\ UNCHANGED authorities /\ UNCHANGED witnessed
      /\ consumer \in [Consumer -> ConsumerState] /\ s \in ConsumerState
  BY <1>0, ConsumerTypes
     DEF RereadRaw, ConsumptionInv, ReadInv, Running, AfterSelection
<1>2. IntakeOf[target] = i
  BY <1>0, <1>1, LookedAt
<1>3. Selection!Raw!CurrentlyHolds(i, ParentOf[target]) <=> ParentHolds(target)
  BY <1>2 DEF ParentHolds
<1>4. CASE ParentHolds(target)
  <2>1. consumer' = [consumer EXCEPT ![u].pc = "members"]
    BY <1>0, <1>3, <1>4 DEF RereadRaw
  <2>2. /\ consumer'[u].pc = "members" /\ consumer'[u].raw = s.raw
        /\ consumer'[u].selection = s.selection /\ consumer'[u].unread = s.unread
        /\ consumer'[u].outcome = s.outcome /\ consumer'[u].intake = i
    BY <1>0, <1>1, <2>1 DEF ConsumerState
  <2>3. Passed(s.unread, MembersOf[target]) = {}
    BY <1>1, LineageTypes, AllUnread
  <2>4. /\ EffectiveSource(i)' = EffectiveSource(i) /\ rawLog' = rawLog
        /\ CurrentAnswers(selections', i) = CurrentAnswers(selections, i)
        /\ ParentHolds(target)'
    BY <1>1, <1>4, SameMoment DEF authorities
  <2>5. Faithful(u) => Faithful(u)'
    <3> SUFFICES ASSUME Faithful(u) PROVE Faithful(u)'
      OBVIOUS
    <3>1. /\ EffectiveSource(i)[1] # "nothing" => rawLog[i][s.raw] = Last(rawLog[i])
          /\ \A row \in CurrentAnswers(selections, i) :
                IF target \in Revision THEN row.target = target
                                       ELSE row.target \notin Revision
      BY <1>0, <1>1 DEF Faithful
    <3> QED
      BY <1>0, <2>2, <2>3, <2>4, <3>1 DEF Faithful, AfterSelection
  <2> QED
    BY <1>0, <1>1, <2>2, <2>5, ContinuesWitness
<1>5. CASE ~ParentHolds(target)
  <2>1. Resolved(u, "parent_not_current")
    BY <1>0, <1>3, <1>5 DEF RereadRaw
  <2>2. ~Selection!Applicable(target)
    BY <1>1, <1>5, ApplicableIs
  <2> QED
    BY <1>0, <1>1, <2>1, <2>2, ResolvingIsFaithful
<1> QED
  BY <1>4, <1>5

LEMMA CheckMemberIsFaithful ==
    ASSUME SelectionInv, ConsumptionInv, NEW u \in Consumer, WitnessInv(u), CheckMember(u)
    PROVE  WitnessInv(u)'
<1>0. PICK s, i, target : s = consumer[u] /\ i = s.intake /\ target = s.selection.target
  OBVIOUS
<1>1. /\ s.pc = "members" /\ s.pc \in Running /\ s.pc \in AfterSelection
      /\ s.outcome = None /\ target \in Revision /\ s.unread \in Seq(Candidate)
      /\ UnreadOf(s.unread, MembersOf[target])
      /\ UNCHANGED authorities /\ UNCHANGED witnessed
  BY <1>0, ConsumerTypes
     DEF CheckMember, ConsumptionInv, ReadInv, Running, AfterSelection
<1>2. Faithful(u) =>
         /\ ParentHolds(target)
         /\ \A n \in Passed(s.unread, MembersOf[target]) : Accepted(target, n)
         /\ EffectiveSource(i)[1] # "nothing" => rawLog[i][s.raw] = Last(rawLog[i])
         /\ \A row \in CurrentAnswers(selections, i) :
               IF target \in Revision THEN row.target = target
                                      ELSE row.target \notin Revision
  BY <1>0, <1>1 DEF Faithful
<1>3. CASE s.unread = <<>>
  <2>1. Resolved(u, "corrected")
    BY <1>0, <1>3 DEF CheckMember
  <2>2. Passed(s.unread, MembersOf[target]) = DOMAIN MembersOf[target]
    BY <1>1, <1>3, NoneUnread, LineageTypes
  <2>3. Faithful(u) => Selection!Applicable(target)
    BY <1>1, <1>2, <2>2, ApplicableIs
  <2> QED
    BY <1>0, <1>1, <2>1, <2>3, ResolvingIsFaithful
<1>4. CASE s.unread # <<>> /\ ~Selection!Decision!CurrentlyHolds(Head(s.unread), "accept")
  <2>1. Resolved(u, "not_accepted")
    BY <1>0, <1>4 DEF CheckMember
  <2>2. PICK k \in DOMAIN MembersOf[target] : Head(s.unread) = MembersOf[target][k]
    BY <1>1, <1>4, LineageTypes, NextUnread
  <2>3. ~Selection!Applicable(target)
    BY <1>1, <1>4, <2>2, ApplicableIs DEF Accepted
  <2> QED
    BY <1>0, <1>1, <2>1, <2>3, ResolvingIsFaithful
<1>5. CASE s.unread # <<>> /\ Selection!Decision!CurrentlyHolds(Head(s.unread), "accept")
  <2>1. Passes(u)
    BY <1>0, <1>5 DEF CheckMember, Passes
  <2>2. /\ consumer'[u].pc = "members" /\ consumer'[u].raw = s.raw
        /\ consumer'[u].selection = s.selection
        /\ consumer'[u].outcome = s.outcome /\ consumer'[u].intake = i
        /\ \E k \in DOMAIN MembersOf[target] :
              /\ Head(s.unread) = MembersOf[target][k]
              /\ Passed(consumer'[u].unread, MembersOf[target])
                   = Passed(s.unread, MembersOf[target]) \union {k}
    <3>1. /\ consumer[u].pc = "members" /\ target = consumer[u].selection.target
          /\ consumer[u].unread # <<>>
      BY <1>0, <1>1, <1>5
    <3>2. /\ consumer'[u].pc = "members" /\ consumer'[u].raw = consumer[u].raw
          /\ consumer'[u].selection = consumer[u].selection
          /\ consumer'[u].outcome = consumer[u].outcome
          /\ consumer'[u].intake = consumer[u].intake
          /\ \E k \in DOMAIN MembersOf[target] :
                /\ Head(consumer[u].unread) = MembersOf[target][k]
                /\ Passed(consumer'[u].unread, MembersOf[target])
                     = Passed(consumer[u].unread, MembersOf[target]) \union {k}
      BY <2>1, <3>1, PassingEffect
    <3> QED
      BY <1>0, <3>2
  <2>3. PICK k \in DOMAIN MembersOf[target] :
           /\ Head(s.unread) = MembersOf[target][k]
           /\ Passed(consumer'[u].unread, MembersOf[target])
                = Passed(s.unread, MembersOf[target]) \union {k}
    BY <2>2
  <2>4. Accepted(target, k)
    BY <1>5, <2>3 DEF Accepted
  <2>5. /\ EffectiveSource(i)' = EffectiveSource(i) /\ rawLog' = rawLog
        /\ CurrentAnswers(selections', i) = CurrentAnswers(selections, i)
        /\ ParentHolds(target)' <=> ParentHolds(target)
        /\ \A n : Accepted(target, n)' <=> Accepted(target, n)
    BY <1>1, SameMoment DEF authorities
  <2>6. Faithful(u) => Faithful(u)'
    <3> SUFFICES ASSUME Faithful(u) PROVE Faithful(u)'
      OBVIOUS
    <3>1. \A n \in Passed(consumer'[u].unread, MembersOf[target]) : Accepted(target, n)'
      BY <1>2, <2>3, <2>4, <2>5
    <3> QED
      BY <1>0, <1>2, <2>2, <2>5, <3>1 DEF Faithful, AfterSelection
  <2> QED
    BY <1>0, <1>1, <2>2, <2>6, ContinuesWitness
<1> QED
  BY <1>3, <1>4, <1>5

\* What a faithful reading says of the effective source, in its three cases.
LEMMA FaithfulCases ==
    ASSUME SelectionInv, ConsumptionInv, NEW u \in Consumer, Faithful(u),
           consumer[u].pc \in {"resolved", "persist", "resolve"},
           NEW target, target = consumer[u].selection.target
    PROVE  /\ target \notin Revision =>
                 /\ consumer[u].resolution = "raw"
                 /\ EffectiveFor(u) = <<"raw", ResolvedRaw(u)>>
           /\ target \in Revision /\ consumer[u].resolution = "corrected" =>
                 EffectiveFor(u) = <<"corrected", target>>
           /\ target \in Revision /\ consumer[u].resolution # "corrected" =>
                 /\ EffectiveFor(u)[1] = "nothing"
                 /\ consumer[u].resolution \in {"parent_not_current", "not_accepted"}
<1>0. PICK s, i : s = consumer[u] /\ i = s.intake
  OBVIOUS
<1>1. ReadInv(u) /\ s.pc \in AfterSelection
  BY <1>0 DEF ConsumptionInv, AfterSelection
<1>2. /\ i \in Intake /\ s.raw \in DOMAIN rawLog[i]
      /\ IF target \in Revision
         THEN s.resolution \in {"corrected", "parent_not_current", "not_accepted"}
         ELSE s.resolution = "raw"
  BY <1>0, <1>1 DEF ReadInv, AfterSelection
<1>3. rawLog[i] \in Seq(Transcript) /\ rawLog[i] # <<>>
  BY <1>2 DEF SelectionInv, SelectionTypeInv
<1>4. PICK row : row \in CurrentAnswers(selections, i)
  BY DEF CurrentAnswers
<1>5. /\ EffectiveSource(i)[1] # "nothing" => rawLog[i][s.raw] = Last(rawLog[i])
      /\ IF target \in Revision THEN row.target = target ELSE row.target \notin Revision
  BY <1>0, <1>1, <1>4 DEF Faithful
<1>6. target \in Revision => (s.resolution = "corrected" <=> Selection!Applicable(target))
  BY <1>0 DEF Faithful
<1>7. /\ row.target \notin Revision => EffectiveSource(i) = <<"raw", Last(rawLog[i])>>
      /\ row.target \in Revision /\ Selection!Applicable(row.target) =>
            EffectiveSource(i) = <<"corrected", row.target>>
      /\ row.target \in Revision /\ ~Selection!Applicable(row.target) =>
            EffectiveSource(i) = <<"nothing", {Unmet(row.target)}>>
  BY <1>2, <1>3, <1>4, EffectiveCases
<1>8. ResolvedRaw(u) = rawLog[i][s.raw] /\ EffectiveFor(u) = EffectiveSource(i)
  BY <1>0 DEF ResolvedRaw, EffectiveFor
<1>9. CASE target \notin Revision
  <2>1. EffectiveSource(i) = <<"raw", Last(rawLog[i])>> /\ EffectiveSource(i)[1] # "nothing"
    BY <1>5, <1>7, <1>9
  <2> QED
    BY <1>0, <1>2, <1>5, <1>8, <1>9, <2>1
<1>10. CASE target \in Revision
  <2>1. row.target = target
    BY <1>5, <1>10
  <2>2. CASE s.resolution = "corrected"
    BY <1>0, <1>6, <1>7, <1>8, <1>10, <2>1, <2>2
  <2>3. CASE s.resolution # "corrected"
    <3>1. EffectiveSource(i) = <<"nothing", {Unmet(target)}>>
      BY <1>6, <1>7, <1>10, <2>1, <2>3
    <3>2. EffectiveSource(i)[1] = "nothing"
      BY <3>1
    <3>3. s.resolution \in {"parent_not_current", "not_accepted"}
      BY <1>2, <1>10, <2>3
    <3> QED
      BY <1>0, <1>8, <1>10, <2>3, <3>2, <3>3
  <2> QED
    BY <2>2, <2>3
<1> QED
  BY <1>9, <1>10

\* A source that is about to be bound is the effective one.
LEMMA NewSourceIs ==
    ASSUME SelectionInv, ConsumptionInv, NEW u \in Consumer, Faithful(u),
           consumer[u].pc \in {"resolved", "persist", "resolve"}, ~Refused(u)
    PROVE  NewBinding(u).source = EffectiveFor(u)
<1>0. PICK target, t, resolution :
         /\ target = consumer[u].selection.target
         /\ t = ResolvedRaw(u) /\ resolution = consumer[u].resolution
  OBVIOUS
<1>1. NewBinding(u).source = IF resolution = "corrected" THEN <<"corrected", target>>
                                                         ELSE <<"raw", t>>
  BY <1>0 DEF NewBinding
<1>2. resolution \notin {"parent_not_current", "not_accepted"}
  BY <1>0 DEF Refused
<1>3. CASE target \in Revision
  <2>1. resolution = "corrected" /\ EffectiveFor(u) = <<"corrected", target>>
    BY <1>0, <1>2, <1>3, FaithfulCases
  <2> QED
    BY <1>1, <2>1
<1>4. CASE target \notin Revision
  <2>1. resolution = "raw" /\ EffectiveFor(u) = <<"raw", t>>
    BY <1>0, <1>4, FaithfulCases
  <2> QED
    BY <1>1, <2>1
<1> QED
  BY <1>3, <1>4

\* A verdict is "current" exactly for the effective source.
LEMMA VerdictIsRight ==
    ASSUME SelectionInv, ConsumptionInv, NEW u \in Consumer, Faithful(u),
           consumer[u].pc = "resolved", ~Consuming(u)
    PROVE  Verdict(consumer[u].asked, consumer[u].resolution,
                   consumer[u].selection.target, ResolvedRaw(u)) = "current"
               <=> consumer[u].asked.source = EffectiveFor(u)
<1>0. PICK b, target, t, resolution :
         /\ b = consumer[u].asked /\ target = consumer[u].selection.target
         /\ t = ResolvedRaw(u) /\ resolution = consumer[u].resolution
  OBVIOUS
<1>1. \/ b.source = <<"raw", b.parent>>
      \/ \E r \in Revision : b.source = <<"corrected", r>>
  <2>1. b \in consumptions
    BY <1>0 DEF ConsumptionInv, ReadInv, Consuming
  <2> QED
    BY <2>1 DEF ConsumptionInv, BindingRight, FromRaw, FromRevision
<1>2. CASE target \notin Revision
  <2>1. resolution = "raw" /\ EffectiveFor(u) = <<"raw", t>>
    BY <1>0, <1>2, FaithfulCases
  <2>2. Verdict(b, resolution, target, t)
          = IF b.source[1] # "raw" THEN "selection_changed"
            ELSE IF b.parent = t THEN "current" ELSE "raw_changed"
    BY <2>1 DEF Verdict
  <2> QED
    BY <1>0, <1>1, <2>1, <2>2
<1>3. CASE target \in Revision /\ resolution = "corrected"
  <2>1. EffectiveFor(u) = <<"corrected", target>>
    BY <1>0, <1>3, FaithfulCases
  <2>2. Verdict(b, resolution, target, t)
          = IF b.source = <<"corrected", target>> THEN "current" ELSE "selection_changed"
    BY <1>3 DEF Verdict
  <2> QED
    BY <1>0, <2>1, <2>2
<1>4. CASE target \in Revision /\ resolution # "corrected"
  <2>1. /\ EffectiveFor(u)[1] = "nothing"
        /\ resolution \in {"parent_not_current", "not_accepted"}
    BY <1>0, <1>4, FaithfulCases
  <2>2. Verdict(b, resolution, target, t) # "current"
    BY <2>1 DEF Verdict
  <2>3. b.source[1] # "nothing"
    BY <1>1
  <2> QED
    BY <1>0, <2>1, <2>2, <2>3
<1> QED
  BY <1>2, <1>3, <1>4

LEMMA RefuseIsFaithful ==
    ASSUME SelectionInv, ConsumptionInv, NEW u \in Consumer, WitnessInv(u), Refuse(u)
    PROVE  WitnessInv(u)'
<1>1. /\ consumer[u].pc = "resolved" /\ consumer[u].asked = NoBinding
      /\ UNCHANGED authorities /\ UNCHANGED witnessed
  BY DEF Refuse, Consuming
<1>2. PICK outcome \in {"inapplicable", "retry"} : Leave(u, "returned", outcome, NoBinding)
  BY DEF Refuse, Return
<1>3. outcome \in Outcomes
  BY DEF Outcomes, Verdicts
<1>4. /\ consumer'[u].pc = "returned" /\ consumer'[u].outcome = outcome
      /\ consumer'[u].asked = NoBinding
  BY <1>1, <1>2, <1>3, ConsumerLeaves DEF ConsumptionInv
<1> QED
  BY <1>1, <1>4, DiesWitness DEF Running, Consumed, Consuming

\* A call that consumes a binding of the source it resolved.
LEMMA ConsumesFaithfully ==
    ASSUME SelectionInv, ConsumptionInv, NEW u \in Consumer, WitnessInv(u),
           consumer[u].pc \in {"resolved", "persist", "resolve"}, ~Refused(u),
           UNCHANGED authorities, UNCHANGED witnessed,
           NEW outcome \in {"created", "reused"}, NEW b \in Binding,
           b.source = NewBinding(u).source, Leave(u, "returned", outcome, b)
    PROVE  WitnessInv(u)'
<1>1. outcome \in Outcomes /\ outcome \notin Verdicts
  BY DEF Outcomes, Verdicts
<1>2. /\ consumer'[u].pc = "returned" /\ consumer'[u].outcome = outcome
      /\ consumer'[u].binding = b
  BY <1>1, ConsumerLeaves DEF ConsumptionInv
<1>3. Faithful(u) => consumer'[u].binding.source = EffectiveFor(u)
  BY <1>2, NewSourceIs
<1>4. consumer[u].pc \in Running /\ consumer'[u].pc \notin Running
  BY <1>2 DEF Running
<1> QED
  BY <1>1, <1>2, <1>3, <1>4, ReturnsWitness

\* A call that moves on to the insert, or to the read after a collision.
LEMMA MovesFaithfully ==
    ASSUME SelectionInv, ConsumptionInv, NEW u \in Consumer, WitnessInv(u),
           consumer[u].pc \in {"resolved", "persist"},
           UNCHANGED authorities, UNCHANGED witnessed,
           NEW pc \in {"persist", "resolve"},
           consumer' = [consumer EXCEPT ![u].pc = pc]
    PROVE  WitnessInv(u)'
<1>0. PICK s, i, target : s = consumer[u] /\ i = s.intake /\ target = s.selection.target
  OBVIOUS
<1>1. /\ consumer'[u].pc = pc /\ consumer'[u].raw = s.raw
      /\ consumer'[u].selection = s.selection /\ consumer'[u].resolution = s.resolution
      /\ consumer'[u].outcome = s.outcome /\ consumer'[u].intake = i
  BY <1>0, MovingEffect DEF Running
<1>2. s.pc \in Running /\ s.outcome = None
  BY <1>0 DEF ConsumptionInv, ReadInv, Running
<1>3. /\ EffectiveSource(i)' = EffectiveSource(i) /\ rawLog' = rawLog
      /\ CurrentAnswers(selections', i) = CurrentAnswers(selections, i)
      /\ Selection!Applicable(target)' <=> Selection!Applicable(target)
  BY SameMoment DEF authorities
<1>4. Faithful(u) => Faithful(u)'
  <2> SUFFICES ASSUME Faithful(u) PROVE Faithful(u)'
    OBVIOUS
  <2>1. /\ EffectiveSource(i)[1] # "nothing" => rawLog[i][s.raw] = Last(rawLog[i])
        /\ \A row \in CurrentAnswers(selections, i) :
              IF target \in Revision THEN row.target = target
                                     ELSE row.target \notin Revision
        /\ target \in Revision => (s.resolution = "corrected" <=> Selection!Applicable(target))
    BY <1>0 DEF Faithful, AfterSelection
  <2> QED
    BY <1>0, <1>1, <1>3, <2>1 DEF Faithful, AfterSelection
<1> QED
  BY <1>0, <1>1, <1>2, <1>4, ContinuesWitness

\* The steps of a call after it has resolved the source.
LEMMA LateStepsAreFaithful ==
    ASSUME SelectionInv, ConsumptionInv, NEW u \in Consumer, WitnessInv(u),
           \/ Acquire(u) \/ Persist(u) \/ PersistCollides(u) \/ PersistFails(u)
           \/ Resolve(u) \/ Judge(u) \/ Kill(u)
    PROVE  WitnessInv(u)'
<1>0. /\ UNCHANGED witnessed
      /\ UNCHANGED authorities
  BY DEF Acquire, Persist, PersistCollides, PersistFails, Resolve, Judge, Kill
<1>1. ASSUME NEW b \in SameBinding(u)
      PROVE  b \in Binding /\ b.source = NewBinding(u).source
  BY DEF SameBinding, ConsumptionInv, ConsumptionTypeInv
<1>2. CASE Acquire(u)
  <2>1. consumer[u].pc = "resolved" /\ ~Refused(u)
    BY <1>2 DEF Acquire
  <2>2. CASE consumer' = [consumer EXCEPT ![u].pc = "persist"]
    BY <1>0, <2>1, <2>2, MovesFaithfully
  <2>3. ASSUME NEW b \in SameBinding(u), Leave(u, "returned", "reused", b)
        PROVE  WitnessInv(u)'
    BY <1>0, <1>1, <2>1, <2>3, ConsumesFaithfully
  <2> QED
    BY <1>2, <2>2, <2>3 DEF Acquire, Return
<1>3. CASE Persist(u)
  <2>1. consumer[u].pc = "persist"
    BY <1>3 DEF Persist
  <2>2. ~Refused(u)
    BY <2>1 DEF ConsumptionInv, ReadInv
  <2>3. PICK new : new = NewBinding(u)
    OBVIOUS
  <2>4. new \in Binding
    BY <2>1, <2>3, NewBindingRight
  <2>5. Leave(u, "returned", "created", new)
    BY <1>3, <2>3 DEF Persist, Return
  <2> QED
    BY <1>0, <2>1, <2>2, <2>3, <2>4, <2>5, ConsumesFaithfully
<1>4. CASE PersistCollides(u)
  BY <1>0, <1>4, MovesFaithfully DEF PersistCollides
<1>5. CASE PersistFails(u)
  <2>1. consumer[u].pc = "persist" /\ Leave(u, "returned", "error", NoBinding)
    BY <1>5 DEF PersistFails, Return
  <2>2. "error" \in Outcomes
    BY DEF Outcomes
  <2>3. consumer'[u].pc = "returned" /\ consumer'[u].outcome = "error"
    BY <2>1, <2>2, ConsumerLeaves DEF ConsumptionInv
  <2> QED
    BY <1>0, <2>1, <2>3, DiesWitness DEF Running, Consumed, Verdicts
<1>6. CASE Resolve(u)
  <2>1. consumer[u].pc = "resolve"
    BY <1>6 DEF Resolve
  <2>2. ~Refused(u)
    BY <2>1 DEF ConsumptionInv, ReadInv
  <2>3. PICK b \in SameBinding(u) : Leave(u, "returned", "reused", b)
    BY <1>6 DEF Resolve, Return
  <2> QED
    BY <1>0, <1>1, <2>1, <2>2, <2>3, ConsumesFaithfully
<1>7. CASE Judge(u)
  <2>1. PICK verdict : verdict = Verdict(consumer[u].asked, consumer[u].resolution,
                                         consumer[u].selection.target, ResolvedRaw(u))
    OBVIOUS
  <2>2. /\ consumer[u].pc = "resolved" /\ ~Consuming(u)
        /\ Leave(u, "returned", verdict, consumer[u].asked)
    BY <1>7, <2>1 DEF Judge, Return
  <2>3. verdict \in Verdicts /\ verdict \in Outcomes
    BY <2>1, VerdictType DEF Outcomes
  <2>4. consumer[u].asked \in Binding \union {NoBinding}
    BY ConsumerTypes DEF ConsumptionInv
  <2>5. /\ consumer'[u].pc = "returned" /\ consumer'[u].outcome = verdict
        /\ consumer'[u].asked = consumer[u].asked
    BY <2>2, <2>3, <2>4, ConsumerLeaves DEF ConsumptionInv
  <2>6. Faithful(u) => (verdict = "current" <=> consumer[u].asked.source = EffectiveFor(u))
    BY <2>1, <2>2, VerdictIsRight
  <2>7. ~Consumed(u)'
    BY <2>3, <2>5 DEF Consumed, Verdicts
  <2>8. consumer[u].pc \in Running /\ consumer'[u].pc \notin Running
    BY <2>2, <2>5 DEF Running
  <2> QED
    BY <1>0, <2>5, <2>6, <2>7, <2>8, ReturnsWitness
<1>8. CASE Kill(u)
  <2>1. consumer[u].pc \in Running /\ Leave(u, "killed", None, NoBinding)
    BY <1>8 DEF Kill
  <2>2. consumer'[u].pc = "killed" /\ consumer'[u].outcome = None
    BY <2>1, ConsumerLeaves DEF ConsumptionInv
  <2>3. ~Consumed(u)' /\ None \notin Verdicts
    BY <2>2, NoneAssumption DEF Consumed, Outcomes
  <2> QED
    BY <1>0, <2>1, <2>2, <2>3, DiesWitness DEF Running
<1> QED
  BY <1>2, <1>3, <1>4, <1>5, <1>6, <1>7, <1>8

\* A consumer's own step keeps what it has witnessed in line with what it reads.
LEMMA OwnStepIsFaithful ==
    ASSUME SelectionInv, ConsumptionInv, NEW u \in Consumer, WitnessInv(u), ConsumerStep(u)
    PROVE  WitnessInv(u)'
<1>1. ASSUME \/ \E i \in Intake : Consume(u, i)
             \/ \E b \in consumptions : AskCurrentness(u, b)
      PROVE  WitnessInv(u)'
  <2>1. /\ consumer[u] = NotStarted /\ consumer \in [Consumer -> ConsumerState]
        /\ consumer[u] \in ConsumerState
    BY <1>1, ConsumerTypes DEF Consume, AskCurrentness, ConsumptionInv, ReadInv
  <2>2. consumer[u].outcome = None
    BY <2>1 DEF NotStarted
  <2>3. consumer'[u].pc = "raw" /\ consumer'[u].outcome = None
    <3>1. CASE \E i \in Intake : Consume(u, i)
      <4>1. PICK i \in Intake : consumer' = [consumer EXCEPT ![u].pc = "raw", ![u].intake = i]
        BY <3>1 DEF Consume
      <4> QED
        BY <2>1, <2>2, <4>1 DEF ConsumerState
    <3>2. CASE \E b \in consumptions : AskCurrentness(u, b)
      <4>1. PICK b \in consumptions :
               consumer' = [consumer EXCEPT ![u].pc = "raw", ![u].asked = b,
                                            ![u].intake = b.intake]
        BY <3>2 DEF AskCurrentness
      <4> QED
        BY <2>1, <2>2, <4>1 DEF ConsumerState
    <3> QED
      BY <1>1, <3>1, <3>2
  <2>4. Observe
    BY <1>1 DEF Consume, AskCurrentness
  <2>5. witnessed'[u] = witnessed[u] \union {EffectiveFor(u)'}
    BY <2>3, <2>4 DEF Observe, Running
  <2> QED
    BY <2>3, <2>5, StartsWitness
<1> QED
  BY <1>1, ReadRawIsFaithful, ReadSelectionIsFaithful, RereadIsFaithful,
     CheckMemberIsFaithful, RefuseIsFaithful, LateStepsAreFaithful DEF ConsumerStep

\* A consumer's step touches no other consumer.
LEMMA OthersStay ==
    ASSUME ConsumptionInv, NEW u \in Consumer, ConsumerStep(u), NEW v \in Consumer \ {u}
    PROVE  /\ consumer'[v] = consumer[v]
           /\ \/ witnessed' = witnessed
              \/ Observe
BY DEF ConsumptionInv, ConsumptionTypeInv, ConsumerStep, Consume, AskCurrentness, ReadRaw,
       ReadSelection, RereadRaw, CheckMember, Refuse, Acquire, Persist, PersistCollides,
       PersistFails, Resolve, Judge, Kill, Return, Leave, Resolved

\* Every step keeps what consumers have witnessed in line with what they read.
LEMMA WitnessingKept ==
    ASSUME SelectionInv, ConsumptionInv, Witnessing, [Next]_vars
    PROVE  Witnessing'
<1>0. SelectionInv' /\ Grown
  BY AuthoritiesKept
<1>1. CASE AuthorityStep
  <2> SUFFICES ASSUME NEW u \in Consumer PROVE WitnessInv(u)'
    BY DEF Witnessing
  <2>1. /\ consumer' = consumer
        /\ witnessed'[u] = IF consumer[u].pc \in Running
                           THEN witnessed[u] \union {EffectiveFor(u)'} ELSE witnessed[u]
    BY <1>1 DEF AuthorityStep, Observe
  <2> QED
    BY <1>0, <2>1, WitnessKept DEF Witnessing
<1>2. ASSUME NEW u \in Consumer, ConsumerStep(u) PROVE Witnessing'
  <2> SUFFICES ASSUME NEW v \in Consumer PROVE WitnessInv(v)'
    BY DEF Witnessing
  <2>1. CASE v = u
    BY <1>2, <2>1, OwnStepIsFaithful DEF Witnessing
  <2>2. CASE v # u
    <3>1. consumer'[v] = consumer[v]
      BY <1>2, <2>2, OthersStay
    <3>2. witnessed' = witnessed \/ Observe
      BY <1>2, <2>2, OthersStay
    <3>3. EffectiveFor(v)' = EffectiveFor(v)
      BY <1>2, <3>1, ConsumerStepsLeaveAuthorities, SameMoment DEF EffectiveFor
    <3>4. consumer[v].pc \in Running => EffectiveFor(v) \in witnessed[v]
      BY DEF Witnessing, WitnessInv
    <3>5. witnessed'[v] = IF consumer[v].pc \in Running
                          THEN witnessed[v] \union {EffectiveFor(v)'} ELSE witnessed[v]
      BY <3>1, <3>2, <3>3, <3>4 DEF Observe
    <3> QED
      BY <1>0, <3>1, <3>5, WitnessKept DEF Witnessing
  <2> QED
    BY <2>1, <2>2
<1>3. CASE UNCHANGED vars
  <2> SUFFICES ASSUME NEW u \in Consumer PROVE WitnessInv(u)'
    BY DEF Witnessing
  <2>1. consumer' = consumer /\ witnessed' = witnessed /\ UNCHANGED authorities
    BY <1>3 DEF vars
  <2>2. EffectiveFor(u)' = EffectiveFor(u)
    BY <2>1, SameMoment DEF EffectiveFor
  <2>3. consumer[u].pc \in Running => EffectiveFor(u) \in witnessed[u]
    BY DEF Witnessing, WitnessInv
  <2>4. witnessed'[u] = IF consumer[u].pc \in Running
                        THEN witnessed[u] \union {EffectiveFor(u)'} ELSE witnessed[u]
    BY <2>1, <2>2, <2>3
  <2> QED
    BY <1>0, <2>1, <2>4, WitnessKept DEF Witnessing
<1> QED
  BY <1>1, <1>2, <1>3 DEF Next

\* While one answer is effective during a whole call, what the consumer has read
\* at different moments is what it would read now, and what it returned is what
\* it would have returned had it read everything at once.
THEOREM WitnessingHolds == Spec => []Witnessing
<1>1. Init => Witnessing
  <2> SUFFICES ASSUME Init, NEW u \in Consumer PROVE WitnessInv(u)
    BY DEF Witnessing
  <2>1. consumer[u].pc = "idle" /\ witnessed[u] = {}
    BY DEF Init, NotStarted
  <2> QED
    BY <2>1 DEF WitnessInv, Running, RightSource, RightVerdict
<1>2. SelectionInv /\ ConsumptionInv /\ Witnessing /\ [Next]_vars => Witnessing'
  BY WitnessingKept
<1> QED
  BY <1>1, <1>2, AuthoritiesHold, ConsumptionHolds, PTL DEF Spec

\* While one source stays effective during a whole call, the call consumes that
\* source; while none is, for one and the same reason, it consumes nothing.
THEOREM StableSourceIsConsumedHolds == Spec => []StableSourceIsConsumed
<1>1. Witnessing => StableSourceIsConsumed
  BY DEF Witnessing, WitnessInv, RightSource, StableSourceIsConsumed
<1> QED
  BY <1>1, WitnessingHolds, PTL

\* While what is effective, or why nothing is, stays the same during a query, the
\* query answers "current" exactly if the bound source is the effective one.
THEOREM StableVerdictIsRightHolds == Spec => []StableVerdictIsRight
<1>1. Witnessing => StableVerdictIsRight
  BY DEF Witnessing, WitnessInv, RightVerdict, StableVerdictIsRight
<1> QED
  BY <1>1, WitnessingHolds, PTL
=============================================================================

----------------------- MODULE RevisionGenerationProofs -----------------------
(***************************************************************************)
(* Proofs about RevisionGeneration, for any intakes, candidates, requests  *)
(* and commands.  The authorities a command reads are logs that other      *)
(* processes extend between any two of its reads, so everything a command  *)
(* remembers is stated as an entry of a log, which an extension keeps,     *)
(* and never as what is current.                                           *)
(***************************************************************************)
EXTENDS RevisionGeneration, FiniteSetTheorems, SequenceTheorems, TLAPS

Lineages == {"text", "timing", "composition"}

CommandState ==
    [pc : Running \union {"idle", "returned", "killed"}, request : Request \union {<<>>},
     decisions : Seq(Nat), outcome : Outcomes \union {None}]

Generation ==
    [lineage : Lineages, anchor : SUBSET (Candidate \X Nat), parent : Transcript]

TypeInv ==
    /\ rawLog \in [Intake -> Seq(Transcript)]
    /\ decisionLog \in [Candidate -> Seq(Decidable)]
    /\ generations \subseteq Generation
    /\ command \in [Command -> CommandState]
    /\ start \in [Command -> [raw : [Intake -> Nat], decision : [Candidate -> Nat]]]

\* A member with the recorded acceptance that authorizes it.
Authorized(k, n) ==
    k \in Candidate /\ n \in DOMAIN decisionLog[k] /\ decisionLog[k][n] = "accept"

\* A revision corrects the source of its members by their acceptances; timing
\* members are of different segments, other members of the same.
GenerationInv(g) ==
    /\ \A m \in g.anchor : Authorized(m[1], m[2]) /\ SourceOf[m[1]] = g.parent
    /\ \A m, other \in g.anchor : m # other =>
          IF g.lineage = "timing" THEN SegmentOf[m[1]] # SegmentOf[other[1]]
                                  ELSE SegmentOf[m[1]] = SegmentOf[other[1]]

\* What a command has read so far: an acceptance of each of the first members,
\* none older than the last decision there was when it started.
ReadInv(c) ==
    /\ Len(command[c].decisions) <= Len(command[c].request)
    /\ \A n \in DOMAIN command[c].decisions :
          /\ Authorized(Member(c, n), command[c].decisions[n])
          /\ start[c].decision[Member(c, n)] <= command[c].decisions[n]
          /\ Fits(c, Member(c, n))

Complete(c) ==
    command[c].request \in Request /\ Len(command[c].decisions) = Len(command[c].request)

\* The source was selected at some moment since the command started.
SourceSeen(c) ==
    \E n \in DOMAIN rawLog[IntakeOf[Member(c, 1)]] :
        /\ start[c].raw[IntakeOf[Member(c, 1)]] <= n
        /\ rawLog[IntakeOf[Member(c, 1)]][n] = SourceOf[Member(c, 1)]

StartInv(c) ==
    /\ \A i \in Intake : start[c].raw[i] <= Len(rawLog[i])
    /\ \A k \in Candidate : start[c].decision[k] <= Len(decisionLog[k])

AfterDecisions == {"raw", "lookup", "persist", "resolve"}
AfterSource == {"lookup", "persist", "resolve"}

CallInv(c) ==
    /\ command[c].pc = "idle" => command[c] = NotStarted
    /\ command[c].pc # "returned" => command[c].outcome = None
    /\ StartInv(c)
    /\ ReadInv(c)
    /\ command[c].pc = "decision" =>
          /\ command[c].request \in Request
          /\ Len(command[c].decisions) < Len(command[c].request)
    /\ command[c].pc \in AfterDecisions => Complete(c)
    /\ command[c].pc \in AfterSource => SourceSeen(c) /\ Combines(command[c].request)
    /\ command[c].pc = "resolve" => Exists(c)
    /\ Succeeded(c) => Complete(c) /\ SourceSeen(c) /\ Exists(c)
    /\ command[c].outcome # "collision"

Inv ==
    /\ TypeInv
    /\ \A g \in generations : GenerationInv(g)
    /\ \A c \in Command : CallInv(c)
    /\ OneCreatorPerAnchor

-----------------------------------------------------------------------------
(* Growing logs. *)

\* One log of a family is no longer than another and agrees with it as far as
\* it goes.
Extension(old, new) ==
    /\ Len(old) <= Len(new)
    /\ \A n \in DOMAIN old : n \in DOMAIN new /\ new[n] = old[n]

\* All that a command can notice of the others: logs are extended, and
\* generations added.
Grown ==
    /\ \A i \in Intake : Extension(rawLog[i], rawLog'[i])
    /\ \A k \in Candidate : Extension(decisionLog[k], decisionLog'[k])
    /\ generations \subseteq generations'

\* A step of an authority register.
Appended(old, new, s, t) == new = [old EXCEPT ![s] = Append(@, t)]

LEMMA AppendExtends ==
    ASSUME NEW S, NEW T, NEW log \in [S -> Seq(T)], NEW s \in S, NEW t \in T,
           NEW new, Appended(log, new, s, t)
    PROVE  /\ new \in [S -> Seq(T)]
           /\ \A x \in S : Extension(log[x], new[x])
<1>1. log[s] \in Seq(T) /\ Append(log[s], t) \in Seq(T)
  OBVIOUS
<1>2. new \in [S -> Seq(T)]
  BY <1>1 DEF Appended
<1>3. Extension(log[s], Append(log[s], t))
  BY <1>1 DEF Extension
<1>4. ASSUME NEW x \in S PROVE Extension(log[x], new[x])
  <2>1. CASE x = s
    BY <1>3, <2>1 DEF Appended
  <2>2. CASE x # s
    <3>1. log[x] \in Seq(T) /\ new[x] = log[x]
      BY <2>2 DEF Appended
    <3> QED
      BY <3>1 DEF Extension
  <2> QED
    BY <2>1, <2>2
<1> QED
  BY <1>2, <1>4

LEMMA SameExtends ==
    ASSUME NEW S, NEW T, NEW log \in [S -> Seq(T)], NEW x \in S
    PROVE  Extension(log[x], log[x])
<1>1. log[x] \in Seq(T)
  OBVIOUS
<1> QED
  BY <1>1 DEF Extension

\* What the logs record stays recorded.
LEMMA AuthorizedStays ==
    ASSUME Grown, NEW k, NEW n, Authorized(k, n)
    PROVE  Authorized(k, n)'
BY DEF Grown, Extension, Authorized

LEMMA GenerationKept ==
    ASSUME Grown, NEW g, GenerationInv(g)
    PROVE  GenerationInv(g)'
BY AuthorizedStays DEF GenerationInv

\* A request names at least one candidate, each at most once.
LEMMA RequestType ==
    ASSUME NEW request \in Request
    PROVE  /\ request \in Seq(Candidate) /\ Len(request) \in Nat /\ 1 <= Len(request)
           /\ DOMAIN request = 1 .. Len(request)
           /\ \A n \in DOMAIN request : request[n] \in Candidate
           /\ \A m, n \in DOMAIN request : request[m] = request[n] => m = n
<1>1. /\ request \in Seq(Candidate)
      /\ request # <<>>
      /\ Cardinality({request[n] : n \in DOMAIN request}) = Len(request)
  BY RequestAssumption DEF WellFormed
<1> DEFINE S == 1 .. Len(request)
           T == {request[n] : n \in DOMAIN request}
<1>2. /\ Len(request) \in Nat \ {0} /\ DOMAIN request = S
      /\ request \in [S -> Candidate]
  BY <1>1, EmptySeq, LenProperties
<1>3. \A n \in DOMAIN request : request[n] \in Candidate
  BY <1>2
<1>4. 1 <= Len(request)
  BY <1>2
<1>5. Cardinality(S) = Len(request) /\ IsFiniteSet(S)
  <2> DEFINE m == Len(request)
  <2>1. m \in Nat \ {0}
    BY <1>2
  <2> HIDE DEF m
  <2>2. IsFiniteSet(1 .. m) /\ Cardinality(1 .. m) = m
    BY <2>1, FS_Interval
  <2> QED
    BY <2>2 DEF m
<1>6. Cardinality(T) = Len(request)
  BY <1>1
<1>7. request \in Surjection(S, T)
  BY <1>2 DEF Surjection
<1> HIDE DEF S, T
<1>8. request \in Injection(S, T)
  BY <1>5, <1>6, <1>7, FS_SurjSameCardinalityImpliesInj
<1>9. \A m, n \in DOMAIN request : request[m] = request[n] => m = n
  BY <1>2, <1>8 DEF Injection, IsInjective
<1> QED
  BY <1>1, <1>2, <1>3, <1>4, <1>9 DEF S

LEMMA FirstMember ==
    ASSUME NEW c \in Command, command[c].request \in Request
    PROVE  /\ Member(c, 1) \in Candidate
           /\ IntakeOf[Member(c, 1)] \in Intake
           /\ SourceOf[Member(c, 1)] \in Transcript
<1>1. Member(c, 1) \in Candidate
  <2>1. 1 \in DOMAIN command[c].request
    BY RequestType
  <2> QED
    BY <2>1, RequestType DEF Member
<1> QED
  BY <1>1, CandidateAssumption

\* What a command has read stays right while it keeps it.
LEMMA ReadingKept ==
    ASSUME TypeInv, TypeInv', Grown, NEW d \in Command, CallInv(d),
           command'[d].request = command[d].request,
           command'[d].decisions = command[d].decisions,
           start'[d] = start[d]
    PROVE  /\ ReadInv(d)' /\ StartInv(d)'
           /\ Complete(d) => Complete(d)'
           /\ Complete(d) /\ SourceSeen(d) => SourceSeen(d)'
           /\ Exists(d) => Exists(d)'
<1> USE DEF Member
<1>1. ReadInv(d)'
  BY AuthorizedStays DEF CallInv, ReadInv, Fits, Base
<1>2. StartInv(d)'
  <2>1. ASSUME NEW i \in Intake PROVE start[d].raw[i] <= Len(rawLog'[i])
    <3>1. /\ start[d].raw[i] \in Nat /\ Len(rawLog[i]) \in Nat /\ Len(rawLog'[i]) \in Nat
      BY DEF TypeInv
    <3> QED
      BY <3>1 DEF CallInv, StartInv, Grown, Extension
  <2>2. ASSUME NEW k \in Candidate PROVE start[d].decision[k] <= Len(decisionLog'[k])
    <3>1. /\ start[d].decision[k] \in Nat
          /\ Len(decisionLog[k]) \in Nat /\ Len(decisionLog'[k]) \in Nat
      BY DEF TypeInv
    <3> QED
      BY <3>1 DEF CallInv, StartInv, Grown, Extension
  <2> QED
    BY <2>1, <2>2 DEF StartInv
<1>3. Complete(d) => Complete(d)'
  BY DEF Complete
<1>4. Complete(d) /\ SourceSeen(d) => SourceSeen(d)'
  <2> SUFFICES ASSUME Complete(d), SourceSeen(d) PROVE SourceSeen(d)'
    OBVIOUS
  <2>1. IntakeOf[Member(d, 1)] \in Intake
    BY FirstMember DEF Complete
  <2>2. PICK n \in DOMAIN rawLog[IntakeOf[Member(d, 1)]] :
           /\ start[d].raw[IntakeOf[Member(d, 1)]] <= n
           /\ rawLog[IntakeOf[Member(d, 1)]][n] = SourceOf[Member(d, 1)]
    BY DEF SourceSeen
  <2>3. /\ n \in DOMAIN rawLog'[IntakeOf[Member(d, 1)]]
        /\ rawLog'[IntakeOf[Member(d, 1)]][n] = SourceOf[Member(d, 1)]
    BY <2>1, <2>2 DEF Grown, Extension
  <2>4. start'[d] = start[d] /\ Member(d, 1)' = Member(d, 1)
    OBVIOUS
  <2> QED
    BY <2>2, <2>3, <2>4 DEF SourceSeen
<1>5. Exists(d) => Exists(d)'
  BY DEF Exists, Anchor, Grown
<1> QED
  BY <1>1, <1>2, <1>3, <1>4, <1>5

\* A command that does not move stays right.
LEMMA CallKept ==
    ASSUME TypeInv, TypeInv', Grown, NEW d \in Command, CallInv(d),
           command'[d] = command[d], start'[d] = start[d]
    PROVE  CallInv(d)'
<1>1. /\ ReadInv(d)' /\ StartInv(d)'
      /\ Complete(d) => Complete(d)'
      /\ Complete(d) /\ SourceSeen(d) => SourceSeen(d)'
      /\ Exists(d) => Exists(d)'
  BY ReadingKept
<1>2. Succeeded(d)' = Succeeded(d)
  BY DEF Succeeded
<1>3. command[d].pc \in AfterSource => command[d].pc \in AfterDecisions
  BY DEF AfterSource, AfterDecisions
<1> QED
  BY <1>1, <1>2, <1>3 DEF CallInv

-----------------------------------------------------------------------------
(* What the steps do to a command's local state. *)

LEMMA ReturnEffect ==
    ASSUME TypeInv, NEW c \in Command, NEW outcome \in Outcomes, Return(c, outcome)
    PROVE  /\ command' \in [Command -> CommandState]
           /\ \A d \in Command \ {c} : command'[d] = command[d]
           /\ command'[c].pc = "returned" /\ command'[c].outcome = outcome
           /\ command'[c].request = command[c].request
           /\ command'[c].decisions = command[c].decisions
<1>1. command \in [Command -> CommandState] /\ command[c] \in CommandState
  BY DEF TypeInv
<1>2. command'[c] = [command[c] EXCEPT !.pc = "returned", !.outcome = outcome]
  BY <1>1 DEF Return
<1>3. /\ command'[c] \in CommandState
      /\ command'[c].pc = "returned" /\ command'[c].outcome = outcome
      /\ command'[c].request = command[c].request
      /\ command'[c].decisions = command[c].decisions
  BY <1>1, <1>2 DEF CommandState
<1> QED
  BY <1>1, <1>3 DEF Return

LEMMA GotoEffect ==
    ASSUME TypeInv, NEW c \in Command, NEW pc \in Running, Goto(c, pc)
    PROVE  /\ command' \in [Command -> CommandState]
           /\ \A d \in Command \ {c} : command'[d] = command[d]
           /\ command'[c].pc = pc /\ command'[c].outcome = command[c].outcome
           /\ command'[c].request = command[c].request
           /\ command'[c].decisions = command[c].decisions
<1>1. command \in [Command -> CommandState] /\ command[c] \in CommandState
  BY DEF TypeInv
<1>2. command'[c] = [command[c] EXCEPT !.pc = pc]
  BY <1>1 DEF Goto
<1>3. /\ command'[c] \in CommandState
      /\ command'[c].pc = pc /\ command'[c].outcome = command[c].outcome
      /\ command'[c].request = command[c].request
      /\ command'[c].decisions = command[c].decisions
  BY <1>1, <1>2 DEF CommandState
<1> QED
  BY <1>1, <1>3 DEF Goto

LEMMA NothingGrows ==
    ASSUME TypeInv, UNCHANGED <<rawLog, decisionLog, generations>>
    PROVE  Grown
BY SameExtends DEF TypeInv, Grown

\* A command's step that creates nothing has only its own bookkeeping to keep
\* right.
LEMMA LocalStep ==
    ASSUME Inv, TypeInv', NEW c \in Command,
           \A d \in Command \ {c} : command'[d] = command[d] /\ start'[d] = start[d],
           command'[c].outcome # "created",
           UNCHANGED <<rawLog, decisionLog, generations>>,
           CallInv(c)'
    PROVE  Inv'
<1>1. Grown
  BY NothingGrows DEF Inv
<1>2. \A g \in generations' : GenerationInv(g)'
  BY <1>1, GenerationKept DEF Inv
<1>3. \A d \in Command : CallInv(d)'
  BY <1>1, CallKept DEF Inv
<1>4. OneCreatorPerAnchor'
  BY DEF Inv, OneCreatorPerAnchor, NewGeneration, Anchor, Member
<1> QED
  BY <1>2, <1>3, <1>4 DEF Inv

\* The same for a step that keeps what the command has read, with the part of
\* its bookkeeping that such a step can disturb.
LEMMA ReadingStep ==
    ASSUME Inv, NEW c \in Command,
           command' \in [Command -> CommandState],
           \A d \in Command \ {c} : command'[d] = command[d],
           command'[c].request = command[c].request,
           command'[c].decisions = command[c].decisions,
           command'[c].outcome \notin {"created", "collision"},
           command'[c].pc \notin {"idle", "decision"},
           command'[c].pc # "returned" => command'[c].outcome = None,
           UNCHANGED <<rawLog, decisionLog, generations, start>>,
           command'[c].pc \in AfterDecisions => Complete(c),
           command'[c].pc \in AfterSource \/ command'[c].outcome = "reused"
              => Complete(c) /\ SourceSeen(c),
           command'[c].pc \in AfterSource => Combines(command[c].request),
           command'[c].pc = "resolve" \/ command'[c].outcome = "reused" => Exists(c)
    PROVE  Inv'
<1>1. TypeInv /\ TypeInv' /\ CallInv(c)
  BY DEF Inv, TypeInv
<1>2. Grown
  BY <1>1, NothingGrows
<1>3. /\ ReadInv(c)' /\ StartInv(c)'
      /\ Complete(c) => Complete(c)'
      /\ Complete(c) /\ SourceSeen(c) => SourceSeen(c)'
      /\ Exists(c) => Exists(c)'
  BY <1>1, <1>2, ReadingKept
<1>4. CallInv(c)'
  BY <1>3 DEF CallInv, Succeeded
<1> QED
  BY <1>1, <1>4, LocalStep

-----------------------------------------------------------------------------
(* The steps. *)

LEMMA GrowthKeeps ==
    ASSUME Inv, TypeInv', Grown, UNCHANGED <<generations, command, start>>
    PROVE  Inv'
<1>1. \A g \in generations' : GenerationInv(g)'
  BY GenerationKept DEF Inv
<1>2. \A d \in Command : CallInv(d)'
  BY CallKept DEF Inv
<1>3. OneCreatorPerAnchor'
  BY DEF Inv, OneCreatorPerAnchor, NewGeneration, Anchor, Member
<1> QED
  BY <1>1, <1>2, <1>3 DEF Inv

LEMMA SelectRawKeeps ==
    ASSUME Inv, NEW i \in Intake, NEW t \in Transcript, SelectRaw(i, t)
    PROVE  Inv'
<1>1. /\ Appended(rawLog, rawLog', i, t)
      /\ UNCHANGED <<decisionLog, generations, command, start>>
  BY DEF SelectRaw, Raw!Take, Appended
<1>2. /\ rawLog' \in [Intake -> Seq(Transcript)]
      /\ \A x \in Intake : Extension(rawLog[x], rawLog'[x])
  BY <1>1, AppendExtends DEF Inv, TypeInv
<1>3. TypeInv' /\ Grown
  BY <1>1, <1>2, SameExtends DEF Inv, TypeInv, Grown
<1> QED
  BY <1>1, <1>3, GrowthKeeps

LEMMA DecideKeeps ==
    ASSUME Inv, NEW k \in Candidate, NEW kind \in Decidable, Decide(k, kind)
    PROVE  Inv'
<1>1. /\ Appended(decisionLog, decisionLog', k, kind)
      /\ UNCHANGED <<rawLog, generations, command, start>>
      /\ decisionLog \in [Candidate -> Seq(Decidable)]
  BY DEF Decide, Decision!Take, Appended, Inv, TypeInv
<1>2. /\ decisionLog' \in [Candidate -> Seq(Decidable)]
      /\ \A x \in Candidate : Extension(decisionLog[x], decisionLog'[x])
  BY <1>1, AppendExtends
<1>3. TypeInv' /\ Grown
  BY <1>1, <1>2, SameExtends DEF Inv, TypeInv, Grown
<1> QED
  BY <1>1, <1>3, GrowthKeeps

LEMMA LengthsType ==
    ASSUME TypeInv
    PROVE  /\ Lengths \in [raw : [Intake -> Nat], decision : [Candidate -> Nat]]
           /\ \A i \in Intake : Lengths.raw[i] = Len(rawLog[i]) /\ Len(rawLog[i]) \in Nat
           /\ \A k \in Candidate : /\ Lengths.decision[k] = Len(decisionLog[k])
                                   /\ Len(decisionLog[k]) \in Nat
BY DEF TypeInv, Lengths

LEMMA InvokeKeeps ==
    ASSUME Inv, NEW c \in Command, NEW request \in Request, Invoke(c, request)
    PROVE  Inv'
<1>1. /\ TypeInv /\ CallInv(c) /\ command[c] = NotStarted
      /\ command \in [Command -> CommandState]
      /\ UNCHANGED <<rawLog, decisionLog, generations>>
      /\ start' = [start EXCEPT ![c] = Lengths]
  BY DEF Invoke, Inv, CallInv, TypeInv
<1>2. command'[c] = [command[c] EXCEPT !.pc = "decision", !.request = request]
  BY <1>1 DEF Invoke
<1>3. command'[c] = [NotStarted EXCEPT !.pc = "decision", !.request = request]
  BY <1>1, <1>2
<1>4. <<>> \in Seq(Nat)
  BY EmptySeq
<1>5. /\ command'[c] \in CommandState
      /\ command'[c].pc = "decision" /\ command'[c].request = request
      /\ command'[c].decisions = <<>> /\ command'[c].outcome = None
  BY <1>3, <1>4 DEF NotStarted, CommandState, Running
<1>6. /\ command' \in [Command -> CommandState]
      /\ \A d \in Command \ {c} : command'[d] = command[d] /\ start'[d] = start[d]
      /\ start'[c] = Lengths
      /\ start' \in [Command -> [raw : [Intake -> Nat], decision : [Candidate -> Nat]]]
  BY <1>1, <1>5, LengthsType DEF Invoke, TypeInv
<1>7. TypeInv'
  BY <1>1, <1>6 DEF TypeInv
<1>8. Len(<<>>) = 0 /\ DOMAIN <<>> = {} /\ Len(request) \in Nat /\ 1 <= Len(request)
  BY RequestType
<1>9. ReadInv(c)' /\ StartInv(c)'
  BY <1>1, <1>5, <1>6, <1>8, LengthsType DEF ReadInv, StartInv
<1>10. CallInv(c)'
  BY <1>5, <1>8, <1>9, NoneAssumption
     DEF CallInv, AfterDecisions, AfterSource, Succeeded, Outcomes
<1>11. command'[c].outcome # "created"
  BY <1>5, NoneAssumption DEF Outcomes
<1> QED
  BY <1>1, <1>6, <1>7, <1>10, <1>11, LocalStep

LEMMA KillKeeps ==
    ASSUME Inv, NEW c \in Command, Kill(c)
    PROVE  Inv'
<1>1. /\ TypeInv /\ CallInv(c) /\ command \in [Command -> CommandState]
      /\ UNCHANGED <<rawLog, decisionLog, generations, start>>
  BY DEF Kill, Inv, TypeInv
<1>2. command'[c] = [NotStarted EXCEPT !.pc = "killed"]
  BY <1>1 DEF Kill
<1>3. <<>> \in Seq(Nat)
  BY EmptySeq
<1>4. /\ command'[c] \in CommandState
      /\ command'[c].pc = "killed" /\ command'[c].request = <<>>
      /\ command'[c].decisions = <<>> /\ command'[c].outcome = None
  BY <1>2, <1>3 DEF NotStarted, CommandState
<1>5. /\ command' \in [Command -> CommandState]
      /\ \A d \in Command \ {c} : command'[d] = command[d] /\ start'[d] = start[d]
  BY <1>1, <1>4 DEF Kill
<1>6. TypeInv'
  BY <1>1, <1>5 DEF TypeInv
<1>7. Len(<<>>) = 0 /\ DOMAIN <<>> = {}
  OBVIOUS
<1>8. ReadInv(c)' /\ StartInv(c)'
  BY <1>1, <1>4, <1>7 DEF CallInv, ReadInv, StartInv
<1>9. CallInv(c)' /\ command'[c].outcome # "created"
  BY <1>4, <1>8, NoneAssumption
     DEF CallInv, AfterDecisions, AfterSource, Succeeded, Outcomes
<1> QED
  BY <1>1, <1>5, <1>6, <1>9, LocalStep

LEMMA PersistIsStaleKeeps ==
    ASSUME Inv, NEW c \in Command, PersistIsStale(c) \/ PersistFails(c)
    PROVE  Inv'
<1>1. PICK outcome \in {"stale", "error"} : Return(c, outcome)
  BY DEF PersistIsStale, PersistFails
<1>2. /\ command' \in [Command -> CommandState]
      /\ \A d \in Command \ {c} : command'[d] = command[d]
      /\ command'[c].pc = "returned" /\ command'[c].outcome = outcome
      /\ command'[c].request = command[c].request
      /\ command'[c].decisions = command[c].decisions
  BY <1>1, ReturnEffect DEF Inv, Outcomes
<1> QED
  BY <1>2, ReadingStep DEF PersistIsStale, PersistFails, AfterDecisions, AfterSource

LEMMA PersistCollidesKeeps ==
    ASSUME Inv, NEW c \in Command, PersistCollides(c)
    PROVE  Inv'
<1>1. /\ command' \in [Command -> CommandState]
      /\ \A d \in Command \ {c} : command'[d] = command[d]
      /\ command'[c].pc = "resolve" /\ command'[c].outcome = command[c].outcome
      /\ command'[c].request = command[c].request
      /\ command'[c].decisions = command[c].decisions
  BY GotoEffect DEF PersistCollides, Inv, Running
<1>2. /\ Complete(c) /\ SourceSeen(c) /\ Combines(command[c].request)
      /\ command[c].outcome = None /\ Exists(c)
      /\ UNCHANGED <<rawLog, decisionLog, generations, start>>
  BY DEF PersistCollides, Inv, CallInv, AfterDecisions, AfterSource
<1> QED
  BY <1>1, <1>2, ReadingStep, NoneAssumption DEF Outcomes

LEMMA ResolveKeeps ==
    ASSUME Inv, NEW c \in Command, Resolve(c)
    PROVE  Inv'
<1>1. /\ Complete(c) /\ SourceSeen(c) /\ Exists(c)
      /\ Return(c, "reused")
      /\ UNCHANGED <<rawLog, decisionLog, generations, start>>
  BY DEF Resolve, Inv, CallInv, AfterDecisions, AfterSource
<1>2. /\ command' \in [Command -> CommandState]
      /\ \A d \in Command \ {c} : command'[d] = command[d]
      /\ command'[c].pc = "returned" /\ command'[c].outcome = "reused"
      /\ command'[c].request = command[c].request
      /\ command'[c].decisions = command[c].decisions
  BY <1>1, ReturnEffect DEF Inv, Outcomes
<1> QED
  BY <1>1, <1>2, ReadingStep DEF AfterDecisions, AfterSource

LEMMA LookupExistingKeeps ==
    ASSUME Inv, NEW c \in Command, LookupExisting(c)
    PROVE  Inv'
<1>1. /\ TypeInv /\ Complete(c) /\ SourceSeen(c) /\ Combines(command[c].request)
      /\ command[c].outcome = None
      /\ UNCHANGED <<rawLog, decisionLog, generations, start>>
  BY DEF LookupExisting, Inv, CallInv, AfterDecisions, AfterSource
<1>2. CASE Exists(c)
  <2>1. /\ command' \in [Command -> CommandState]
        /\ \A d \in Command \ {c} : command'[d] = command[d]
        /\ command'[c].pc = "returned" /\ command'[c].outcome = "reused"
        /\ command'[c].request = command[c].request
        /\ command'[c].decisions = command[c].decisions
    BY <1>1, <1>2, ReturnEffect DEF LookupExisting, Outcomes
  <2> QED
    BY <1>1, <1>2, <2>1, ReadingStep DEF AfterDecisions, AfterSource
<1>3. CASE ~Exists(c)
  <2>1. /\ command' \in [Command -> CommandState]
        /\ \A d \in Command \ {c} : command'[d] = command[d]
        /\ command'[c].pc = "persist" /\ command'[c].outcome = command[c].outcome
        /\ command'[c].request = command[c].request
        /\ command'[c].decisions = command[c].decisions
    BY <1>1, <1>3, GotoEffect DEF LookupExisting, Running
  <2> QED
    BY <1>1, <2>1, ReadingStep, NoneAssumption DEF Outcomes
<1> QED
  BY <1>2, <1>3

\* The source is the selected one at this very moment.
LEMMA ReadRawSelectionKeeps ==
    ASSUME Inv, NEW c \in Command, ReadRawSelection(c)
    PROVE  Inv'
<1>1. /\ TypeInv /\ CallInv(c) /\ Complete(c) /\ command[c].outcome = None
      /\ UNCHANGED <<rawLog, decisionLog, generations, start>>
  BY DEF ReadRawSelection, Inv, CallInv, AfterDecisions
<1>2. CASE SourceIsCurrent(c) /\ Combines(command[c].request)
  <2>1. /\ command' \in [Command -> CommandState]
        /\ \A d \in Command \ {c} : command'[d] = command[d]
        /\ command'[c].pc = "lookup" /\ command'[c].outcome = command[c].outcome
        /\ command'[c].request = command[c].request
        /\ command'[c].decisions = command[c].decisions
    BY <1>1, <1>2, GotoEffect DEF ReadRawSelection, Running
  <2> DEFINE i == IntakeOf[Member(c, 1)]
  <2>2. i \in Intake
    BY <1>1, FirstMember DEF Complete
  <2>3. /\ rawLog[i] \in Seq(Transcript) /\ rawLog[i] # <<>>
        /\ rawLog[i][Len(rawLog[i])] = SourceOf[Member(c, 1)]
        /\ start[c].raw[i] <= Len(rawLog[i])
    BY <1>1, <1>2, <2>2 DEF SourceIsCurrent, Raw!CurrentlyHolds, TypeInv, CallInv, StartInv
  <2>4. Len(rawLog[i]) \in DOMAIN rawLog[i]
    BY <2>3, EmptySeq, LenProperties
  <2>5. SourceSeen(c)
    BY <2>3, <2>4 DEF SourceSeen
  <2> QED
    BY <1>1, <1>2, <2>1, <2>5, ReadingStep, NoneAssumption DEF Outcomes
<1>3. CASE ~(SourceIsCurrent(c) /\ Combines(command[c].request))
  <2>1. /\ command' \in [Command -> CommandState]
        /\ \A d \in Command \ {c} : command'[d] = command[d]
        /\ command'[c].pc = "returned" /\ command'[c].outcome = "not_applicable"
        /\ command'[c].request = command[c].request
        /\ command'[c].decisions = command[c].decisions
    BY <1>1, <1>3, ReturnEffect DEF ReadRawSelection, Outcomes
  <2> QED
    BY <1>1, <2>1, ReadingStep DEF AfterDecisions, AfterSource
<1> QED
  BY <1>2, <1>3

\* The next acceptance read is the last record of its candidate, so not older
\* than the ones there were at the start.
LEMMA ReadDecisionKeeps ==
    ASSUME Inv, NEW c \in Command, ReadDecision(c)
    PROVE  Inv'
<1> DEFINE request == command[c].request
           read == command[c].decisions
           k == NextMember(c)
           n == Len(read) + 1
<1>1. /\ TypeInv /\ CallInv(c) /\ ReadInv(c) /\ StartInv(c)
      /\ command \in [Command -> CommandState] /\ command[c] \in CommandState
      /\ command[c].pc = "decision" /\ command[c].outcome = None
      /\ request \in Request /\ Len(read) < Len(request)
      /\ UNCHANGED <<rawLog, decisionLog, generations, start>>
  BY DEF ReadDecision, Inv, TypeInv, CallInv
<1>2. read \in Seq(Nat) /\ Len(read) \in Nat /\ DOMAIN read = 1 .. Len(read)
  BY <1>1, LenProperties DEF CommandState
<1>3. /\ Len(request) \in Nat /\ DOMAIN request = 1 .. Len(request)
      /\ \A m \in DOMAIN request : request[m] \in Candidate
  BY <1>1, RequestType
<1>4. n \in DOMAIN request /\ k = request[n] /\ k \in Candidate
  BY <1>1, <1>2, <1>3 DEF NextMember, Member
<1>5. decisionLog[k] \in Seq(Decidable) /\ Len(decisionLog[k]) \in Nat
  BY <1>1, <1>4, LenProperties DEF TypeInv
<1> DEFINE next == Append(read, Len(decisionLog[k]))
<1>6. /\ next \in Seq(Nat) /\ Len(next) = n /\ DOMAIN next = 1 .. n
      /\ next[n] = Len(decisionLog[k])
      /\ \A m \in 1 .. Len(read) : next[m] = read[m]
  BY <1>2, <1>5
<1>7. ASSUME NEW outcome \in {"not_accepted", "not_applicable"}, Return(c, outcome)
      PROVE  Inv'
  <2>1. /\ command' \in [Command -> CommandState]
        /\ \A d \in Command \ {c} : command'[d] = command[d]
        /\ command'[c].pc = "returned" /\ command'[c].outcome = outcome
        /\ command'[c].request = command[c].request
        /\ command'[c].decisions = command[c].decisions
    BY <1>1, <1>7, ReturnEffect DEF Outcomes
  <2> QED
    BY <1>1, <2>1, ReadingStep DEF AfterDecisions, AfterSource
<1>8. CASE /\ Decision!CurrentlyHolds(k, "accept") /\ Fits(c, k)
           /\ command' = [command EXCEPT
                 ![c].decisions = next,
                 ![c].pc = IF Len(next) = Len(request) THEN "raw" ELSE @]
  <2> DEFINE pc == IF n = Len(request) THEN "raw" ELSE "decision"
  <2>1. command'[c] = [command[c] EXCEPT !.decisions = next, !.pc = pc]
    BY <1>1, <1>6, <1>8
  <2>2. pc \in {"raw", "decision"} /\ pc \in Running
    BY DEF Running
  <2> HIDE DEF next, pc
  <2>3. /\ command'[c] \in CommandState
        /\ command'[c].pc = pc /\ command'[c].decisions = next
        /\ command'[c].request = request /\ command'[c].outcome = None
    BY <1>1, <1>6, <2>1, <2>2 DEF CommandState
  <2>4. /\ command' \in [Command -> CommandState]
        /\ \A d \in Command \ {c} : command'[d] = command[d] /\ start'[d] = start[d]
    BY <1>1, <1>8, <2>3
  <2>5. TypeInv'
    BY <1>1, <2>4 DEF TypeInv
  <2>6. /\ Authorized(k, Len(decisionLog[k]))
        /\ start[c].decision[k] <= Len(decisionLog[k])
    <3>1. decisionLog[k] # <<>> /\ decisionLog[k][Len(decisionLog[k])] = "accept"
      BY <1>8 DEF Decision!CurrentlyHolds
    <3>2. Len(decisionLog[k]) \in DOMAIN decisionLog[k]
      BY <1>5, <3>1, EmptySeq, LenProperties
    <3> QED
      BY <1>1, <1>4, <3>1, <3>2 DEF Authorized, StartInv
  <2>7. ASSUME NEW m \in 1 .. n
        PROVE  /\ Authorized(request[m], next[m])
               /\ start[c].decision[request[m]] <= next[m]
               /\ Fits(c, request[m])
    <3>1. CASE m = n
      BY <1>4, <1>6, <1>8, <2>6, <3>1
    <3>2. CASE m # n
      <4>1. m \in 1 .. Len(read)
        BY <1>2, <3>2
      <4> QED
        BY <1>1, <1>2, <1>6, <4>1 DEF ReadInv, Member
    <3> QED
      BY <3>1, <3>2
  <2>8. n <= Len(request)
    BY <1>1, <1>2, <1>3
  <2>9. ReadInv(c)'
    BY <1>1, <1>6, <2>3, <2>7, <2>8 DEF ReadInv, Member, Fits, Authorized
  <2>10. StartInv(c)'
    BY <1>1 DEF StartInv
  <2>11. pc = "raw" => n = Len(request)
    BY DEF pc
  <2>12. pc = "decision" => n < Len(request)
    BY <1>2, <1>3, <2>8 DEF pc
  <2>13. CallInv(c)' /\ command'[c].outcome # "created"
    BY <1>1, <1>6, <2>2, <2>3, <2>9, <2>10, <2>11, <2>12, NoneAssumption
       DEF CallInv, AfterDecisions, AfterSource, Succeeded, Outcomes, Complete
  <2> QED
    BY <1>1, <2>4, <2>5, <2>13, LocalStep
<1>9. \/ \E outcome \in {"not_accepted", "not_applicable"} : Return(c, outcome)
      \/ /\ Decision!CurrentlyHolds(k, "accept") /\ Fits(c, k)
         /\ command' = [command EXCEPT
               ![c].decisions = next,
               ![c].pc = IF Len(next) = Len(request) THEN "raw" ELSE @]
  BY DEF ReadDecision
<1> QED
  BY <1>7, <1>8, <1>9

LEMMA LineageType ==
    ASSUME NEW request \in Request
    PROVE  /\ Lineage(request) \in Lineages
           /\ Lineage(request) = "text" => Len(request) = 1
BY DEF Lineage, Lineages

\* What a command is about to record is a well-formed revision.
LEMMA NewGenerationIsRight ==
    ASSUME Inv, NEW c \in Command, Complete(c), Combines(command[c].request)
    PROVE  NewGeneration(c) \in Generation /\ GenerationInv(NewGeneration(c))
<1> DEFINE request == command[c].request
           read == command[c].decisions
           g == NewGeneration(c)
<1>1. /\ TypeInv /\ ReadInv(c) /\ request \in Request /\ Len(read) = Len(request)
      /\ read \in Seq(Nat) /\ DOMAIN read = 1 .. Len(read)
      /\ SourceOf[Member(c, 1)] \in Transcript
  BY FirstMember, LenProperties DEF Inv, TypeInv, CallInv, Complete, CommandState
<1>2. /\ Len(request) \in Nat /\ DOMAIN request = 1 .. Len(request)
      /\ \A n \in DOMAIN request : request[n] \in Candidate
      /\ \A m, n \in DOMAIN request : request[m] = request[n] => m = n
  BY <1>1, RequestType
<1>3. DOMAIN read = DOMAIN request
  BY <1>1, <1>2
<1>4. \A m \in Anchor(c) : \E n \in DOMAIN request : m = <<request[n], read[n]>>
  BY <1>3 DEF Anchor, Member
<1>5. \A n \in DOMAIN request :
         /\ read[n] \in Nat /\ Authorized(request[n], read[n])
         /\ Fits(c, request[n])
  BY <1>1, <1>3 DEF ReadInv, Member
<1>6. /\ g.lineage = Lineage(request) /\ g.anchor = Anchor(c)
      /\ g.parent = SourceOf[Member(c, 1)]
  BY DEF NewGeneration
<1>7. g \in Generation
  <2>1. Anchor(c) \subseteq Candidate \X Nat
    BY <1>2, <1>4, <1>5
  <2> QED
    BY <1>1, <2>1, LineageType DEF NewGeneration, Generation
<1>8. ASSUME NEW m \in Anchor(c)
      PROVE  Authorized(m[1], m[2]) /\ SourceOf[m[1]] = SourceOf[Member(c, 1)]
  <2>1. PICK n \in DOMAIN request : m = <<request[n], read[n]>>
    BY <1>4
  <2> QED
    BY <1>5, <2>1 DEF Fits, Base
<1>9. ASSUME NEW m \in Anchor(c), NEW other \in Anchor(c), m # other
      PROVE  IF Lineage(request) = "timing" THEN SegmentOf[m[1]] # SegmentOf[other[1]]
                                            ELSE SegmentOf[m[1]] = SegmentOf[other[1]]
  <2>1. PICK n \in DOMAIN request : m = <<request[n], read[n]>>
    BY <1>4
  <2>2. PICK l \in DOMAIN request : other = <<request[l], read[l]>>
    BY <1>4
  <2>3. n # l /\ m[1] = request[n] /\ other[1] = request[l] /\ m[1] # other[1]
    BY <1>2, <1>9, <2>1, <2>2
  <2>4. CASE Lineage(request) = "timing"
    BY <2>3, <2>4 DEF Combines, Members
  <2>5. CASE Lineage(request) = "text"
    <3>1. Len(request) = 1
      BY <1>1, <2>5, LineageType
    <3>2. n = 1 /\ l = 1
      BY <1>2, <3>1
    <3> QED
      BY <2>3, <3>2
  <2>6. CASE Lineage(request) = "composition"
    BY <1>5, <2>3, <2>6 DEF Fits
  <2> QED
    BY <1>1, <2>4, <2>5, <2>6, LineageType DEF Lineages
<1> HIDE DEF g
<1>10. GenerationInv(g)
  BY <1>6, <1>8, <1>9 DEF GenerationInv
<1> QED
  BY <1>7, <1>10 DEF g

\* The insert is refused if the anchor is on record, so nobody else can have
\* created the revision it adds.
LEMMA PersistKeeps ==
    ASSUME Inv, NEW c \in Command, Persist(c)
    PROVE  Inv'
<1>1. /\ TypeInv /\ CallInv(c) /\ Complete(c) /\ SourceSeen(c)
      /\ Combines(command[c].request)
      /\ ~Exists(c) /\ Return(c, "created")
      /\ generations' = generations \union {NewGeneration(c)}
      /\ UNCHANGED <<rawLog, decisionLog, start>>
  BY DEF Persist, Inv, CallInv, AfterDecisions, AfterSource
<1>2. /\ command' \in [Command -> CommandState]
      /\ \A d \in Command \ {c} : command'[d] = command[d]
      /\ command'[c].pc = "returned" /\ command'[c].outcome = "created"
      /\ command'[c].request = command[c].request
      /\ command'[c].decisions = command[c].decisions
  BY <1>1, ReturnEffect DEF Outcomes
<1>3. NewGeneration(c) \in Generation /\ GenerationInv(NewGeneration(c))
  BY <1>1, NewGenerationIsRight
<1>4. TypeInv' /\ Grown
  BY <1>1, <1>2, <1>3, SameExtends DEF TypeInv, Grown
<1>5. \A g \in generations' : GenerationInv(g)'
  BY <1>1, <1>3, <1>4, GenerationKept DEF Inv
<1>6. \A d \in Command : NewGeneration(d)' = NewGeneration(d)
  BY <1>1, <1>2 DEF NewGeneration, Anchor, Member
<1>7. /\ ReadInv(c)' /\ StartInv(c)' /\ Complete(c)' /\ SourceSeen(c)'
  BY <1>1, <1>2, <1>4, ReadingKept
<1>8. Exists(c)'
  <2>1. Anchor(c)' = Anchor(c) /\ Lineage(command'[c].request) = Lineage(command[c].request)
    BY <1>2 DEF Anchor, Member
  <2>2. /\ NewGeneration(c) \in generations'
        /\ NewGeneration(c).lineage = Lineage(command[c].request)
        /\ NewGeneration(c).anchor = Anchor(c)
    BY <1>1 DEF NewGeneration
  <2> QED
    BY <2>1, <2>2 DEF Exists
<1>9. CallInv(c)'
  BY <1>2, <1>7, <1>8 DEF CallInv, AfterDecisions, AfterSource
<1>10. \A d \in Command : CallInv(d)'
  BY <1>1, <1>2, <1>4, <1>9, CallKept DEF Inv
<1>11. \A d \in Command : command[d].outcome = "created" => NewGeneration(d) # NewGeneration(c)
  BY <1>1 DEF Inv, CallInv, Succeeded, Exists, NewGeneration
<1>12. OneCreatorPerAnchor'
  BY <1>2, <1>6, <1>11 DEF Inv, OneCreatorPerAnchor
<1> QED
  BY <1>4, <1>5, <1>10, <1>12 DEF Inv

-----------------------------------------------------------------------------
(* The theorems. *)

LEMMA InitEstablishes == Init => Inv
<1> SUFFICES ASSUME Init PROVE Inv
  OBVIOUS
<1>1. <<"accept">> \in Seq(Decidable) /\ <<>> \in Seq(Decidable) /\ <<>> \in Seq(Nat)
  BY EmptySeq DEF Decidable
<1>2. /\ rawLog \in [Intake -> Seq(Transcript)]
      /\ decisionLog \in [Candidate -> Seq(Decidable)]
  BY <1>1, CandidateAssumption DEF Init
<1>3. /\ Lengths \in [raw : [Intake -> Nat], decision : [Candidate -> Nat]]
      /\ \A i \in Intake : Lengths.raw[i] = Len(rawLog[i]) /\ Len(rawLog[i]) \in Nat
      /\ \A k \in Candidate : /\ Lengths.decision[k] = Len(decisionLog[k])
                              /\ Len(decisionLog[k]) \in Nat
  BY <1>2 DEF Lengths
<1>4. TypeInv
  BY <1>1, <1>2, <1>3 DEF Init, TypeInv, NotStarted, CommandState
<1>5. ASSUME NEW c \in Command PROVE CallInv(c)
  <2>1. command[c] = NotStarted /\ start[c] = Lengths
    BY DEF Init
  <2>2. Len(<<>>) = 0 /\ DOMAIN <<>> = {}
    OBVIOUS
  <2>3. ReadInv(c) /\ StartInv(c)
    BY <1>3, <2>1, <2>2 DEF ReadInv, StartInv, NotStarted
  <2> QED
    BY <2>1, <2>3, NoneAssumption
       DEF CallInv, NotStarted, AfterDecisions, AfterSource, Succeeded, Outcomes
<1>6. OneCreatorPerAnchor
  BY NoneAssumption DEF Init, NotStarted, OneCreatorPerAnchor, Outcomes
<1> QED
  BY <1>4, <1>5, <1>6 DEF Inv, Init

\* Whatever the interleaving of commands with selections and decisions, the
\* bookkeeping of every command stays right.
THEOREM InvHolds == Spec => []Inv
<1>1. Inv /\ [Next]_vars => Inv'
  <2> SUFFICES ASSUME Inv, [Next]_vars PROVE Inv'
    OBVIOUS
  <2>1. ASSUME NEW i \in Intake, NEW t \in Transcript, SelectRaw(i, t) PROVE Inv'
    BY <2>1, SelectRawKeeps
  <2>2. ASSUME NEW k \in Candidate, NEW kind \in Decidable, Decide(k, kind) PROVE Inv'
    BY <2>2, DecideKeeps
  <2>3. ASSUME NEW c \in Command, NEW request \in Request, Invoke(c, request) PROVE Inv'
    BY <2>3, InvokeKeeps
  <2>4. ASSUME NEW c \in Command,
               \/ ReadDecision(c) \/ ReadRawSelection(c) \/ LookupExisting(c) \/ Persist(c)
               \/ PersistIsStale(c) \/ PersistCollides(c) \/ PersistFails(c)
               \/ Resolve(c) \/ Kill(c)
        PROVE  Inv'
    BY <2>4, ReadDecisionKeeps, ReadRawSelectionKeeps, LookupExistingKeeps, PersistKeeps,
       PersistIsStaleKeeps, PersistCollidesKeeps, ResolveKeeps, KillKeeps
  <2>5. CASE UNCHANGED vars
    <3>1. TypeInv' /\ Grown
      BY <2>5, NothingGrows DEF Inv, TypeInv, vars
    <3> QED
      BY <2>5, <3>1, GrowthKeeps DEF vars
  <2> QED
    BY <2>1, <2>2, <2>3, <2>4, <2>5 DEF Next
<1> QED
  BY <1>1, InitEstablishes, PTL DEF Spec

\* The validator has nothing to say against any recorded revision.
THEOREM RepositoryIsValidHolds == Spec => []RepositoryIsValid
<1>1. Inv => RepositoryIsValid
  <2> SUFFICES ASSUME Inv PROVE RepositoryIsValid
    OBVIOUS
  <2>1. Unauthorized = {}
    BY DEF Inv, GenerationInv, Authorized, Unauthorized
  <2>2. ASSUME NEW g \in generations, NEW m \in g.anchor, NEW other \in g.anchor, m # other,
               (g.lineage = "timing") = (SegmentOf[m[1]] = SegmentOf[other[1]])
        PROVE  FALSE
    BY <2>2 DEF Inv, GenerationInv
  <2>3. Misplaced = {}
    BY <2>2 DEF Inv, GenerationInv, Misplaced
  <2> QED
    BY <2>1, <2>3 DEF RepositoryIsValid
<1> QED
  BY <1>1, InvHolds, PTL

\* At most one command creates the revision of one anchor.
THEOREM OneCreatorPerAnchorHolds == Spec => []OneCreatorPerAnchor
<1>1. Inv => OneCreatorPerAnchor
  BY DEF Inv
<1> QED
  BY <1>1, InvHolds, PTL

\* A success rests on acceptances and a selection that were current during the
\* call.
THEOREM AuthorityWasCurrentDuringCallHolds == Spec => []AuthorityWasCurrentDuringCall
<1>1. Inv => AuthorityWasCurrentDuringCall
  <2> SUFFICES ASSUME Inv, NEW c \in Command, Succeeded(c)
               PROVE  /\ Exists(c)
                      /\ \A n \in DOMAIN command[c].request :
                            command[c].decisions[n] >= start[c].decision[Member(c, n)]
                      /\ \E n \in DOMAIN rawLog[IntakeOf[Member(c, 1)]] :
                            /\ n >= start[c].raw[IntakeOf[Member(c, 1)]]
                            /\ rawLog[IntakeOf[Member(c, 1)]][n] = SourceOf[Member(c, 1)]
    BY DEF AuthorityWasCurrentDuringCall
  <2>1. Complete(c) /\ SourceSeen(c) /\ Exists(c) /\ ReadInv(c) /\ StartInv(c)
    BY DEF Inv, CallInv
  <2>2. /\ command[c].decisions \in Seq(Nat)
        /\ DOMAIN command[c].decisions = 1 .. Len(command[c].decisions)
    BY LenProperties DEF Inv, TypeInv, CommandState
  <2>3. DOMAIN command[c].request = DOMAIN command[c].decisions
    BY <2>1, <2>2, RequestType DEF Complete
  <2>4. ASSUME NEW n \in DOMAIN command[c].request
        PROVE  command[c].decisions[n] >= start[c].decision[Member(c, n)]
    <3>1. start[c].decision[Member(c, n)] <= command[c].decisions[n]
      BY <2>1, <2>3 DEF ReadInv
    <3>2. /\ command[c].decisions[n] \in Nat
          /\ start[c].decision[Member(c, n)] \in Nat
      BY <2>1, <2>2, <2>3, RequestType DEF Inv, TypeInv, Complete, Member
    <3> QED
      BY <3>1, <3>2
  <2>5. /\ IntakeOf[Member(c, 1)] \in Intake
        /\ start[c].raw[IntakeOf[Member(c, 1)]] \in Nat
        /\ DOMAIN rawLog[IntakeOf[Member(c, 1)]] \subseteq Nat
    <3>1. IntakeOf[Member(c, 1)] \in Intake
      BY <2>1, FirstMember DEF Complete
    <3>2. rawLog[IntakeOf[Member(c, 1)]] \in Seq(Transcript)
      BY <3>1 DEF Inv, TypeInv
    <3> QED
      BY <3>1, <3>2 DEF Inv, TypeInv
  <2> QED
    BY <2>1, <2>4, <2>5 DEF SourceSeen
<1> QED
  BY <1>1, InvHolds, PTL

\* No command ends in an unresolved collision.
THEOREM CollisionsAlwaysConvergeHolds == Spec => []CollisionsAlwaysConverge
<1>1. Inv => CollisionsAlwaysConverge
  BY DEF Inv, CallInv, CollisionsAlwaysConverge
<1> QED
  BY <1>1, InvHolds, PTL

\* A revision with timing in it appears only while all its authorities are the
\* current ones.
THEOREM AuthorityHoldsAtInsertHolds == Spec => AuthorityHoldsAtInsert
<1> DEFINE Holds(g) ==
      \A m \in g.anchor : /\ Decision!CurrentlyHolds(m[1], "accept")
                          /\ Len(decisionLog[m[1]]) = m[2]
                          /\ Raw!CurrentlyHolds(IntakeOf[m[1]], g.parent)
<1>1. ASSUME Inv, [Next]_vars, NEW g \in generations' \ generations, g.lineage # "text"
      PROVE  Holds(g)
  <2>1. PICK c \in Command : Persist(c)
    BY <1>1 DEF Next, vars, SelectRaw, Decide, Invoke, ReadDecision, ReadRawSelection,
                LookupExisting, PersistIsStale, PersistCollides, PersistFails, Resolve, Kill
  <2>2. /\ g = NewGeneration(c) /\ Revalidates(c) /\ Complete(c) /\ ReadInv(c)
        /\ command[c].decisions \in Seq(Nat)
        /\ DOMAIN command[c].decisions = 1 .. Len(command[c].decisions)
    BY <1>1, <2>1, LenProperties
       DEF Persist, Inv, TypeInv, CommandState, CallInv, AfterDecisions
  <2>3. /\ g.lineage = Lineage(command[c].request) /\ g.anchor = Anchor(c)
        /\ g.parent = SourceOf[Member(c, 1)]
    BY <2>2 DEF NewGeneration
  <2>4. SnapshotHolds(c)
    BY <1>1, <2>2, <2>3 DEF Revalidates
  <2>5. DOMAIN command[c].request = DOMAIN command[c].decisions
    BY <2>2, RequestType DEF Complete
  <2> SUFFICES ASSUME NEW m \in g.anchor
               PROVE  /\ Decision!CurrentlyHolds(m[1], "accept")
                      /\ Len(decisionLog[m[1]]) = m[2]
                      /\ Raw!CurrentlyHolds(IntakeOf[m[1]], g.parent)
    OBVIOUS
  <2>6. PICK n \in DOMAIN command[c].request : m = <<Member(c, n), command[c].decisions[n]>>
    BY <2>3, <2>5 DEF Anchor
  <2>7. Fits(c, Member(c, n))
    BY <2>2, <2>5 DEF ReadInv
  <2>8. IntakeOf[m[1]] = IntakeOf[Member(c, 1)]
    BY <2>6, <2>7 DEF Fits, Base
  <2> QED
    BY <2>3, <2>4, <2>6, <2>8 DEF SnapshotHolds, SourceIsCurrent
<1>2. Inv /\ [Next]_vars =>
         [\A g \in generations' \ generations : g.lineage # "text" => Holds(g)]_vars
  BY <1>1
<1> QED
  BY <1>2, InvHolds, PTL DEF Spec, AuthorityHoldsAtInsert
=============================================================================

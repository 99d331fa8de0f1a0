---------------------- MODULE LocalAsrExecutionProofs ----------------------
(***************************************************************************)
(* Proofs about LocalAsrExecution, for any number of commands and bindings, *)
(* any length of the result and any number of failing file operations and   *)
(* crashes.                                                                 *)
(*                                                                          *)
(* The invariant has three parts: who owns a key while nothing is admitted; *)
(* what the recorded segments and the decoded ones say of each other, which *)
(* also holds for every prefix a crash may leave; and that undisturbed      *)
(* commands of one key extend one transcript.                               *)
(***************************************************************************)
EXTENDS LocalAsrExecution, SequenceTheorems, FiniteSetTheorems, TLAPS

Places == {"idle", "lookup", "mkdir", "open", "flock", "returned", "killed"} \union Owning

CommandState ==
    [pc : Places, binding : Binding \union {None}, forced : BOOLEAN, handle : Nat,
     listed : SUBSET {"lock", "metadata", "segments"},
     outcome : {None, "reused", "refused", "error", "conflict", "admitted"}]

\* Places a command reaches before it has decoded anything.
Early == {"idle", "lookup", "mkdir", "open", "flock", "load", "begin", "label"}

TypeInv ==
    /\ lock \in [Binding -> Nat]
    /\ segments \in [Binding -> File \union {NoFile}]
    /\ admission \in Seq(Line) \union {None}
    /\ command \in [Command -> CommandState]
    /\ decoded \in [Command -> Seq(Line)]
    /\ faults \in [Operation -> Nat] /\ crashes \in Nat
    /\ \A c \in Command :
          /\ command[c].pc = "idle" => command[c] = NotStarted
          /\ command[c].pc \in Early => decoded[c] = <<>>
          /\ command[c].pc # "idle" => Key(c) \in Binding

-----------------------------------------------------------------------------
(* Sequences of segments, place by place. *)

InOrder(s, n) == \A m \in 1 .. n : s[m].ordinal = m

Agrees(s, n, t) == n <= Len(t) /\ \A m \in 1 .. n : s[m] = t[m]

\* Not both: old segments that could not be removed, and a record that was lost.
Separate == faults["unlink"] = 0 \/ faults["append"] = 0

\* No ordinal is beyond the result; and as far as the ordinals of a sequence are
\* in order, its segments were decoded by commands that had exactly those before
\* them.  It says something about every prefix, since a crash may leave any.
Sound(s) ==
    /\ \A n \in 1 .. Len(s) : s[n].ordinal <= Length
    /\ Separate =>
          \A n \in 1 .. Len(s) :
              InOrder(s, n) => s[n].by \in Command /\ Agrees(s, n, decoded[s[n].by])

Whole(s) == InOrder(s, Len(s)) /\ Sound(s)

-----------------------------------------------------------------------------
(* The invariant. *)

\* What the file of a running command holds (s), against what it has decoded (t): no
\* more lines than that if the old ones were removed, and nothing else
\* wherever its next segment would be in order.
InStep(s, t) ==
    /\ faults["unlink"] = 0 => Len(s) <= Len(t)
    /\ Separate /\ Len(s) = Len(t) /\ InOrder(s, Len(s)) => Agrees(s, Len(s), t)

\* A command while nothing is admitted: neither the directory nor the lock file
\* it has opened was removed, what it has decoded is one execution's, and its
\* next segment does not complete another execution's.
OpenInv(c) ==
    /\ command[c].pc \notin {"resolve", "list", "remove"}
    /\ command[c].pc \in Owning \union {"flock"} =>
          /\ Key(c) \in directory
          /\ lock[Key(c)] # 0 /\ command[c].handle = lock[Key(c)]
    /\ Whole(decoded[c]) /\ Len(decoded[c]) <= Length
    /\ command[c].pc \in {"admit", "persist"} => Len(decoded[c]) = Length
    /\ command[c].pc = "label" => segments[Key(c)] = NoFile
    /\ command[c].pc = "decode" /\ segments[Key(c)] # NoFile =>
          InStep(segments[Key(c)].lines, decoded[c])

ExclusiveInv ==
    \A c, d \in Command :
        command[c].pc \in Owning /\ command[d].pc \in Owning /\ Key(c) = Key(d) => c = d

UnadmittedInv ==
    /\ \A c \in Command : OpenInv(c)
    /\ \A b \in Binding : segments[b] # NoFile => Sound(segments[b].lines)
    /\ ExclusiveInv

AdmittedInv == Len(admission) = Length /\ Whole(admission)

\* Nothing has happened that may cost decoded segments.
Undisturbed ==
    /\ admission = None /\ NoFault /\ crashes = 0
    /\ ~\E c \in Command : command[c].forced

\* The segments file of a key is the one transcript all its commands extend.
TranscriptInv(b) ==
    IF segments[b] = NoFile
    THEN \A c \in Command : Key(c) = b => decoded[c] = <<>>
    ELSE /\ b \in metadata
         /\ segments[b].lines # <<>> /\ ~segments[b].torn
         /\ InOrder(segments[b].lines, Len(segments[b].lines))
         /\ \A c \in Command : Key(c) = b =>
               Agrees(decoded[c], Len(decoded[c]), segments[b].lines)

KeepsUp(c) ==
    /\ command[c].pc \in {"begin", "label"} => segments[Key(c)] = NoFile
    /\ command[c].pc = "decode" =>
          /\ Key(c) \in metadata
          /\ segments[Key(c)] # NoFile =>
                Len(segments[Key(c)].lines) = Len(decoded[c])

CostInv ==
    /\ \A b \in Binding : TranscriptInv(b)
    /\ \A c \in Command : KeepsUp(c)

Inv ==
    /\ TypeInv
    /\ IF admission = None THEN UnadmittedInv ELSE AdmittedInv
    /\ Undisturbed => CostInv

-----------------------------------------------------------------------------
(* Lemmas about sequences of segments. *)

\* What a command has decoded is only ever continued, and no fault is forgotten.
Grows ==
    /\ \A d \in Command : Agrees(decoded[d], Len(decoded[d]), decoded'[d])
    /\ \A operation \in Operation : faults'[operation] = 0 => faults[operation] = 0

\* An operation fails, or none does.
LEMMA FaultsGrow ==
    ASSUME TypeInv, faults' = faults \/ \E operation \in Operation : Fails(operation)
    PROVE  /\ faults' \in [Operation -> Nat]
           /\ \A operation \in Operation : faults'[operation] = 0 => faults[operation] = 0
<1>1. faults \in [Operation -> Nat]
  BY DEF TypeInv
<1>2. CASE faults' = faults
  BY <1>1, <1>2
<1>3. ASSUME NEW operation \in Operation, Fails(operation)
      PROVE  /\ faults' \in [Operation -> Nat]
             /\ \A other \in Operation : faults'[other] = 0 => faults[other] = 0
  <2>1. PICK n \in Nat : n = faults[operation] + 1
    BY <1>1
  <2>2. n # 0 /\ faults' = [faults EXCEPT ![operation] = n]
    BY <1>1, <1>3, <2>1 DEF Fails
  <2> QED
    BY <1>1, <2>1, <2>2
<1> QED
  BY <1>2, <1>3

LEMMA FailsEffect ==
    ASSUME TypeInv, NEW operation \in Operation, Fails(operation)
    PROVE  faults'[operation] # 0 /\ ~Undisturbed'
<1>1. faults'[operation] = faults[operation] + 1 /\ faults[operation] \in Nat
  BY DEF TypeInv, Fails
<1>2. faults'[operation] # 0
  BY <1>1
<1> QED
  BY <1>2 DEF Undisturbed, NoFault

LEMMA StaysSeparate ==
    ASSUME Grows
    PROVE  /\ Separate' => Separate
           /\ faults'["unlink"] = 0 => faults["unlink"] = 0
BY DEF Grows, Separate, Operation

LEMMA AgreesTrans ==
    ASSUME NEW s \in Seq(Line), NEW t \in Seq(Line), NEW u \in Seq(Line), NEW n \in Nat,
           Agrees(s, n, t), Agrees(t, Len(t), u)
    PROVE  Agrees(s, n, u)
BY DEF Agrees

LEMMA SoundStays ==
    ASSUME TypeInv, TypeInv', Grows, NEW s \in Seq(Line)
    PROVE  /\ Sound(s) => Sound(s)'
           /\ Whole(s) => Whole(s)'
<1>1. ASSUME Sound(s)
      PROVE  Sound(s)'
  <2>1. ASSUME Separate', NEW n \in 1 .. Len(s), InOrder(s, n)
        PROVE  s[n].by \in Command /\ Agrees(s, n, decoded'[s[n].by])
    <3>1. s[n].by \in Command /\ Agrees(s, n, decoded[s[n].by])
      BY <1>1, <2>1, StaysSeparate DEF Sound
    <3>2. decoded[s[n].by] \in Seq(Line) /\ decoded'[s[n].by] \in Seq(Line) /\ n \in Nat
      BY <3>1 DEF TypeInv
    <3> QED
      BY <3>1, <3>2, AgreesTrans DEF Grows
  <2> QED
    BY <1>1, <2>1 DEF Sound, InOrder, Agrees
<1> QED
  BY <1>1 DEF Whole, InOrder

\* A prefix of a sound sequence is sound.
LEMMA PrefixIsSound ==
    ASSUME NEW s \in Seq(Line), Sound(s), NEW k \in 0 .. Len(s)
    PROVE  SubSeq(s, 1, k) \in Seq(Line) /\ Sound(SubSeq(s, 1, k))
<1> DEFINE p == SubSeq(s, 1, k)
<1>1. p \in Seq(Line) /\ Len(p) = k /\ \A m \in 1 .. k : p[m] = s[m]
  BY SubSeqProperties
<1> HIDE DEF p
<1>2. ASSUME Separate, NEW n \in 1 .. Len(p), InOrder(p, n)
      PROVE  p[n].by \in Command /\ Agrees(p, n, decoded[p[n].by])
  <2>1. n \in 1 .. Len(s) /\ InOrder(s, n) /\ p[n] = s[n]
    BY <1>1, <1>2 DEF InOrder
  <2> QED
    BY <1>1, <1>2, <2>1 DEF Sound, Agrees
<1>3. \A n \in 1 .. Len(p) : p[n].ordinal <= Length
  BY <1>1 DEF Sound
<1> QED
  BY <1>1, <1>2, <1>3 DEF Sound, p

\* A whole sequence is one execution.
LEMMA WholeIsOneExecution ==
    ASSUME TypeInv, Separate, NEW s \in Seq(Line), Whole(s)
    PROVE  IsOneExecution(s)
<1> SUFFICES ASSUME NEW n \in DOMAIN s
             PROVE  s[n].ordinal = n /\ IsPrefix(SubSeq(s, 1, n), decoded[s[n].by])
  BY DEF IsOneExecution
<1>1. n \in 1 .. Len(s) /\ InOrder(s, n) /\ s[n].ordinal = n
  BY DEF Whole, InOrder
<1>2. s[n].by \in Command /\ Agrees(s, n, decoded[s[n].by])
  BY <1>1 DEF Whole, Sound
<1>3. PICK t \in Seq(Line) : t = decoded[s[n].by]
  BY <1>2 DEF TypeInv
<1> DEFINE p == SubSeq(s, 1, n)
           q == SubSeq(t, 1, n)
<1>4. n \in Nat /\ n <= Len(t) /\ \A m \in 1 .. n : s[m] = t[m]
  BY <1>1, <1>2, <1>3 DEF Agrees
<1>5. p \in Seq(Line) /\ Len(p) = n /\ \A m \in 1 .. n : p[m] = s[m]
  BY <1>1, SubSeqProperties
<1>6. q \in Seq(Line) /\ Len(q) = n /\ \A m \in 1 .. n : q[m] = t[m]
  BY <1>4, SubSeqProperties
<1> HIDE DEF p, q
<1>7. p = q
  BY <1>4, <1>5, <1>6, SeqEqual
<1>8. SubSeq(p, 1, n) = p
  BY <1>5, SubSeqFull
<1> QED
  BY <1>1, <1>3, <1>4, <1>5, <1>7, <1>8 DEF IsPrefix, p, q

\* Two sequences that both agree with a third are prefixes of each other.
LEMMA BothArePrefixes ==
    ASSUME NEW s \in Seq(Line), NEW t \in Seq(Line), Agrees(s, Len(s), t)
    PROVE  IsPrefix(s, t)
<1> DEFINE q == SubSeq(t, 1, Len(s))
<1>1. Len(s) \in Nat /\ Len(s) <= Len(t) /\ \A m \in 1 .. Len(s) : s[m] = t[m]
  BY DEF Agrees
<1>2. q \in Seq(Line) /\ Len(q) = Len(s) /\ \A m \in 1 .. Len(s) : q[m] = t[m]
  BY <1>1, SubSeqProperties
<1> HIDE DEF q
<1>3. q = s
  BY <1>1, <1>2, SeqEqual
<1>4. SubSeq(s, 1, Len(s)) = s
  BY SubSeqFull
<1> QED
  BY <1>1, <1>3, <1>4 DEF IsPrefix, q

-----------------------------------------------------------------------------
(* What the assignments to `command` do, field by field. *)

Running == Places \ {"idle", "returned", "killed"}

\* Only command c changes its local state.
OnlyOne(c) ==
    /\ command' \in [Command -> CommandState]
    /\ \A d \in Command \ {c} : command'[d] = command[d]
    /\ command'[c].binding = command[c].binding
    /\ command'[c].forced = command[c].forced

LEMMA GotoEffect ==
    ASSUME TypeInv, NEW c \in Command, NEW pc \in Places, Goto(c, pc)
    PROVE  /\ OnlyOne(c)
           /\ command'[c].pc = pc
           /\ command'[c].handle = command[c].handle
           /\ command'[c].listed = command[c].listed
<1>1. PICK r \in CommandState : r = command[c]
  BY DEF TypeInv
<1>2. PICK s : s = [pc |-> pc, binding |-> r.binding, forced |-> r.forced,
                    handle |-> r.handle, listed |-> r.listed, outcome |-> r.outcome]
  OBVIOUS
<1>3. s \in CommandState /\ [r EXCEPT !.pc = pc] = s
  BY <1>2 DEF CommandState
<1>4. command' = [command EXCEPT ![c] = s]
  BY <1>1, <1>3 DEF Goto, TypeInv
<1>5. command' \in [Command -> CommandState] /\ command'[c] = s
      /\ \A d \in Command \ {c} : command'[d] = command[d]
  BY <1>3, <1>4 DEF TypeInv
<1> QED
  BY <1>1, <1>2, <1>5 DEF OnlyOne

\* The record a command is left with when it ends.
Ended(c, pc, outcome) ==
    [pc |-> pc, binding |-> command[c].binding, forced |-> command[c].forced,
     handle |-> 0, listed |-> {}, outcome |-> outcome]

LEMMA EndedType ==
    ASSUME TypeInv, NEW c \in Command, NEW pc \in {"returned", "killed"},
           NEW outcome \in {None, "reused", "refused", "error", "conflict", "admitted"}
    PROVE  /\ Ended(c, pc, outcome) \in CommandState
           /\ Killed(c) = Ended(c, "killed", None)
<1>1. PICK r \in CommandState : r = command[c]
  BY DEF TypeInv
<1> QED
  BY <1>1 DEF CommandState, Places, Ended, Killed

LEMMA EndEffect ==
    ASSUME TypeInv, NEW c \in Command, NEW pc \in {"returned", "killed"},
           NEW outcome \in {None, "reused", "refused", "error", "conflict", "admitted"},
           command' = [command EXCEPT ![c] = Ended(c, pc, outcome)]
    PROVE  OnlyOne(c) /\ command'[c].pc = pc
<1>1. PICK s \in CommandState : s = Ended(c, pc, outcome)
  BY EndedType
<1>2. command'[c] = s /\ command' \in [Command -> CommandState]
      /\ \A d \in Command \ {c} : command'[d] = command[d]
  BY <1>1 DEF TypeInv
<1> QED
  BY <1>1, <1>2 DEF OnlyOne, Ended

LEMMA ReturnEffect ==
    ASSUME TypeInv, NEW c \in Command,
           NEW outcome \in {None, "reused", "refused", "error", "conflict", "admitted"},
           Return(c, outcome)
    PROVE  OnlyOne(c) /\ command'[c].pc = "returned"
<1>1. command' = [command EXCEPT ![c] = Ended(c, "returned", outcome)]
  BY DEF Return, Ended
<1> QED
  BY <1>1, EndEffect

-----------------------------------------------------------------------------
(* What a step of one command must show. *)

\* Once a result is admitted it stays one execution's.
LEMMA AdmittedStays ==
    ASSUME Inv, TypeInv', Grows, admission # None, admission' = admission
    PROVE  Inv'
<1>1. admission \in Seq(Line) /\ AdmittedInv
  BY DEF Inv, TypeInv
<1>2. AdmittedInv'
  BY <1>1, SoundStays DEF AdmittedInv, Inv
<1>3. ~Undisturbed'
  BY DEF Undisturbed
<1> QED
  BY <1>2, <1>3 DEF Inv

\* Before that: others' local state is untouched, no lock file is removed, the
\* segments of a key are changed by its owner alone.
OneSteps(c) ==
    /\ \A d \in Command \ {c} : command'[d] = command[d] /\ decoded'[d] = decoded[d]
    /\ \A b \in Binding : lock[b] # 0 => lock'[b] = lock[b]
    /\ directory \subseteq directory' /\ metadata \subseteq metadata'
    /\ \A b \in Binding : segments'[b] # segments[b] =>
          b = Key(c) /\ command'[c].binding = b /\ command[c].pc \in Owning
    /\ command'[c].pc \in Owning =>
          \/ command[c].pc \in Owning /\ command'[c].binding = Key(c)
          \/ \A d \in Command \ {c} :
                command[d].pc \in Owning => Key(d) # command'[c].binding

\* What c itself has to re-establish.
OwnPart(c) ==
    /\ OpenInv(c)'
    /\ \A b \in Binding :
          segments'[b] # segments[b] /\ segments'[b] # NoFile => Sound(segments[b].lines)'
    /\ Undisturbed' =>
          /\ Undisturbed
          /\ \A b \in Binding : b = command'[c].binding => TranscriptInv(b)'
          /\ KeepsUp(c)'

LEMMA OthersStayOpen ==
    ASSUME Inv, TypeInv', Grows, admission = None, NEW c \in Command, OneSteps(c),
           NEW d \in Command \ {c}
    PROVE  OpenInv(d)'
<1>1. OpenInv(d) /\ ExclusiveInv /\ command[d] \in CommandState
      /\ (command[d].pc \in Running => Key(d) \in Binding)
  BY DEF Inv, UnadmittedInv, TypeInv, Running
<1>2. PICK t \in Seq(Line) : t = decoded[d] /\ t = decoded'[d]
  BY DEF OneSteps, Inv, TypeInv
<1>3. PICK r \in CommandState : r = command[d] /\ r = command'[d]
  BY <1>1 DEF OneSteps
<1>4. Whole(t)' /\ Len(t) <= Length /\ (r.pc \in {"admit", "persist"} => Len(t) = Length)
  BY <1>1, <1>2, <1>3, SoundStays DEF OpenInv, Inv
<1>5. r.pc \in Owning \union {"flock"} =>
         r.binding \in directory' /\ lock'[r.binding] # 0 /\ r.handle = lock'[r.binding]
  BY <1>1, <1>3 DEF OpenInv, OneSteps, Running, Owning, Places, Key
<1>6. r.pc \in Owning => segments'[r.binding] = segments[r.binding]
  BY <1>1, <1>3 DEF OneSteps, ExclusiveInv, Running, Owning, Places, Key
<1>7. r.pc = "label" => segments'[r.binding] = NoFile
  BY <1>1, <1>3, <1>6 DEF OpenInv, Owning, Key
<1>8. ASSUME r.pc = "decode", segments'[r.binding] # NoFile
      PROVE  InStep(segments[r.binding].lines, t)'
  <2>1. segments'[r.binding] = segments[r.binding]
    BY <1>6, <1>8 DEF Owning
  <2>2. InStep(segments[r.binding].lines, t)
    BY <1>1, <1>2, <1>3, <1>8, <2>1 DEF OpenInv, Key
  <2> QED
    BY <2>1, <2>2, StaysSeparate DEF InStep, InOrder, Agrees
<1>9. r.pc \notin {"resolve", "list", "remove"}
  BY <1>1, <1>3 DEF OpenInv
<1>10. Whole(decoded[d])'
  BY <1>2, <1>4
<1> QED
  BY <1>2, <1>3, <1>4, <1>5, <1>7, <1>8, <1>9, <1>10
     DEF OpenInv, Key, InStep, InOrder, Agrees

LEMMA StepKeeps ==
    ASSUME Inv, TypeInv', Grows, admission = None, admission' = None,
           NEW c \in Command, OneSteps(c), OwnPart(c)
    PROVE  Inv'
<1>1. UnadmittedInv /\ TypeInv
  BY DEF Inv
<1>2. \A d \in Command : OpenInv(d)'
  BY OthersStayOpen DEF OwnPart
<1>3. ASSUME NEW b \in Binding, segments'[b] # NoFile
      PROVE  Sound(segments[b].lines)'
  <2>1. CASE segments'[b] # segments[b]
    BY <1>3, <2>1 DEF OwnPart
  <2>2. CASE segments'[b] = segments[b]
    <3>1. PICK t \in Seq(Line) : t = segments[b].lines /\ t = segments'[b].lines
      BY <1>1, <1>3, <2>2 DEF TypeInv, File, NoFile
    <3>2. Sound(t)
      BY <1>1, <1>3, <2>2, <3>1 DEF UnadmittedInv
    <3>3. Sound(t)'
      BY <1>1, <3>2, SoundStays
    <3> QED
      BY <3>1, <3>3 DEF Sound, InOrder, Agrees
  <2> QED
    BY <2>1, <2>2
<1>4. ExclusiveInv'
  <2>1. ASSUME NEW d \in Command \ {c}
        PROVE  command'[d].pc = command[d].pc /\ command'[d].binding = Key(d)
    BY DEF OneSteps, Key
  <2>2. ASSUME NEW d \in Command \ {c}, command'[d].pc \in Owning, command'[c].pc \in Owning
        PROVE  command'[c].binding # command'[d].binding
    BY <1>1, <2>1, <2>2 DEF OneSteps, UnadmittedInv, ExclusiveInv
  <2>3. ASSUME NEW d \in Command, NEW e \in Command,
               command'[d].pc \in Owning, command'[e].pc \in Owning,
               command'[d].binding = command'[e].binding
        PROVE  d = e
    <3>1. CASE d # c /\ e # c
      BY <1>1, <2>1, <2>3, <3>1 DEF UnadmittedInv, ExclusiveInv
    <3>2. CASE d = c \/ e = c
      BY <2>2, <2>3, <3>2
    <3> QED
      BY <3>1, <3>2
  <2> QED
    BY <2>3 DEF ExclusiveInv, Key
<1>5. ASSUME Undisturbed'
      PROVE  CostInv'
  <2>1. CostInv /\ Undisturbed
    BY <1>5 DEF OwnPart, Inv
  <2>2. ASSUME NEW b \in Binding
        PROVE  TranscriptInv(b)'
    <3>1. CASE b = command'[c].binding
      BY <1>5, <3>1 DEF OwnPart, TranscriptInv, Key, InOrder, Agrees
    <3>2. CASE b # command'[c].binding
      <4>1. segments'[b] = segments[b] /\ TranscriptInv(b) /\ metadata \subseteq metadata'
        BY <2>1, <3>2 DEF OneSteps, CostInv
      <4>2. \A d \in Command : command'[d].binding = b =>
               Key(d) = b /\ decoded'[d] = decoded[d]
        BY <3>2 DEF OneSteps, Key
      <4> QED
        BY <4>1, <4>2 DEF TranscriptInv, Key, InOrder, Agrees
    <3> QED
      BY <3>1, <3>2
  <2>3. ASSUME NEW d \in Command \ {c}
        PROVE  KeepsUp(d)'
    <3>1. KeepsUp(d) /\ command[d] \in CommandState
          /\ (command[d].pc \in Running => Key(d) \in Binding)
      BY <1>1, <2>1 DEF CostInv, TypeInv, Running
    <3>2. PICK r \in CommandState : r = command[d] /\ r = command'[d]
      BY <3>1 DEF OneSteps
    <3>3. decoded'[d] = decoded[d]
      BY DEF OneSteps
    <3>4. r.pc \in Owning => segments'[r.binding] = segments[r.binding]
      BY <1>1, <3>1, <3>2 DEF OneSteps, UnadmittedInv, ExclusiveInv, Running, Owning, Places, Key
    <3>5. "begin" \in Owning /\ "label" \in Owning /\ "decode" \in Owning
      BY DEF Owning
    <3>6. directory \subseteq directory' /\ metadata \subseteq metadata'
      BY DEF OneSteps
    <3> QED
      BY <3>1, <3>2, <3>3, <3>4, <3>5, <3>6 DEF KeepsUp, Key
  <2>4. KeepsUp(c)'
    BY <1>5 DEF OwnPart
  <2> QED
    BY <2>2, <2>3, <2>4 DEF CostInv
<1> QED
  BY <1>2, <1>3, <1>4, <1>5 DEF Inv, UnadmittedInv

-----------------------------------------------------------------------------
(* A step of one command that changes its local state alone. *)

Quiet == UNCHANGED <<disk, admission, decoded, faults, crashes>>

LEMMA QuietGrows ==
    ASSUME TypeInv, UNCHANGED decoded,
           faults' = faults \/ \E operation \in Operation : Fails(operation)
    PROVE  Grows
<1> SUFFICES ASSUME NEW d \in Command
             PROVE  Agrees(decoded[d], Len(decoded[d]), decoded'[d])
  BY FaultsGrow DEF Grows
<1>1. decoded[d] \in Seq(Line) /\ decoded'[d] = decoded[d]
  BY DEF TypeInv
<1> QED
  BY <1>1 DEF Agrees

LEMMA LocalType ==
    ASSUME TypeInv, NEW c \in Command, OnlyOne(c), Quiet,
           command[c].pc \in Running, command'[c].pc # "idle",
           command'[c].pc \in Early => command[c].pc \in Early
    PROVE  TypeInv'
<1>1. ASSUME NEW d \in Command
      PROVE  /\ command'[d].pc = "idle" => command'[d] = NotStarted
             /\ command'[d].pc \in Early => decoded[d] = <<>>
             /\ command'[d].pc # "idle" => command'[d].binding \in Binding
  BY DEF TypeInv, OnlyOne, Key, Running
<1> QED
  BY <1>1 DEF TypeInv, OnlyOne, Quiet, disk, Key, Running

\* Ownership is taken with the lock and kept by every other step.
LEMMA LocalStep ==
    ASSUME Inv, NEW c \in Command, OnlyOne(c), Quiet,
           command[c].pc \in Running, command'[c].pc # "idle",
           command'[c].pc \in Early => command[c].pc \in Early,
           admission = None =>
               /\ OpenInv(c)'
               /\ command'[c].pc \in Owning =>
                     \/ command[c].pc \in Owning
                     \/ \A d \in Command \ {c} :
                           command[d].pc \in Owning => Key(d) # Key(c)
               /\ Undisturbed => KeepsUp(c)'
    PROVE  Inv'
<1>1. TypeInv /\ TypeInv' /\ Grows
  BY LocalType, QuietGrows DEF Inv, Quiet
<1>2. CASE admission # None
  BY <1>1, <1>2, AdmittedStays DEF Quiet
<1>3. CASE admission = None
  <2>1. OneSteps(c)
    BY <1>3 DEF OneSteps, OnlyOne, Quiet, disk, Key
  <2>2. Undisturbed' => Undisturbed
    BY DEF Undisturbed, NoFault, Quiet, OnlyOne
  <2>3. ASSUME Undisturbed, NEW b \in Binding
        PROVE  TranscriptInv(b)'
    <3>1. TranscriptInv(b)
      BY <2>3 DEF Inv, CostInv
    <3>2. \A d \in Command : command'[d].binding = command[d].binding
      BY DEF OnlyOne
    <3> QED
      BY <3>1, <3>2 DEF TranscriptInv, Key, InOrder, Agrees, Quiet, disk
  <2>5. OwnPart(c)
    BY <1>3, <2>2, <2>3 DEF OwnPart, Quiet, disk
  <2> QED
    BY <1>1, <1>3, <2>1, <2>5, StepKeeps DEF Quiet
<1> QED
  BY <1>2, <1>3

LEMMA DecodedStays ==
    ASSUME Inv, TypeInv', admission = None, NEW c \in Command, decoded' = decoded,
           faults' = faults \/ \E operation \in Operation : Fails(operation)
    PROVE  Whole(decoded[c])' /\ Len(decoded'[c]) <= Length
<1>1. PICK t \in Seq(Line) : t = decoded[c] /\ t = decoded'[c]
  BY DEF Inv, TypeInv
<1>2. Whole(t) /\ Len(t) <= Length
  BY <1>1 DEF Inv, UnadmittedInv, OpenInv
<1>3. Whole(t)'
  BY <1>2, SoundStays, QuietGrows DEF Inv
<1> QED
  BY <1>1, <1>2, <1>3

\* A command that ends, by itself or by being killed, owns nothing any more.
LEMMA EndKeeps ==
    ASSUME Inv, NEW c \in Command, OnlyOne(c), Quiet,
           command[c].pc \in Running, command'[c].pc \in {"returned", "killed"}
    PROVE  Inv'
<1>1. TypeInv'
  BY LocalType DEF Inv, Early
<1>2. command'[c].pc \notin Owning \union {"flock"} \union Early
  BY DEF Owning, Early
<1>3. ASSUME admission = None
      PROVE  OpenInv(c)'
  <2>1. Whole(decoded[c])' /\ Len(decoded'[c]) <= Length
    BY <1>1, <1>3, DecodedStays DEF Quiet
  <2> QED
    BY <1>2, <2>1 DEF OpenInv, Owning, Early
<1>4. KeepsUp(c)'
  BY <1>2 DEF KeepsUp, Owning
<1> QED
  BY <1>2, <1>3, <1>4, LocalStep

\* A command that moves on.
LEMMA MoveKeeps ==
    ASSUME Inv, NEW c \in Command, NEW pc \in Running, Goto(c, pc), Quiet,
           command[c].pc \in Running,
           pc \in Early => command[c].pc \in Early,
           admission = None =>
               /\ pc \notin {"resolve", "list", "remove"}
               /\ pc \in Owning \union {"flock"} => command[c].pc \in Owning \union {"flock"}
               /\ pc \in {"admit", "persist"} => Len(decoded[c]) = Length
               /\ pc = "label" => segments[Key(c)] = NoFile
               /\ pc # "decode"
               /\ pc \in Owning =>
                     \/ command[c].pc \in Owning
                     \/ \A d \in Command \ {c} :
                           command[d].pc \in Owning => Key(d) # Key(c)
               /\ Undisturbed /\ pc \in {"begin", "label"} => segments[Key(c)] = NoFile
    PROVE  Inv'
<1>1. /\ OnlyOne(c) /\ command'[c].pc = pc
      /\ command'[c].handle = command[c].handle
      /\ command'[c].binding = Key(c)
  BY GotoEffect DEF Inv, Running, OnlyOne, Key
<1>2. TypeInv' /\ pc # "idle"
  BY <1>1, LocalType DEF Inv, Running
<1>3. ASSUME admission = None
      PROVE  OpenInv(c)'
  <2>1. Whole(decoded[c])' /\ Len(decoded'[c]) <= Length
    BY <1>2, <1>3, DecodedStays DEF Quiet
  <2>2. OpenInv(c)
    BY <1>3 DEF Inv, UnadmittedInv
  <2>3. directory' = directory /\ lock' = lock /\ segments' = segments /\ decoded' = decoded
    BY DEF Quiet, disk
  <2>4. pc \in Owning \union {"flock"} =>
           /\ Key(c) \in directory'
           /\ lock'[Key(c)] # 0 /\ command'[c].handle = lock'[Key(c)]
    BY <1>1, <1>3, <2>2, <2>3 DEF OpenInv
  <2> QED
    BY <1>1, <1>3, <2>1, <2>3, <2>4 DEF OpenInv, Key
<1>4. ASSUME admission = None, Undisturbed
      PROVE  KeepsUp(c)'
  <2>1. KeepsUp(c)
    BY <1>4 DEF Inv, CostInv
  <2>2. directory' = directory /\ segments' = segments
    BY DEF Quiet, disk
  <2> QED
    BY <1>1, <1>4, <2>1, <2>2 DEF KeepsUp, Key
<1> QED
  BY <1>1, <1>2, <1>3, <1>4, LocalStep

-----------------------------------------------------------------------------
(* The steps that touch neither the disk nor the results. *)

LEMMA LookupResultKeeps ==
    ASSUME Inv, NEW c \in Command, LookupResult(c)
    PROVE  Inv'
<1>1. command[c].pc = "lookup" /\ Quiet
  BY DEF LookupResult, Quiet
<1>2. CASE Return(c, "reused")
  BY <1>1, <1>2, ReturnEffect, EndKeeps DEF Inv, Running, Places
<1>3. CASE Goto(c, "mkdir")
  BY <1>1, <1>3, MoveKeeps DEF Running, Places, Owning, Early
<1> QED
  BY <1>2, <1>3 DEF LookupResult

LEMMA FlockKeeps ==
    ASSUME Inv, NEW c \in Command, Flock(c)
    PROVE  Inv'
<1>1. command[c].pc = "flock" /\ Quiet
  BY DEF Flock, Quiet
<1>2. CASE Owners(command[c].handle) # {}
  BY <1>1, <1>2, ReturnEffect, EndKeeps DEF Flock, Inv, Running, Places
<1>3. CASE Owners(command[c].handle) = {}
  <2>1. Goto(c, "load")
    BY <1>3 DEF Flock
  <2>2. ASSUME admission = None, NEW d \in Command, command[d].pc \in Owning
        PROVE  Key(d) # Key(c)
    <3>1. command[c].handle = lock[Key(c)] /\ command[d].handle = lock[Key(d)]
      BY <1>1, <2>2 DEF Inv, UnadmittedInv, OpenInv
    <3> QED
      BY <1>3, <2>2, <3>1 DEF Owners
  <2> QED
    BY <1>1, <2>1, <2>2, MoveKeeps DEF Running, Places, Owning, Early
<1> QED
  BY <1>2, <1>3

LEMMA EngineFailsKeeps ==
    ASSUME Inv, NEW c \in Command, EngineFails(c)
    PROVE  Inv'
BY ReturnEffect, EndKeeps DEF EngineFails, Quiet, Inv, Running, Places, Owning

LEMMA FinishKeeps ==
    ASSUME Inv, NEW c \in Command, Finish(c)
    PROVE  Inv'
<1>1. command[c].pc = "decode" /\ Quiet /\ Goto(c, "admit") /\ Len(decoded[c]) >= Length
  BY DEF Finish, Quiet
<1>2. Len(decoded[c]) \in Nat /\ Length \in Nat
  BY BoundsAssumption DEF Inv, TypeInv
<1>3. admission = None => Len(decoded[c]) = Length
  BY <1>1, <1>2 DEF Inv, UnadmittedInv, OpenInv
<1> QED
  BY <1>1, <1>3, MoveKeeps DEF Running, Places, Owning, Early

LEMMA LookupAdmissionKeeps ==
    ASSUME Inv, NEW c \in Command, LookupAdmission(c)
    PROVE  Inv'
<1>1. command[c].pc = "admit" /\ Quiet
  BY DEF LookupAdmission, Quiet
<1>2. admission = None => Len(decoded[c]) = Length
  BY <1>1 DEF Inv, UnadmittedInv, OpenInv
<1>3. CASE admission # None
  BY <1>1, <1>3, MoveKeeps DEF LookupAdmission, Running, Places, Owning, Early
<1>4. CASE admission = None
  BY <1>1, <1>2, <1>4, MoveKeeps DEF LookupAdmission, Running, Places, Owning, Early
<1> QED
  BY <1>3, <1>4

LEMMA PersistCollidesKeeps ==
    ASSUME Inv, NEW c \in Command, PersistCollides(c)
    PROVE  Inv'
BY MoveKeeps DEF PersistCollides, Quiet, Running, Places, Owning, Early

LEMMA PersistFailsKeeps ==
    ASSUME Inv, NEW c \in Command, PersistFails(c)
    PROVE  Inv'
BY ReturnEffect, EndKeeps DEF PersistFails, Quiet, Inv, Running, Places, Owning

LEMMA ResolveKeeps ==
    ASSUME Inv, NEW c \in Command, Resolve(c)
    PROVE  Inv'
<1>1. command[c].pc = "resolve" /\ Quiet
  BY DEF Resolve, Quiet
<1>2. admission # None
  BY <1>1 DEF Inv, UnadmittedInv, OpenInv
<1>3. CASE Return(c, "conflict")
  BY <1>1, <1>3, ReturnEffect, EndKeeps DEF Inv, Running, Places, Owning
<1>4. CASE Goto(c, "list")
  BY <1>1, <1>2, <1>4, MoveKeeps DEF Running, Places, Owning, Early
<1> QED
  BY <1>3, <1>4 DEF Resolve

LEMMA KillKeeps ==
    ASSUME Inv, NEW c \in Command, Kill(c)
    PROVE  Inv'
<1>1. command[c].pc \in Running /\ Quiet
  BY DEF Kill, Started, Quiet, Inv, TypeInv, CommandState, Running
<1>2. command' = [command EXCEPT ![c] = Ended(c, "killed", None)]
  BY EndedType DEF Kill, Inv
<1> QED
  BY <1>1, <1>2, EndEffect, EndKeeps DEF Inv

-----------------------------------------------------------------------------
(* The steps that begin an execution and take its checkpoint. *)

LEMMA TranscribeKeeps ==
    ASSUME Inv, NEW c \in Command, NEW b \in Binding, NEW forced \in BOOLEAN,
           Transcribe(c, b, forced)
    PROVE  Inv'
<1>1. TypeInv /\ command[c] = NotStarted /\ decoded[c] = <<>> /\ "idle" \in Early
  BY DEF Transcribe, Inv, TypeInv, Early
<1>2. /\ command' \in [Command -> CommandState]
      /\ command'[c].pc = "lookup" /\ command'[c].binding = b
      /\ \A d \in Command \ {c} : command'[d] = command[d]
  <2>1. PICK r \in CommandState : r = command[c]
    BY <1>1 DEF TypeInv
  <2>2. command' = [command EXCEPT ![c].pc = "lookup", ![c].binding = b, ![c].forced = forced]
    BY DEF Transcribe
  <2> QED
    BY <1>1, <2>1, <2>2 DEF TypeInv, CommandState, Places
<1>3. Quiet /\ command[c].pc = "idle"
  BY DEF Transcribe, Quiet
<1>4. "lookup" \in Early /\ "lookup" \notin Owning \union {"flock"}
  BY DEF Early, Owning
<1>5. TypeInv'
  <2>1. ASSUME NEW d \in Command
        PROVE  /\ command'[d].pc = "idle" => command'[d] = NotStarted
               /\ command'[d].pc \in Early => decoded[d] = <<>>
               /\ command'[d].pc # "idle" => command'[d].binding \in Binding
    BY <1>1, <1>2, <1>4 DEF TypeInv, Key, Running
  <2> QED
    BY <1>1, <1>2, <1>3, <2>1 DEF TypeInv, Quiet, disk, Key, Running
<1>6. Grows
  BY <1>1, <1>3, QuietGrows DEF Quiet
<1>7. CASE admission # None
  BY <1>3, <1>5, <1>6, <1>7, AdmittedStays DEF Quiet
<1>8. CASE admission = None
  <2>1. OneSteps(c)
    BY <1>2, <1>3, <1>4 DEF OneSteps, Quiet, disk
  <2>2. OpenInv(c)'
    <3>1. Whole(decoded[c])' /\ Len(decoded'[c]) <= Length
      BY <1>3, <1>5, <1>8, DecodedStays DEF Quiet
    <3> QED
      BY <1>2, <1>4, <3>1 DEF OpenInv, Owning
  <2>3. Undisturbed' => Undisturbed
    BY <1>1, <1>2, <1>3 DEF Undisturbed, NoFault, Quiet, NotStarted
  <2>4. ASSUME Undisturbed
        PROVE  TranscriptInv(b)'
    <3>1. TranscriptInv(b)
      BY <2>4 DEF Inv, CostInv
    <3>2. \A d \in Command \ {c} : command'[d].binding = Key(d)
      BY <1>2 DEF Key
    <3>3. decoded' = decoded /\ segments' = segments /\ metadata' = metadata
      BY <1>3 DEF Quiet, disk
    <3>4. CASE segments[b] = NoFile
      BY <1>1, <3>1, <3>2, <3>3, <3>4 DEF TranscriptInv, Key
    <3>5. CASE segments[b] # NoFile
      <4>1. PICK t \in Seq(Line) : t = segments[b].lines
        BY <1>1, <3>5 DEF TypeInv, File, NoFile
      <4>2. Agrees(decoded[c], Len(decoded[c]), t)
        BY <1>1 DEF Agrees
      <4> QED
        BY <1>1, <3>1, <3>2, <3>3, <3>5, <4>1, <4>2 DEF TranscriptInv, Key, InOrder, Agrees
    <3> QED
      BY <3>4, <3>5
  <2>5. KeepsUp(c)'
    BY <1>2, <1>4 DEF KeepsUp, Owning
  <2>6. OwnPart(c)
    BY <1>2, <1>3, <2>2, <2>3, <2>4, <2>5 DEF OwnPart, Quiet, disk
  <2> QED
    BY <1>3, <1>5, <1>6, <1>8, <2>1, <2>6, StepKeeps DEF Inv, Quiet
<1> QED
  BY <1>7, <1>8

\* A step of the running command c that also touches the disk.
LEMMA DiskType ==
    ASSUME TypeInv, NEW c \in Command, OnlyOne(c),
           command[c].pc \in Running, command'[c].pc # "idle",
           command'[c].pc \in Early => decoded'[c] = <<>>,
           lock' \in [Binding -> Nat], segments' \in [Binding -> File \union {NoFile}],
           admission' \in Seq(Line) \union {None},
           decoded' \in [Command -> Seq(Line)],
           \A d \in Command \ {c} : decoded'[d] = decoded[d],
           faults' \in [Operation -> Nat], crashes' = crashes
    PROVE  TypeInv'
<1>1. ASSUME NEW d \in Command
      PROVE  /\ command'[d].pc = "idle" => command'[d] = NotStarted
             /\ command'[d].pc \in Early => decoded'[d] = <<>>
             /\ command'[d].pc # "idle" => command'[d].binding \in Binding
  BY DEF TypeInv, OnlyOne, Key, Running
<1> QED
  BY <1>1 DEF TypeInv, OnlyOne, Key, Running

\* While nothing is admitted and no write was lost, a step that leaves the
\* recorded and the decoded segments alone leaves every transcript alone.
LEMMA TranscriptsStay ==
    ASSUME Inv, NEW c \in Command, OnlyOne(c), Undisturbed,
           segments' = segments, decoded' = decoded, metadata \subseteq metadata',
           NEW b \in Binding
    PROVE  TranscriptInv(b)'
<1>1. TranscriptInv(b)
  BY DEF Inv, CostInv
<1>2. \A d \in Command : command'[d].binding = command[d].binding
  BY DEF OnlyOne
<1> QED
  BY <1>1, <1>2 DEF TranscriptInv, Key, InOrder, Agrees

LEMMA MakeDirectoryKeeps ==
    ASSUME Inv, NEW c \in Command, MakeDirectory(c)
    PROVE  Inv'
<1>1. /\ TypeInv /\ command[c].pc = "mkdir" /\ Goto(c, "open")
      /\ directory' = directory \union {Key(c)}
      /\ UNCHANGED <<lock, metadata, segments, admission, decoded, faults, crashes>>
  BY DEF MakeDirectory, Inv
<1>2. /\ OnlyOne(c) /\ command'[c].pc = "open"
      /\ "mkdir" \in Running /\ "mkdir" \in Early
      /\ "open" \notin Owning \union {"flock"}
  BY <1>1, GotoEffect DEF Places, Owning, Running, Early
<1>3. TypeInv'
  BY <1>1, <1>2, DiskType DEF TypeInv
<1>4. Grows
  BY <1>1, QuietGrows
<1>5. CASE admission # None
  BY <1>1, <1>3, <1>4, <1>5, AdmittedStays
<1>6. CASE admission = None
  <2>1. OneSteps(c)
    BY <1>1, <1>2 DEF OneSteps, OnlyOne
  <2>2. Whole(decoded[c])' /\ Len(decoded'[c]) <= Length
    BY <1>1, <1>3, <1>6, DecodedStays
  <2>3. OpenInv(c)'
    BY <1>2, <2>2 DEF OpenInv, Owning
  <2>4. Undisturbed' => Undisturbed
    BY <1>1, <1>2 DEF Undisturbed, NoFault, OnlyOne
  <2>5. KeepsUp(c)'
    BY <1>2 DEF KeepsUp, Owning
  <2>6. OwnPart(c)
    BY <1>1, <1>2, <2>3, <2>4, <2>5, TranscriptsStay DEF OwnPart
  <2> QED
    BY <1>1, <1>3, <1>4, <1>6, <2>1, <2>6, StepKeeps
<1> QED
  BY <1>5, <1>6

LEMMA FreshInodeIsNew == TypeInv => FreshInode \in Nat \ {0}
<1> SUFFICES ASSUME TypeInv
             PROVE  FreshInode \in Nat \ {0}
  OBVIOUS
<1> DEFINE LockInodes == {lock[b] : b \in Binding}
           Handles == {command[c].handle : c \in Command}
<1>1. IsFiniteSet(LockInodes)
  <2>1. lock \in Surjection(Binding, LockInodes)
    BY DEF Surjection, TypeInv
  <2> QED
    BY <2>1, FS_Surjection, FiniteAssumption
<1>2. IsFiniteSet(Handles)
  <2> DEFINE handle == [c \in Command |-> command[c].handle]
  <2>1. handle \in Surjection(Command, Handles)
    BY DEF Surjection
  <2> HIDE DEF handle
  <2> QED
    BY <2>1, FS_Surjection, FiniteAssumption
<1>3. IsFiniteSet(Inodes)
  BY <1>1, <1>2, FS_Union DEF Inodes
<1>4. PICK k \in Nat : k = Cardinality(Inodes)
  BY <1>3, FS_CardinalityType
<1>5. \E n \in 1 .. (k + 1) : n \notin Inodes
  <2> SUFFICES ASSUME 1 .. (k + 1) \subseteq Inodes
               PROVE  FALSE
    OBVIOUS
  <2>1. Cardinality(1 .. (k + 1)) = k + 1
    BY FS_Interval
  <2>2. Cardinality(1 .. (k + 1)) <= k
    BY <1>3, <1>4, FS_Subset
  <2> QED
    BY <2>1, <2>2
<1>6. FreshInode \in 1 .. (k + 1)
  BY <1>4, <1>5 DEF FreshInode
<1> QED
  BY <1>6

LEMMA OpenLockKeeps ==
    ASSUME Inv, NEW c \in Command, OpenLock(c)
    PROVE  Inv'
<1>1. /\ TypeInv /\ command[c].pc = "open" /\ "open" \in Running /\ "open" \in Early
      /\ UNCHANGED <<directory, metadata, segments, admission, decoded, faults, crashes>>
  BY DEF OpenLock, Inv, Running, Places, Early, Owning
<1>2. CASE Key(c) \notin directory
  BY <1>1, <1>2, ReturnEffect, EndKeeps DEF OpenLock, Quiet, disk
<1>3. CASE Key(c) \in directory
  <2>1. PICK inode \in Nat \ {0} : inode = IF lock[Key(c)] = 0 THEN FreshInode ELSE lock[Key(c)]
    BY <1>1, FreshInodeIsNew DEF TypeInv, Running
  <2>2. Key(c) \in Binding
    BY <1>1 DEF TypeInv, Running
  <2>3. lock' = [lock EXCEPT ![Key(c)] = inode]
    BY <1>3, <2>1 DEF OpenLock
  <2>4. /\ lock' \in [Binding -> Nat] /\ lock'[Key(c)] = inode
        /\ \A b \in Binding : lock[b] # 0 => lock'[b] = lock[b]
    BY <1>1, <2>1, <2>2, <2>3 DEF TypeInv
  <2>5. /\ OnlyOne(c) /\ command'[c].pc = "flock" /\ command'[c].handle = inode
    <3>1. command' = [command EXCEPT ![c].pc = "flock", ![c].handle = inode]
      BY <1>3, <2>4 DEF OpenLock
    <3>2. PICK r \in CommandState : r = command[c]
      BY <1>1 DEF TypeInv
    <3> QED
      BY <1>1, <2>1, <3>1, <3>2 DEF TypeInv, OnlyOne, CommandState, Places
  <2>6. "flock" \notin Owning /\ "flock" \in Early
    BY DEF Owning, Early
  <2>7. TypeInv'
    BY <1>1, <2>4, <2>5, DiskType DEF TypeInv
  <2>8. Grows
    BY <1>1, QuietGrows
  <2>9. CASE admission # None
    BY <1>1, <2>7, <2>8, <2>9, AdmittedStays
  <2>10. CASE admission = None
    <3>1. OneSteps(c)
      BY <1>1, <2>4, <2>5, <2>6 DEF OneSteps, OnlyOne
    <3>2. Whole(decoded[c])' /\ Len(decoded'[c]) <= Length
      BY <1>1, <2>7, <2>10, DecodedStays
    <3>3. OpenInv(c)'
      BY <1>1, <1>3, <2>1, <2>4, <2>5, <3>2 DEF OpenInv, OnlyOne, Key
    <3>4. Undisturbed' => Undisturbed
      BY <1>1, <2>5 DEF Undisturbed, NoFault, OnlyOne
    <3>5. KeepsUp(c)'
      BY <1>1, <1>3, <2>5 DEF KeepsUp, OnlyOne, Key
    <3>6. OwnPart(c)
      BY <1>1, <2>5, <3>3, <3>4, <3>5, TranscriptsStay DEF OwnPart
    <3> QED
      BY <1>1, <2>7, <2>8, <2>10, <3>1, <3>6, StepKeeps
  <2> QED
    BY <2>9, <2>10
<1> QED
  BY <1>2, <1>3

\* A checkpoint that may be resumed is one execution's, and not too long.
LEMMA ResumableIsWhole ==
    ASSUME Inv, admission = None, NEW b \in Binding, Resumable(b),
           NEW s \in Seq(Line), s = segments[b].lines
    PROVE  Whole(s) /\ Len(s) <= Length
<1>1. segments[b] # NoFile /\ s # <<>> /\ Increasing(s)
  BY DEF Resumable
<1>2. Whole(s)
  <2>1. Sound(s)
    BY <1>1 DEF Inv, UnadmittedInv
  <2>2. InOrder(s, Len(s))
    BY <1>1 DEF Increasing, InOrder
  <2> QED
    BY <2>1, <2>2 DEF Whole
<1>3. PICK n \in 1 .. Len(s) : n = Len(s)
  BY <1>1
<1>4. s[n].ordinal = n /\ s[n].ordinal <= Length
  BY <1>2, <1>3 DEF Whole, Sound, InOrder
<1> QED
  BY <1>2, <1>3, <1>4

LEMMA ResumeKeeps ==
    ASSUME Inv, NEW c \in Command, Load(c), Resumable(Key(c)), ~command[c].forced
    PROVE  Inv'
<1>1. /\ TypeInv /\ command[c].pc = "load" /\ Goto(c, "decode")
      /\ UNCHANGED <<disk, admission, faults, crashes>>
      /\ "load" \in Running /\ "load" \in Owning /\ "load" \in Early
      /\ "decode" \in Running /\ "decode" \in Owning /\ "decode" \notin Early
  BY DEF Load, Inv, Running, Places, Early, Owning
<1>2. PICK b \in Binding : b = Key(c)
  BY <1>1 DEF TypeInv, Running
<1>3. segments[b] \in File /\ b \in metadata
  BY <1>1, <1>2 DEF TypeInv, Resumable
<1>4. PICK s \in Seq(Line) : s = segments[b].lines
  BY <1>3 DEF File
<1>5. decoded' = [decoded EXCEPT ![c] = s]
  BY <1>2, <1>4 DEF Load
<1>6. /\ decoded' \in [Command -> Seq(Line)] /\ decoded'[c] = s /\ decoded[c] = <<>>
      /\ \A d \in Command \ {c} : decoded'[d] = decoded[d]
  BY <1>1, <1>4, <1>5 DEF TypeInv
<1>7. /\ OnlyOne(c) /\ command'[c].pc = "decode" /\ command'[c].binding = b
      /\ command'[c].handle = command[c].handle
  BY <1>1, <1>2, GotoEffect DEF OnlyOne, Running, Key
<1>8. TypeInv'
  BY <1>1, <1>6, <1>7, DiskType DEF TypeInv, disk
<1>9. Grows
  <2>1. ASSUME NEW d \in Command
        PROVE  Agrees(decoded[d], Len(decoded[d]), decoded'[d])
    <3>1. CASE d = c
      BY <1>6, <3>1 DEF Agrees
    <3>2. CASE d # c
      <4>1. decoded[d] \in Seq(Line) /\ decoded'[d] = decoded[d]
        BY <1>1, <1>6, <3>2 DEF TypeInv
      <4> QED
        BY <4>1 DEF Agrees
    <3> QED
      BY <3>1, <3>2
  <2> QED
    BY <1>1, <2>1 DEF Grows
<1>10. CASE admission # None
  BY <1>1, <1>8, <1>9, <1>10, AdmittedStays
<1>11. CASE admission = None
  <2>1. OneSteps(c)
    BY <1>1, <1>2, <1>6, <1>7 DEF OneSteps, OnlyOne, disk
  <2>2. Whole(s) /\ Len(s) <= Length
    BY <1>2, <1>4, <1>11, ResumableIsWhole
  <2>3. Whole(decoded[c])'
    <3>1. Whole(s)'
      BY <1>1, <1>8, <1>9, <2>2, SoundStays
    <3> QED
      BY <1>6, <3>1
  <2>4. OpenInv(c)'
    <3>1. b \in directory' /\ lock'[b] # 0 /\ command'[c].handle = lock'[b]
      BY <1>1, <1>2, <1>7, <1>11 DEF Inv, UnadmittedInv, OpenInv, disk
    <3>2. segments'[b].lines = s
      BY <1>1, <1>4 DEF disk
    <3>3. InStep(s, s)'
      BY DEF InStep, Agrees
    <3>4. InStep(segments[b].lines, decoded[c])'
      BY <1>6, <3>2, <3>3 DEF InStep, InOrder, Agrees
    <3> QED
      BY <1>6, <1>7, <2>2, <2>3, <3>1, <3>4 DEF OpenInv, Key
  <2>5. Undisturbed' => Undisturbed
    BY <1>1, <1>7 DEF Undisturbed, NoFault, OnlyOne
  <2>6. ASSUME Undisturbed
        PROVE  TranscriptInv(b)' /\ KeepsUp(c)'
    <3>1. TranscriptInv(b) /\ KeepsUp(c)
      BY <2>6 DEF Inv, CostInv
    <3>2. segments' = segments /\ metadata' = metadata /\ directory' = directory
      BY <1>1 DEF disk
    <3>3. Agrees(s, Len(s), s)
      BY DEF Agrees
    <3>4. ASSUME NEW d \in Command, command'[d].binding = b
          PROVE  Agrees(decoded'[d], Len(decoded'[d]), s)
      BY <1>3, <1>4, <1>6, <1>7, <3>1, <3>3, <3>4, NoneAssumption
         DEF TranscriptInv, OnlyOne, Key, NoFile
    <3>5. TranscriptInv(b)'
      BY <1>3, <1>4, <3>1, <3>2, <3>4, NoneAssumption
         DEF TranscriptInv, Key, NoFile, InOrder, Agrees
    <3>6. KeepsUp(c)'
      BY <1>1, <1>2, <1>3, <1>4, <1>6, <1>7, <3>1, <3>2 DEF KeepsUp, Key
    <3> QED
      BY <3>5, <3>6
  <2>7. OwnPart(c)
    BY <1>1, <1>7, <2>4, <2>5, <2>6 DEF OwnPart, disk
  <2> QED
    BY <1>1, <1>8, <1>9, <1>11, <2>1, <2>7, StepKeeps
<1> QED
  BY <1>10, <1>11

LEMMA LoadKeeps ==
    ASSUME Inv, NEW c \in Command, Load(c)
    PROVE  Inv'
<1>1. CASE Resumable(Key(c)) /\ ~command[c].forced
  BY <1>1, ResumeKeeps
<1>2. CASE ~(Resumable(Key(c)) /\ ~command[c].forced)
  <2>1. TypeInv /\ command[c].pc = "load" /\ Goto(c, "begin") /\ Quiet
    BY <1>2 DEF Load, Inv, Quiet
  <2>2. /\ "load" \in Running /\ "load" \in Owning /\ "load" \in Early
        /\ "begin" \in Running /\ "begin" \in Owning
    BY DEF Running, Places, Early, Owning
  <2>3. PICK b \in Binding : b = Key(c)
    BY <2>1, <2>2 DEF TypeInv, Running
  <2>4. ASSUME Undisturbed, segments[b] # NoFile
        PROVE  FALSE
    <3>1. TranscriptInv(b) /\ ~command[c].forced
      BY <2>4 DEF Inv, CostInv, Undisturbed
    <3>2. segments[b] \in File
      BY <2>1, <2>4 DEF TypeInv
    <3>3. PICK s \in Seq(Line) : s = segments[b].lines
      BY <3>2 DEF File
    <3>4. b \in metadata /\ s # <<>> /\ InOrder(s, Len(s))
      BY <2>4, <3>1, <3>3 DEF TranscriptInv
    <3>5. Increasing(s)
      BY <3>4 DEF Increasing, InOrder
    <3>6. Malformed \notin Range(s)
      <4> SUFFICES ASSUME NEW n \in 1 .. Len(s), s[n] = Malformed
                   PROVE  FALSE
        BY DEF Range
      <4>1. s[n].ordinal = 0
        BY DEF Malformed, Segment
      <4> QED
        BY <3>4, <4>1 DEF InOrder
    <3>7. Resumable(b)
      BY <2>4, <3>3, <3>4, <3>5, <3>6 DEF Resumable
    <3> QED
      BY <1>2, <2>3, <3>1, <3>7
  <2> QED
    BY <2>1, <2>2, <2>3, <2>4, MoveKeeps
<1> QED
  BY <1>1, <1>2

LEMMA StoreRaisesKeeps ==
    ASSUME Inv, NEW c \in Command, StoreRaises(c)
    PROVE  Inv'
<1>1. command[c].pc \in Running /\ Quiet
  BY DEF StoreRaises, Quiet, Running, Places, Owning
<1> QED
  BY <1>1, ReturnEffect, EndKeeps DEF StoreRaises, Inv

\* A checkpoint that cannot be read, or cannot be removed: the command goes on
\* with nothing, over a file that is as it was.
LEMMA FaultKeeps ==
    ASSUME Inv, NEW c \in Command, NEW pc \in {"begin", "decode"}, Goto(c, pc),
           command[c].pc \in {"load", "begin"}, directory \subseteq directory',
           UNCHANGED <<lock, metadata, segments, admission, decoded, crashes>>,
           NEW operation \in Operation, Fails(operation),
           pc = "decode" => operation = "unlink"
    PROVE  Inv'
<1>1. /\ TypeInv /\ command[c].pc \in Running /\ command[c].pc \in Owning
      /\ command[c].pc \in Early /\ pc \in Running /\ pc \in Owning /\ pc # "idle"
      /\ pc \notin {"resolve", "list", "remove", "admit", "persist", "label"}
  BY DEF Inv, Running, Places, Early, Owning
<1>2. PICK b \in Binding : b = Key(c)
  BY <1>1 DEF TypeInv, Running
<1>3. /\ OnlyOne(c) /\ command'[c].pc = pc /\ command'[c].binding = b
      /\ command'[c].handle = command[c].handle
  BY <1>1, <1>2, GotoEffect DEF OnlyOne, Running, Key
<1>4. decoded[c] = <<>> /\ decoded' = decoded
  BY <1>1 DEF TypeInv
<1>5. TypeInv'
  BY <1>1, <1>3, <1>4, FaultsGrow, DiskType DEF TypeInv
<1>6. Grows
  BY <1>1, QuietGrows
<1>7. faults'[operation] # 0 /\ ~Undisturbed'
  BY <1>1, FailsEffect
<1>8. CASE admission # None
  BY <1>5, <1>6, <1>8, AdmittedStays
<1>9. CASE admission = None
  <2>1. OneSteps(c)
    BY <1>1, <1>2, <1>3 DEF OneSteps, OnlyOne
  <2>2. Whole(decoded[c])' /\ Len(decoded'[c]) <= Length
    BY <1>5, <1>9, DecodedStays
  <2>3. b \in directory' /\ lock'[b] # 0 /\ command'[c].handle = lock'[b]
    BY <1>1, <1>2, <1>3, <1>9 DEF Inv, UnadmittedInv, OpenInv
  <2>4. ASSUME pc = "decode", segments'[b] # NoFile
        PROVE  InStep(segments[b].lines, decoded[c])'
    <3>1. faults'["unlink"] # 0
      BY <1>7, <2>4
    <3>2. Len(decoded'[c]) = 0
      BY <1>4
    <3>3. Len(segments'[b].lines) = 0 =>
             Agrees(segments'[b].lines, Len(segments'[b].lines), decoded'[c])
      BY <3>2 DEF Agrees
    <3> QED
      BY <3>1, <3>2, <3>3 DEF InStep, InOrder, Agrees
  <2>5. OpenInv(c)'
    BY <1>1, <1>3, <2>2, <2>3, <2>4 DEF OpenInv, Key
  <2>6. OwnPart(c)
    BY <1>7, <2>5 DEF OwnPart
  <2> QED
    BY <1>5, <1>6, <1>9, <2>1, <2>6, StepKeeps
<1> QED
  BY <1>8, <1>9

LEMMA LoadFailsKeeps ==
    ASSUME Inv, NEW c \in Command, LoadFails(c)
    PROVE  Inv'
BY FaultKeeps DEF LoadFails, disk, Operation

LEMMA BeginUnlinkFailsKeeps ==
    ASSUME Inv, NEW c \in Command, BeginUnlinkFails(c)
    PROVE  Inv'
BY FaultKeeps DEF BeginUnlinkFails, Operation

LEMMA BeginUnlinkKeeps ==
    ASSUME Inv, NEW c \in Command, BeginUnlink(c)
    PROVE  Inv'
<1>1. /\ TypeInv /\ command[c].pc = "begin" /\ Goto(c, "label")
      /\ directory' = directory \union {Key(c)}
      /\ UNCHANGED <<lock, metadata, admission, decoded, faults, crashes>>
      /\ "begin" \in Running /\ "begin" \in Owning /\ "begin" \in Early
      /\ "label" \in Running /\ "label" \in Owning /\ "label" \in Early
  BY DEF BeginUnlink, Inv, Running, Places, Early, Owning
<1>2. PICK b \in Binding : b = Key(c)
  BY <1>1 DEF TypeInv, Running
<1>3. segments' = [segments EXCEPT ![b] = NoFile]
  BY <1>2 DEF BeginUnlink
<1>4. /\ segments' \in [Binding -> File \union {NoFile}] /\ segments'[b] = NoFile
      /\ \A a \in Binding \ {b} : segments'[a] = segments[a]
  BY <1>1, <1>3 DEF TypeInv
<1>5. /\ OnlyOne(c) /\ command'[c].pc = "label" /\ command'[c].binding = b
      /\ command'[c].handle = command[c].handle
  BY <1>1, <1>2, GotoEffect DEF OnlyOne, Running, Key
<1>6. TypeInv'
  BY <1>1, <1>4, <1>5, DiskType DEF TypeInv
<1>7. Grows
  BY <1>1, QuietGrows
<1>8. CASE admission # None
  BY <1>1, <1>6, <1>7, <1>8, AdmittedStays
<1>9. CASE admission = None
  <2>1. OneSteps(c)
    BY <1>1, <1>2, <1>4, <1>5 DEF OneSteps, OnlyOne
  <2>2. Whole(decoded[c])' /\ Len(decoded'[c]) <= Length
    BY <1>1, <1>6, <1>9, DecodedStays
  <2>3. OpenInv(c)'
    <3>1. b \in directory' /\ lock'[b] # 0 /\ command'[c].handle = lock'[b]
      BY <1>1, <1>2, <1>5, <1>9 DEF Inv, UnadmittedInv, OpenInv
    <3> QED
      BY <1>4, <1>5, <2>2, <3>1 DEF OpenInv, Key
  <2>4. Undisturbed' => Undisturbed
    BY <1>1, <1>5 DEF Undisturbed, NoFault, OnlyOne
  <2>5. ASSUME Undisturbed
        PROVE  TranscriptInv(b)' /\ KeepsUp(c)'
    <3>1. segments[b] = NoFile
      BY <1>1, <1>2, <2>5 DEF Inv, CostInv, KeepsUp
    <3>2. segments' = segments
      BY <1>1, <1>3, <3>1 DEF TypeInv
    <3>3. TranscriptInv(b)'
      BY <1>1, <1>5, <2>5, <3>2, TranscriptsStay
    <3>4. KeepsUp(c)'
      BY <1>1, <1>2, <1>4, <1>5 DEF KeepsUp, Key
    <3> QED
      BY <3>3, <3>4
  <2>6. OwnPart(c)
    BY <1>4, <1>5, <2>3, <2>4, <2>5 DEF OwnPart
  <2> QED
    BY <1>1, <1>6, <1>7, <1>9, <2>1, <2>6, StepKeeps
<1> QED
  BY <1>8, <1>9

\* A fresh checkpoint with its metadata, or without for a failing write.
LEMMA LabelledKeeps ==
    ASSUME Inv, NEW c \in Command, command[c].pc = "label", Goto(c, "decode"),
           UNCHANGED <<directory, lock, segments, admission, decoded, crashes>>,
           metadata \subseteq metadata',
           faults' = faults \/ \E operation \in Operation : Fails(operation),
           Undisturbed' => Undisturbed /\ (Key(c) \in directory => Key(c) \in metadata')
    PROVE  Inv'
<1>1. /\ TypeInv
      /\ "label" \in Running /\ "label" \in Owning /\ "label" \in Early
      /\ "decode" \in Running /\ "decode" \in Owning /\ "decode" \notin Early
  BY DEF Inv, Running, Places, Early, Owning
<1>2. PICK b \in Binding : b = Key(c)
  BY <1>1 DEF TypeInv, Running
<1>3. /\ OnlyOne(c) /\ command'[c].pc = "decode" /\ command'[c].binding = b
      /\ command'[c].handle = command[c].handle
  BY <1>1, <1>2, GotoEffect DEF OnlyOne, Running, Key
<1>4. TypeInv'
  BY <1>1, <1>3, FaultsGrow, DiskType DEF TypeInv
<1>5. Grows
  BY <1>1, QuietGrows
<1>6. CASE admission # None
  BY <1>4, <1>5, <1>6, AdmittedStays
<1>7. CASE admission = None
  <2>1. OneSteps(c)
    BY <1>1, <1>2, <1>3 DEF OneSteps, OnlyOne
  <2>2. Whole(decoded[c])' /\ Len(decoded'[c]) <= Length
    BY <1>4, <1>7, DecodedStays
  <2>3. /\ segments[b] = NoFile /\ b \in directory
        /\ lock[b] # 0 /\ command[c].handle = lock[b]
    BY <1>1, <1>2, <1>7 DEF Inv, UnadmittedInv, OpenInv
  <2>4. OpenInv(c)'
    BY <1>3, <2>2, <2>3 DEF OpenInv, Key
  <2>5. ASSUME Undisturbed'
        PROVE  KeepsUp(c)'
    BY <1>2, <1>3, <2>3, <2>5 DEF KeepsUp, Key
  <2>6. OwnPart(c)
    BY <1>3, <2>4, <2>5, TranscriptsStay DEF OwnPart
  <2> QED
    BY <1>4, <1>5, <1>7, <2>1, <2>6, StepKeeps
<1> QED
  BY <1>6, <1>7

LEMMA BeginMetadataKeeps ==
    ASSUME Inv, NEW c \in Command, BeginMetadata(c)
    PROVE  Inv'
<1>1. /\ command[c].pc = "label" /\ Goto(c, "decode") /\ TypeInv
      /\ UNCHANGED <<directory, lock, segments, admission, decoded, faults, crashes>>
      /\ metadata' = metadata \union ({Key(c)} \cap directory)
  BY DEF BeginMetadata, Inv
<1>2. OnlyOne(c)
  BY <1>1, GotoEffect DEF Places, Owning
<1>3. Undisturbed' => Undisturbed
  BY <1>1, <1>2 DEF Undisturbed, NoFault, OnlyOne
<1> QED
  BY <1>1, <1>3, LabelledKeeps DEF TypeInv

LEMMA BeginMetadataFailsKeeps ==
    ASSUME Inv, NEW c \in Command, BeginMetadataFails(c)
    PROVE  Inv'
<1>1. /\ command[c].pc = "label" /\ Goto(c, "decode") /\ TypeInv
      /\ UNCHANGED <<directory, lock, metadata, segments, admission, decoded, crashes>>
      /\ Fails("metadata") /\ "metadata" \in Operation
  BY DEF BeginMetadataFails, Inv, disk, Operation
<1>2. ~Undisturbed'
  BY <1>1, FailsEffect
<1> QED
  BY <1>1, <1>2, LabelledKeeps

-----------------------------------------------------------------------------
(* The steps that decode a segment. *)

\* The command c has decoded one segment more than t.
Decodes(c, t, u) ==
    /\ t = decoded[c] /\ u = Append(t, Segment(c, Len(t) + 1))
    /\ decoded' = [decoded EXCEPT ![c] = u]

LEMMA DecodesEffect ==
    ASSUME TypeInv, NEW c \in Command, NEW t \in Seq(Line), NEW u, Decodes(c, t, u),
           faults' = faults \/ \E operation \in Operation : Fails(operation)
    PROVE  /\ u \in Seq(Line) /\ Len(u) = Len(t) + 1
           /\ \A n \in 1 .. Len(t) : u[n] = t[n]
           /\ u[Len(t) + 1] = Segment(c, Len(t) + 1)
           /\ decoded' \in [Command -> Seq(Line)] /\ decoded'[c] = u
           /\ \A d \in Command \ {c} : decoded'[d] = decoded[d]
           /\ Grows
<1>1. PICK x \in Line : x = Segment(c, Len(t) + 1)
  <2>1. Len(t) + 1 \in Nat
    OBVIOUS
  <2>2. Segment(c, Len(t) + 1) \in Line
    BY <2>1 DEF Segment, Line
  <2> QED
    BY <2>2
<1>2. u \in Seq(Line) /\ Len(u) = Len(t) + 1 /\ u[Len(t) + 1] = x
      /\ \A n \in 1 .. Len(t) : u[n] = t[n]
  BY <1>1, AppendProperties DEF Decodes
<1>3. /\ decoded' \in [Command -> Seq(Line)] /\ decoded'[c] = u
      /\ \A d \in Command \ {c} : decoded'[d] = decoded[d]
  BY <1>2 DEF Decodes, TypeInv
<1>4. ASSUME NEW d \in Command
      PROVE  Agrees(decoded[d], Len(decoded[d]), decoded'[d])
  <2>1. CASE d = c
    BY <1>2, <1>3, <2>1 DEF Agrees, Decodes
  <2>2. CASE d # c
    <3>1. decoded[d] \in Seq(Line) /\ decoded'[d] = decoded[d]
      BY <1>3, <2>2 DEF TypeInv
    <3> QED
      BY <3>1 DEF Agrees
  <2> QED
    BY <2>1, <2>2
<1> QED
  BY <1>1, <1>2, <1>3, <1>4, FaultsGrow DEF Grows

LEMMA DecodesWhole ==
    ASSUME TypeInv, TypeInv', NEW c \in Command, NEW t \in Seq(Line), NEW u,
           Decodes(c, t, u), Whole(t), Len(t) < Length,
           faults' = faults \/ \E operation \in Operation : Fails(operation)
    PROVE  Whole(u)'
<1>1. /\ u \in Seq(Line) /\ Len(u) = Len(t) + 1
      /\ \A n \in 1 .. Len(t) : u[n] = t[n]
      /\ u[Len(t) + 1] = Segment(c, Len(t) + 1) /\ decoded'[c] = u
  BY DecodesEffect
<1>2. Whole(t)'
  BY DecodesEffect, SoundStays
<1>3. u[Len(t) + 1].by = c /\ u[Len(t) + 1].ordinal = Len(t) + 1 /\ Len(t) \in Nat
  BY <1>1 DEF Segment
<1>4. InOrder(u, Len(u))
  BY <1>1, <1>3 DEF Whole, InOrder
<1>5. ASSUME Separate', NEW n \in 1 .. Len(u)
      PROVE  u[n].by \in Command /\ Agrees(u, n, decoded'[u[n].by])
  <2>1. CASE n = Len(t) + 1
    BY <1>1, <1>3, <2>1 DEF Agrees
  <2>2. CASE n \in 1 .. Len(t)
    <3>1. InOrder(t, n)
      BY <2>2 DEF Whole, InOrder
    <3>2. t[n].by \in Command /\ Agrees(t, n, decoded'[t[n].by])
      BY <1>2, <1>5, <2>2, <3>1 DEF Whole, Sound, InOrder, Agrees
    <3> QED
      BY <1>1, <2>2, <3>2 DEF Agrees
  <2> QED
    BY <1>1, <1>3, <2>1, <2>2
<1>6. \A n \in 1 .. Len(u) : u[n].ordinal <= Length
  BY <1>1, <1>3, BoundsAssumption DEF Whole, Sound
<1> QED
  BY <1>4, <1>5, <1>6 DEF Whole, Sound, InOrder, Agrees

\* What is appended to sound lines that the command keeps in step with: its
\* segment, or a line that is none.
LEMMA RecordedIsSound ==
    ASSUME TypeInv, TypeInv', faults' = faults,
           NEW c \in Command, NEW t \in Seq(Line), NEW u, Decodes(c, t, u), Len(t) < Length,
           NEW s \in Seq(Line), Sound(s), InStep(s, t),
           NEW x \in {Segment(c, Len(t) + 1), Malformed}, NEW v, v = Append(s, x)
    PROVE  v \in Seq(Line) /\ Sound(v)' /\ InStep(v, u)'
<1>1. /\ u \in Seq(Line) /\ Len(u) = Len(t) + 1
      /\ \A n \in 1 .. Len(t) : u[n] = t[n]
      /\ u[Len(t) + 1] = Segment(c, Len(t) + 1) /\ decoded'[c] = u
  BY DecodesEffect
<1>2. Sound(s)'
  BY DecodesEffect, SoundStays
<1>3. x \in Line /\ Len(s) \in Nat /\ Len(t) \in Nat /\ x.ordinal <= Length
  BY BoundsAssumption DEF Segment, Malformed, Line
<1>4. v \in Seq(Line) /\ Len(v) = Len(s) + 1 /\ v[Len(s) + 1] = x
      /\ \A n \in 1 .. Len(s) : v[n] = s[n]
  BY <1>3, AppendProperties
<1>5. Separate' = Separate
  BY DEF Separate
<1>6. ASSUME Separate, InOrder(v, Len(v))
      PROVE  x.by = c /\ Len(v) = Len(u) /\ Agrees(v, Len(v), u)
  <2>1. x.ordinal = Len(s) + 1
    BY <1>3, <1>4, <1>6 DEF InOrder
  <2>2. x = Segment(c, Len(t) + 1)
    BY <1>3, <2>1 DEF Malformed, Segment
  <2>3. Len(s) = Len(t) /\ x.by = c
    BY <1>3, <2>1, <2>2 DEF Segment
  <2>4. InOrder(s, Len(s))
    BY <1>3, <1>4, <1>6 DEF InOrder
  <2>5. Agrees(s, Len(s), t)
    BY <1>6, <2>3, <2>4 DEF InStep
  <2> QED
    BY <1>1, <1>3, <1>4, <2>2, <2>3, <2>5 DEF Agrees
<1>7. ASSUME Separate, NEW n \in 1 .. Len(v), InOrder(v, n)
      PROVE  v[n].by \in Command /\ Agrees(v, n, decoded'[v[n].by])
  <2>1. CASE n \in 1 .. Len(s)
    <3>1. InOrder(s, n)
      BY <1>4, <1>7, <2>1 DEF InOrder
    <3>2. s[n].by \in Command /\ Agrees(s, n, decoded'[s[n].by])
      BY <1>2, <1>5, <1>7, <2>1, <3>1 DEF Sound, InOrder, Agrees
    <3>3. v[n] = s[n] /\ \A m \in 1 .. n : v[m] = s[m]
      BY <1>4, <2>1
    <3> QED
      BY <3>2, <3>3 DEF Agrees
  <2>2. CASE n = Len(s) + 1
    BY <1>1, <1>4, <1>6, <1>7, <2>2
  <2> QED
    BY <1>3, <1>4, <2>1, <2>2
<1>8. Sound(v)'
  <2>1. \A n \in 1 .. Len(v) : v[n].ordinal <= Length
    BY <1>2, <1>3, <1>4 DEF Sound
  <2> QED
    BY <1>5, <1>7, <2>1 DEF Sound, InOrder, Agrees
<1>9. InStep(v, u)'
  <2>1. faults'["unlink"] = 0 => Len(v) <= Len(u)
    BY <1>1, <1>3, <1>4 DEF InStep
  <2> QED
    BY <1>5, <1>6, <2>1 DEF InStep, InOrder, Agrees
<1> QED
  BY <1>4, <1>8, <1>9

\* The lines a command of the key b appends to.
Recorded(b, s) == s = IF segments[b] = NoFile THEN <<>> ELSE segments[b].lines

\* A record that is lost, or leaves only a part of itself behind.
LEMMA DecodeUnrecordedKeeps ==
    ASSUME Inv, NEW c \in Command, DecodeUnrecorded(c)
    PROVE  Inv'
<1>1. /\ TypeInv /\ command[c].pc = "decode" /\ Len(decoded[c]) < Length
      /\ UNCHANGED <<directory, lock, metadata, admission, command, crashes>>
      /\ Fails("append") /\ "append" \in Operation
      /\ "decode" \in Running /\ "decode" \in Owning /\ "decode" \notin Early
  BY DEF DecodeUnrecorded, Inv, Operation, Running, Places, Early, Owning
<1>2. PICK b \in Binding : b = Key(c)
  BY <1>1 DEF TypeInv, Running
<1>3. PICK t \in Seq(Line) : t = decoded[c]
  BY <1>1 DEF TypeInv
<1>4. PICK u : u = Append(t, Segment(c, Len(t) + 1))
  OBVIOUS
<1>5. Decodes(c, t, u)
  BY <1>3, <1>4 DEF DecodeUnrecorded, Decodes, NextSegment
<1>6. /\ u \in Seq(Line) /\ Len(u) = Len(t) + 1
      /\ decoded' \in [Command -> Seq(Line)] /\ decoded'[c] = u
      /\ \A d \in Command \ {c} : decoded'[d] = decoded[d]
      /\ Grows
  BY <1>1, <1>5, DecodesEffect
<1>7. OnlyOne(c)
  BY <1>1 DEF OnlyOne, TypeInv
<1>8. PICK s : Recorded(b, s)
  BY DEF Recorded
<1>9. s \in Seq(Line)
  BY <1>1, <1>8 DEF Recorded, TypeInv, File
<1>10. /\ segments' \in [Binding -> File \union {NoFile}]
       /\ \A a \in Binding \ {b} : segments'[a] = segments[a]
       /\ segments'[b] # NoFile => segments'[b].lines = s
  <2>1. CASE segments' = segments
    BY <1>1, <1>8, <2>1 DEF TypeInv, Recorded
  <2>2. CASE segments' = [segments EXCEPT ![b] = WithTail(segments[b])]
    <3>1. PICK file : file = [lines |-> s, torn |-> TRUE]
      OBVIOUS
    <3>2. WithTail(segments[b]) = file
      BY <1>8, <3>1 DEF WithTail, Recorded
    <3>3. file \in File /\ file.lines = s
      BY <1>9, <3>1 DEF File
    <3> QED
      BY <1>1, <2>2, <3>2, <3>3 DEF TypeInv
  <2> QED
    BY <1>2, <2>1, <2>2 DEF DecodeUnrecorded
<1>11. TypeInv'
  BY <1>1, <1>6, <1>7, <1>10, FaultsGrow, DiskType DEF TypeInv
<1>12. faults'["append"] # 0 /\ ~Undisturbed'
  BY <1>1, FailsEffect
<1>13. CASE admission # None
  BY <1>1, <1>6, <1>11, <1>13, AdmittedStays
<1>14. CASE admission = None
  <2>1. OneSteps(c)
    BY <1>1, <1>2, <1>6, <1>10 DEF OneSteps, Key
  <2>2. OpenInv(c)
    BY <1>14 DEF Inv, UnadmittedInv
  <2>3. Whole(u)'
    BY <1>1, <1>3, <1>5, <1>11, <2>2, DecodesWhole DEF OpenInv
  <2>4. Len(u) <= Length
    BY <1>1, <1>3, <1>6, BoundsAssumption
  <2>5. Sound(s) /\ (faults["unlink"] = 0 => Len(s) <= Len(t))
    <3>1. CASE segments[b] = NoFile
      <4>1. Len(s) = 0
        BY <1>8, <3>1 DEF Recorded
      <4> QED
        BY <4>1 DEF Sound
    <3>2. CASE segments[b] # NoFile
      <4>1. s = segments[b].lines
        BY <1>8, <3>2 DEF Recorded
      <4> QED
        BY <1>1, <1>2, <1>3, <1>14, <2>2, <3>2, <4>1 DEF OpenInv, InStep, Inv, UnadmittedInv
    <3> QED
      BY <3>1, <3>2
  <2>6. InStep(s, u)'
    <3>1. faults'["unlink"] = 0 => Len(s) < Len(u)
      BY <1>6, <1>9, <2>5, StaysSeparate
    <3>2. Separate' => faults'["unlink"] = 0
      BY <1>12 DEF Separate
    <3> QED
      BY <1>6, <1>9, <3>1, <3>2 DEF InStep
  <2>7. ASSUME segments'[b] # NoFile
        PROVE  InStep(segments[b].lines, decoded[c])'
    BY <1>6, <1>10, <2>6, <2>7 DEF InStep, InOrder, Agrees
  <2>8. OpenInv(c)'
    <3>1. b \in directory' /\ lock'[b] # 0 /\ command'[c].handle = lock'[b]
      BY <1>1, <1>2, <2>2 DEF OpenInv
    <3>2. command'[c].pc = "decode" /\ command'[c].binding = b
      BY <1>1, <1>2 DEF Key
    <3>3. Whole(decoded[c])'
      BY <1>6, <2>3
    <3> QED
      BY <1>6, <2>4, <2>7, <3>1, <3>2, <3>3 DEF OpenInv, Key
  <2>9. ASSUME NEW a \in Binding, segments'[a] # segments[a], segments'[a] # NoFile
        PROVE  Sound(segments[a].lines)'
    <3>1. segments'[a].lines = s
      BY <1>10, <2>9
    <3>2. Sound(s)'
      BY <1>1, <1>6, <1>9, <1>11, <2>5, SoundStays
    <3> QED
      BY <3>1, <3>2 DEF Sound, InOrder, Agrees
  <2>10. OwnPart(c)
    BY <1>12, <2>8, <2>9 DEF OwnPart
  <2> QED
    BY <1>1, <1>6, <1>11, <1>14, <2>1, <2>10, StepKeeps
<1> QED
  BY <1>13, <1>14

LEMMA AppendedType ==
    ASSUME TypeInv, NEW b \in Binding, NEW s, Recorded(b, s), NEW segment \in Line
    PROVE  /\ s \in Seq(Line)
           /\ \E x \in {segment, Malformed} :
                 /\ Appended(segments[b], segment) = [lines |-> Append(s, x), torn |-> FALSE]
                 /\ segments[b] = NoFile \/ ~segments[b].torn => x = segment
<1>1. CASE segments[b] = NoFile
  <2>1. s = <<>> /\ Append(s, segment) = <<segment>>
    BY <1>1 DEF Recorded
  <2> QED
    BY <1>1, <2>1 DEF Appended
<1>2. CASE segments[b] # NoFile
  <2>1. PICK file \in File : file = segments[b] /\ s = file.lines
    BY <1>2 DEF TypeInv, Recorded
  <2> QED
    BY <1>2, <2>1 DEF Appended, File
<1> QED
  BY <1>1, <1>2

LEMMA RecordKeeps ==
    ASSUME Inv, NEW c \in Command, Decode(c), Key(c) \in directory
    PROVE  Inv'
<1>1. /\ TypeInv /\ command[c].pc = "decode" /\ Len(decoded[c]) < Length
      /\ UNCHANGED <<directory, lock, metadata, admission, command, faults, crashes>>
      /\ "decode" \in Running /\ "decode" \in Owning /\ "decode" \notin Early
  BY DEF Decode, Inv, Running, Places, Early, Owning
<1>2. PICK b \in Binding : b = Key(c)
  BY <1>1 DEF TypeInv, Running
<1>3. PICK t \in Seq(Line) : t = decoded[c]
  BY <1>1 DEF TypeInv
<1>4. PICK segment \in Line : segment = Segment(c, Len(t) + 1)
  <2>1. Len(t) + 1 \in Nat
    OBVIOUS
  <2>2. Segment(c, Len(t) + 1) \in Line
    BY <2>1 DEF Segment, Line
  <2> QED
    BY <2>2
<1>5. PICK u : u = Append(t, segment)
  OBVIOUS
<1>6. Decodes(c, t, u)
  BY <1>3, <1>4, <1>5 DEF Decode, Decodes, NextSegment
<1>7. /\ u \in Seq(Line) /\ Len(u) = Len(t) + 1
      /\ \A n \in 1 .. Len(t) : u[n] = t[n]
      /\ u[Len(t) + 1] = segment
      /\ decoded' \in [Command -> Seq(Line)] /\ decoded'[c] = u
      /\ \A d \in Command \ {c} : decoded'[d] = decoded[d]
      /\ Grows
  BY <1>1, <1>4, <1>6, DecodesEffect
<1>8. PICK s : Recorded(b, s)
  BY DEF Recorded
<1>9. s \in Seq(Line)
  BY <1>1, <1>8, AppendedType
<1>10. PICK x \in {segment, Malformed} :
          /\ Appended(segments[b], segment) = [lines |-> Append(s, x), torn |-> FALSE]
          /\ segments[b] = NoFile \/ ~segments[b].torn => x = segment
  BY <1>1, <1>8, AppendedType
<1>11. PICK v \in Seq(Line) : v = Append(s, x)
  BY <1>4, <1>9, AppendProperties DEF Malformed, Segment, Line
<1>12. PICK file \in File : file = [lines |-> v, torn |-> FALSE]
  BY DEF File
<1>13. file.lines = v /\ ~file.torn /\ file # NoFile
  BY <1>12, NoneAssumption DEF NoFile
<1>14. segments' = [segments EXCEPT ![b] = file]
  BY <1>2, <1>3, <1>4, <1>10, <1>11, <1>12 DEF Decode, NextSegment
<1>15. /\ segments' \in [Binding -> File \union {NoFile}] /\ segments'[b] = file
       /\ \A a \in Binding \ {b} : segments'[a] = segments[a]
  BY <1>1, <1>14 DEF TypeInv
<1>16. OnlyOne(c)
  BY <1>1 DEF OnlyOne, TypeInv
<1>17. TypeInv'
  BY <1>1, <1>7, <1>15, <1>16, DiskType DEF TypeInv
<1>18. CASE admission # None
  BY <1>1, <1>7, <1>17, <1>18, AdmittedStays
<1>19. CASE admission = None
  <2>1. OneSteps(c)
    BY <1>1, <1>2, <1>7, <1>15 DEF OneSteps, Key
  <2>2. OpenInv(c)
    BY <1>19 DEF Inv, UnadmittedInv
  <2>3. Whole(u)'
    BY <1>1, <1>3, <1>6, <1>17, <2>2, DecodesWhole DEF OpenInv
  <2>4. Len(u) <= Length
    BY <1>1, <1>3, <1>7, BoundsAssumption
  <2>5. Sound(s) /\ InStep(s, t)
    <3>1. CASE segments[b] = NoFile
      <4>1. Len(s) = 0
        BY <1>8, <3>1 DEF Recorded
      <4> QED
        BY <4>1 DEF Sound, InStep, Agrees
    <3>2. CASE segments[b] # NoFile
      <4>1. s = segments[b].lines
        BY <1>8, <3>2 DEF Recorded
      <4> QED
        BY <1>1, <1>2, <1>3, <1>19, <2>2, <3>2, <4>1 DEF OpenInv, Inv, UnadmittedInv
    <3> QED
      BY <3>1, <3>2
  <2>6. Sound(v)' /\ InStep(v, u)'
    BY <1>1, <1>3, <1>4, <1>6, <1>9, <1>11, <1>17, <2>5, RecordedIsSound
  <2>7. OpenInv(c)'
    <3>1. b \in directory' /\ lock'[b] # 0 /\ command'[c].handle = lock'[b]
      BY <1>1, <1>2, <2>2 DEF OpenInv
    <3>2. command'[c].pc = "decode" /\ command'[c].binding = b
      BY <1>1, <1>2 DEF Key
    <3>3. segments'[b].lines = v
      BY <1>13, <1>15
    <3>4. InStep(segments[b].lines, decoded[c])'
      BY <1>7, <2>6, <3>3 DEF InStep, InOrder, Agrees
    <3>5. Whole(decoded[c])'
      BY <1>7, <2>3
    <3> QED
      BY <1>7, <2>4, <3>1, <3>2, <3>4, <3>5 DEF OpenInv, Key
  <2>8. Undisturbed' => Undisturbed
    BY <1>1 DEF Undisturbed, NoFault
  <2>9. ASSUME Undisturbed
        PROVE  TranscriptInv(b)' /\ KeepsUp(c)'
    <3>1. TranscriptInv(b) /\ KeepsUp(c)
      BY <2>9 DEF Inv, CostInv
    <3>2. b \in metadata
      BY <1>1, <1>2, <3>1 DEF KeepsUp
    <3>3. /\ Len(s) = Len(t) /\ InOrder(s, Len(s)) /\ x = segment
          /\ \A d \in Command : Key(d) = b => Agrees(decoded[d], Len(decoded[d]), s)
      <4>1. CASE segments[b] = NoFile
        <5>1. s = <<>> /\ \A d \in Command : Key(d) = b => decoded[d] = <<>>
          BY <1>8, <3>1, <4>1 DEF Recorded, TranscriptInv
        <5> QED
          BY <1>2, <1>3, <1>10, <4>1, <5>1 DEF InOrder, Agrees
      <4>2. CASE segments[b] # NoFile
        <5>1. s = segments[b].lines
          BY <1>8, <4>2 DEF Recorded
        <5> QED
          BY <1>1, <1>2, <1>3, <1>10, <3>1, <4>2, <5>1 DEF TranscriptInv, KeepsUp
      <4> QED
        BY <4>1, <4>2
    <3>4. /\ Len(v) = Len(s) + 1 /\ v[Len(s) + 1] = segment
          /\ \A n \in 1 .. Len(s) : v[n] = s[n]
      BY <1>9, <1>11, <3>3, AppendProperties
    <3>5. segment.ordinal = Len(s) + 1 /\ Len(s) \in Nat /\ Len(t) \in Nat
      BY <1>4, <1>9, <3>3 DEF Segment
    <3>6. InOrder(v, Len(v)) /\ v # <<>>
      BY <1>9, <3>3, <3>4, <3>5 DEF InOrder
    <3>7. ASSUME NEW d \in Command, Key(d) = b
          PROVE  Agrees(decoded'[d], Len(decoded'[d]), v)
      <4>1. CASE d = c
        <5>1. \A n \in 1 .. Len(t) : t[n] = s[n]
          BY <1>2, <1>3, <3>3 DEF Agrees
        <5> QED
          BY <1>7, <3>3, <3>4, <3>5, <4>1, <5>1 DEF Agrees
      <4>2. CASE d # c
        <5>1. PICK w \in Seq(Line) : w = decoded[d] /\ w = decoded'[d]
          BY <1>1, <1>7, <4>2 DEF TypeInv
        <5>2. Agrees(w, Len(w), s)
          BY <3>3, <3>7, <5>1
        <5> QED
          BY <3>4, <3>5, <5>1, <5>2 DEF Agrees
      <4> QED
        BY <4>1, <4>2
    <3>8. TranscriptInv(b)'
      BY <1>1, <1>13, <1>15, <3>2, <3>6, <3>7 DEF TranscriptInv, Key, InOrder, Agrees
    <3>9. KeepsUp(c)'
      BY <1>1, <1>2, <1>7, <1>13, <1>15, <3>2, <3>3, <3>4 DEF KeepsUp, Key
    <3> QED
      BY <3>8, <3>9
  <2>10. Sound(segments[b].lines)'
    <3>1. segments'[b].lines = v
      BY <1>13, <1>15
    <3> QED
      BY <2>6, <3>1 DEF Sound, InOrder, Agrees
  <2>11. OwnPart(c)
    BY <1>1, <1>2, <1>15, <2>7, <2>8, <2>9, <2>10 DEF OwnPart, Key
  <2> QED
    BY <1>1, <1>7, <1>17, <1>19, <2>1, <2>11, StepKeeps
<1> QED
  BY <1>18, <1>19

\* Its directory is gone only when something has been admitted.
LEMMA DecodeKeeps ==
    ASSUME Inv, NEW c \in Command, Decode(c)
    PROVE  Inv'
<1>1. CASE Key(c) \in directory
  BY <1>1, RecordKeeps
<1>2. CASE Key(c) \notin directory
  <2>1. /\ TypeInv /\ command[c].pc = "decode"
        /\ UNCHANGED <<disk, admission, command, faults, crashes>>
        /\ "decode" \in Running /\ "decode" \in Owning /\ "decode" \notin Early
    BY <1>2 DEF Decode, disk, Inv, Running, Places, Early, Owning
  <2>2. admission # None
    BY <1>2, <2>1 DEF Inv, UnadmittedInv, OpenInv
  <2>3. PICK t \in Seq(Line) : t = decoded[c]
    BY <2>1 DEF TypeInv
  <2>4. PICK u : u = Append(t, Segment(c, Len(t) + 1))
    OBVIOUS
  <2>5. Decodes(c, t, u)
    BY <2>3, <2>4 DEF Decode, Decodes, NextSegment
  <2>6. /\ decoded' \in [Command -> Seq(Line)]
        /\ \A d \in Command \ {c} : decoded'[d] = decoded[d]
        /\ Grows
    BY <2>1, <2>5, DecodesEffect
  <2>7. OnlyOne(c)
    BY <2>1 DEF OnlyOne, TypeInv
  <2>8. TypeInv'
    BY <2>1, <2>6, <2>7, DiskType DEF TypeInv, disk
  <2> QED
    BY <2>1, <2>2, <2>6, <2>8, AdmittedStays
<1> QED
  BY <1>1, <1>2

-----------------------------------------------------------------------------
(* The admission, and the steps that only follow it. *)

LEMMA PersistKeeps ==
    ASSUME Inv, NEW c \in Command, Persist(c)
    PROVE  Inv'
<1>1. /\ TypeInv /\ command[c].pc = "persist" /\ admission = None
      /\ admission' = decoded[c] /\ Goto(c, "list")
      /\ UNCHANGED <<disk, decoded, faults, crashes>>
      /\ "persist" \in Running /\ "list" \in Running /\ "list" \notin Early
  BY DEF Persist, Inv, Running, Places, Early, Owning
<1>2. PICK t \in Seq(Line) : t = decoded[c]
  BY <1>1 DEF TypeInv
<1>3. OnlyOne(c) /\ command'[c].pc = "list"
  BY <1>1, GotoEffect DEF Running
<1>4. TypeInv'
  BY <1>1, <1>2, <1>3, DiskType DEF TypeInv, disk
<1>5. Grows
  BY <1>1, QuietGrows
<1>6. Whole(t) /\ Len(t) = Length
  BY <1>1, <1>2 DEF Inv, UnadmittedInv, OpenInv
<1>7. Whole(t)'
  BY <1>1, <1>4, <1>5, <1>6, SoundStays
<1>8. admission' # None /\ admission' = t
  BY <1>1, <1>2, NoneAssumption
<1>9. AdmittedInv'
  BY <1>6, <1>7, <1>8 DEF AdmittedInv, Whole, Sound, InOrder, Agrees
<1>10. ~Undisturbed'
  BY <1>8 DEF Undisturbed
<1> QED
  BY <1>4, <1>8, <1>9, <1>10 DEF Inv

\* The removal of a checkpoint begins with an admitted result.
LEMMA RemovalFollows ==
    ASSUME Inv, NEW c \in Command, command[c].pc \in {"list", "remove"}
    PROVE  admission # None
BY DEF Inv, UnadmittedInv, OpenInv

LEMMA ListDirectoryKeeps ==
    ASSUME Inv, NEW c \in Command, ListDirectory(c)
    PROVE  Inv'
<1>1. /\ TypeInv /\ command[c].pc = "list" /\ Quiet
      /\ "list" \in Running /\ "remove" \in Places \ Early /\ "remove" # "idle"
  BY DEF ListDirectory, Inv, Quiet, Running, Places, Early, Owning
<1>2. PICK entries \in SUBSET {"lock", "metadata", "segments"} : entries = Entries(Key(c))
  BY DEF Entries
<1>3. command' = [command EXCEPT ![c].pc = "remove", ![c].listed = entries]
  BY <1>2 DEF ListDirectory
<1>4. PICK r \in CommandState : r = command[c]
  BY <1>1 DEF TypeInv
<1>5. OnlyOne(c) /\ command'[c].pc = "remove"
  BY <1>1, <1>3, <1>4 DEF TypeInv, OnlyOne, CommandState
<1>6. TypeInv'
  BY <1>1, <1>5, LocalType
<1>7. Grows
  BY <1>1, QuietGrows DEF Quiet
<1> QED
  BY <1>1, <1>6, <1>7, RemovalFollows, AdmittedStays DEF Quiet

LEMMA RemoveEntryKeeps ==
    ASSUME Inv, NEW c \in Command, NEW name \in {"lock", "metadata", "segments"},
           RemoveEntry(c, name)
    PROVE  Inv'
<1>1. /\ TypeInv /\ command[c].pc = "remove"
      /\ UNCHANGED <<directory, admission, decoded, faults, crashes>>
      /\ "remove" \in Running /\ "remove" \notin Early /\ "remove" # "idle"
  BY DEF RemoveEntry, Inv, Running, Places, Early, Owning
<1>2. PICK r \in CommandState : r = command[c]
  BY <1>1 DEF TypeInv
<1>3. PICK rest \in SUBSET {"lock", "metadata", "segments"} : rest = r.listed \ {name}
  BY DEF CommandState
<1>4. command' = [command EXCEPT ![c].listed = rest]
  BY <1>1, <1>2, <1>3 DEF RemoveEntry, TypeInv
<1>5. OnlyOne(c) /\ command'[c].pc = "remove"
  BY <1>1, <1>2, <1>4 DEF TypeInv, OnlyOne, CommandState
<1>6. PICK b \in Binding : b = Key(c)
  BY <1>1 DEF TypeInv, Running
<1>7. lock' \in [Binding -> Nat]
  BY <1>1, <1>6 DEF RemoveEntry, TypeInv
<1>8. segments' \in [Binding -> File \union {NoFile}]
  BY <1>1, <1>6 DEF RemoveEntry, TypeInv
<1>9. TypeInv'
  BY <1>1, <1>5, <1>7, <1>8, DiskType DEF TypeInv
<1>10. Grows
  BY <1>1, QuietGrows
<1> QED
  BY <1>1, <1>9, <1>10, RemovalFollows, AdmittedStays

LEMMA RemoveDirectoryKeeps ==
    ASSUME Inv, NEW c \in Command, RemoveDirectory(c)
    PROVE  Inv'
<1>1. /\ TypeInv /\ command[c].pc = "remove" /\ Return(c, "admitted")
      /\ UNCHANGED <<lock, metadata, segments, admission, decoded, faults, crashes>>
      /\ "remove" \in Running /\ "returned" \notin Early /\ "returned" # "idle"
  BY DEF RemoveDirectory, Inv, Running, Places, Early, Owning
<1>2. OnlyOne(c) /\ command'[c].pc = "returned"
  BY <1>1, ReturnEffect
<1>3. TypeInv'
  BY <1>1, <1>2, DiskType DEF TypeInv
<1>4. Grows
  BY <1>1, QuietGrows
<1> QED
  BY <1>1, <1>3, <1>4, RemovalFollows, AdmittedStays

-----------------------------------------------------------------------------
(* The crash of the machine. *)

\* What a crash leaves of a segments file is a prefix of its lines.
LEMMA CutIsPrefix ==
    ASSUME TypeInv, NEW b \in Binding, NEW file \in Cuts(segments[b])
    PROVE  /\ file \in File \union {NoFile}
           /\ file # NoFile /\ segments[b] # NoFile /\ Sound(segments[b].lines)
                => Sound(file.lines)
           /\ segments[b] = NoFile => file = NoFile
<1>1. CASE file = segments[b]
  BY <1>1 DEF TypeInv
<1>2. CASE file # segments[b]
  <2>1. PICK old \in File : old = segments[b] /\ old # NoFile
    BY <1>2 DEF Cuts, TypeInv
  <2>2. PICK n \in 0 .. (Len(old.lines) - 1), torn \in BOOLEAN :
           file = [lines |-> SubSeq(old.lines, 1, n), torn |-> torn]
    BY <1>2, <2>1 DEF Cuts
  <2>3. old.lines \in Seq(Line) /\ n \in 0 .. Len(old.lines)
    BY <2>1, <2>2 DEF File
  <2>4. SubSeq(old.lines, 1, n) \in Seq(Line)
    BY <2>3, SubSeqProperties
  <2>5. Sound(old.lines) => Sound(SubSeq(old.lines, 1, n))
    BY <2>3, PrefixIsSound
  <2>6. file.lines = SubSeq(old.lines, 1, n)
    BY <2>2
  <2>7. file \in File
    BY <2>2, <2>4 DEF File
  <2> QED
    BY <2>1, <2>5, <2>6, <2>7
<1> QED
  BY <1>1, <1>2

LEMMA CrashKeeps == Inv /\ Crash => Inv'
<1> SUFFICES ASSUME Inv, Crash
             PROVE  Inv'
  OBVIOUS
<1>1. /\ TypeInv /\ crashes' = crashes + 1
      /\ UNCHANGED <<directory, lock, metadata, admission, decoded, faults>>
      /\ command' = [c \in Command |-> IF Started(c) THEN Killed(c) ELSE command[c]]
      /\ DOMAIN segments' = Binding
      /\ segments' = [b \in Binding |-> segments'[b]]
      /\ \A b \in Binding : segments'[b] \in Cuts(segments[b])
  <2>1. PICK cut \in [Binding -> UNION {Cuts(segments[b]) : b \in Binding}] :
           (\A b \in Binding : cut[b] \in Cuts(segments[b])) /\ segments' = cut
    BY DEF Crash
  <2> QED
    BY <2>1 DEF Crash, Inv
<1>2. ASSUME NEW c \in Command
      PROVE  /\ command'[c] \in CommandState
             /\ command'[c].pc \in {"idle", "returned", "killed"}
             /\ command'[c].pc = "idle" => command'[c] = command[c] /\ command[c].pc = "idle"
             /\ command[c].pc = "idle" => command'[c].pc = "idle"
             /\ command'[c].binding = Key(c)
  <2>1. CASE Started(c)
    <3>1. PICK r \in CommandState : r = Ended(c, "killed", None) /\ r = Killed(c)
      BY <1>1, EndedType
    <3>2. command'[c] = r /\ r.pc = "killed" /\ r.binding = Key(c)
      BY <1>1, <2>1, <3>1 DEF Ended, Key
    <3> QED
      BY <2>1, <3>2 DEF Started
  <2>2. CASE ~Started(c)
    BY <1>1, <2>2 DEF Started, TypeInv, Key
  <2> QED
    BY <2>1, <2>2
<1>3. \A c \in Command :
         /\ command'[c].pc = "idle" => command'[c] = NotStarted
         /\ command'[c].pc \in Early => decoded'[c] = <<>>
         /\ command'[c].pc # "idle" => command'[c].binding \in Binding
  <2> SUFFICES ASSUME NEW c \in Command
               PROVE  /\ command'[c].pc = "idle" => command'[c] = NotStarted
                      /\ command'[c].pc \in Early => decoded'[c] = <<>>
                      /\ command'[c].pc # "idle" => command'[c].binding \in Binding
    OBVIOUS
  <2> QED
    BY <1>1, <1>2 DEF TypeInv, Early
<1>4. command' \in [Command -> CommandState]
  BY <1>1, <1>2
<1>5. segments' \in [Binding -> File \union {NoFile}]
  BY <1>1, CutIsPrefix
<1>6. TypeInv'
  BY <1>1, <1>3, <1>4, <1>5 DEF TypeInv, Key
<1>7. Grows
  BY <1>1, QuietGrows
<1>8. ~Undisturbed'
  BY <1>1 DEF TypeInv, Undisturbed
<1>9. CASE admission # None
  BY <1>1, <1>6, <1>7, <1>9, AdmittedStays
<1>10. CASE admission = None
  <2>1. ASSUME NEW c \in Command
        PROVE  OpenInv(c)'
    <3>1. Whole(decoded[c])' /\ Len(decoded'[c]) <= Length
      BY <1>1, <1>6, <1>10, DecodedStays
    <3> QED
      BY <1>2, <3>1 DEF OpenInv, Owning
  <2>2. ASSUME NEW b \in Binding, segments'[b] # NoFile
        PROVE  Sound(segments[b].lines)'
    <3>1. segments[b] # NoFile /\ segments'[b] \in File
      BY <1>1, <1>5, <2>2, CutIsPrefix
    <3>2. Sound(segments[b].lines)
      BY <1>10, <3>1 DEF Inv, UnadmittedInv
    <3>3. PICK s \in Seq(Line) : s = segments'[b].lines
      BY <3>1 DEF File
    <3>4. Sound(s)
      BY <1>1, <2>2, <3>1, <3>2, <3>3, CutIsPrefix
    <3>5. Sound(s)'
      BY <1>1, <1>6, <1>7, <3>4, SoundStays
    <3> QED
      BY <3>3, <3>5 DEF Sound, InOrder, Agrees
  <2>3. ExclusiveInv'
    BY <1>2 DEF ExclusiveInv, Owning
  <2> QED
    BY <1>1, <1>6, <1>8, <1>10, <2>1, <2>2, <2>3 DEF Inv, UnadmittedInv
<1> QED
  BY <1>9, <1>10

-----------------------------------------------------------------------------
(* The invariant of the specification. *)

LEMMA InitEstablishes == Init => Inv
<1> SUFFICES ASSUME Init
             PROVE  Inv
  OBVIOUS
<1>1. /\ admission = None /\ faults = [operation \in Operation |-> 0] /\ crashes = 0
      /\ lock = [b \in Binding |-> 0] /\ segments = [b \in Binding |-> NoFile]
      /\ command = [c \in Command |-> NotStarted]
      /\ decoded = [c \in Command |-> <<>>]
  BY DEF Init
<1>2. NotStarted \in CommandState /\ NotStarted.pc = "idle"
  BY DEF NotStarted, CommandState, Places
<1>3. \A c \in Command : command[c] = NotStarted /\ decoded[c] = <<>>
  BY <1>1
<1>4. "idle" \in Early /\ "idle" \notin Owning \union {"flock"}
  BY DEF Early, Owning
<1>5. TypeInv
  <2>1. command \in [Command -> CommandState]
    BY <1>1, <1>2
  <2>2. \A c \in Command :
           /\ command[c].pc = "idle" => command[c] = NotStarted
           /\ command[c].pc \in Early => decoded[c] = <<>>
           /\ command[c].pc # "idle" => Key(c) \in Binding
    BY <1>2, <1>3
  <2> QED
    BY <1>1, <2>1, <2>2 DEF TypeInv
<1>6. \A c \in Command : OpenInv(c)
  <2> SUFFICES ASSUME NEW c \in Command
               PROVE  OpenInv(c)
    OBVIOUS
  <2>1. decoded[c] = <<>> /\ Len(decoded[c]) = 0 /\ command[c].pc = "idle"
    BY <1>2, <1>3
  <2>2. Whole(decoded[c])
    BY <2>1 DEF Whole, InOrder, Sound
  <2> QED
    BY <1>4, <2>1, <2>2, BoundsAssumption DEF OpenInv, Owning
<1>7. UnadmittedInv
  BY <1>1, <1>2, <1>3, <1>4, <1>6 DEF UnadmittedInv, ExclusiveInv
<1>8. CostInv
  BY <1>1, <1>2, <1>3, <1>4 DEF CostInv, TranscriptInv, KeepsUp, Owning
<1> QED
  BY <1>1, <1>5, <1>7, <1>8 DEF Inv

LEMMA NextKeeps == Inv /\ Next => Inv'
<1> SUFFICES ASSUME Inv, Next
             PROVE  Inv'
  OBVIOUS
<1>1. ASSUME NEW c \in Command, NEW b \in Binding, NEW forced \in BOOLEAN,
             Transcribe(c, b, forced)
      PROVE  Inv'
  BY <1>1, TranscribeKeeps
<1>2. ASSUME NEW c \in Command,
             \/ LookupResult(c) \/ MakeDirectory(c) \/ OpenLock(c) \/ Flock(c) \/ Load(c)
             \/ LoadFails(c) \/ StoreRaises(c) \/ BeginUnlink(c) \/ BeginUnlinkFails(c)
             \/ BeginMetadata(c) \/ BeginMetadataFails(c)
      PROVE  Inv'
  BY <1>2, LookupResultKeeps, MakeDirectoryKeeps, OpenLockKeeps, FlockKeeps, LoadKeeps,
     LoadFailsKeeps, StoreRaisesKeeps, BeginUnlinkKeeps, BeginUnlinkFailsKeeps,
     BeginMetadataKeeps, BeginMetadataFailsKeeps
<1>3. ASSUME NEW c \in Command,
             Decode(c) \/ DecodeUnrecorded(c) \/ EngineFails(c) \/ Finish(c)
      PROVE  Inv'
  BY <1>3, DecodeKeeps, DecodeUnrecordedKeeps, EngineFailsKeeps, FinishKeeps
<1>4. ASSUME NEW c \in Command,
             \/ LookupAdmission(c) \/ Persist(c) \/ PersistCollides(c)
             \/ PersistFails(c) \/ Resolve(c)
      PROVE  Inv'
  BY <1>4, LookupAdmissionKeeps, PersistKeeps, PersistCollidesKeeps, PersistFailsKeeps,
     ResolveKeeps
<1>5. ASSUME NEW c \in Command, NEW name \in {"lock", "metadata", "segments"},
             RemoveEntry(c, name)
      PROVE  Inv'
  BY <1>5, RemoveEntryKeeps
<1>6. ASSUME NEW c \in Command, ListDirectory(c) \/ RemoveDirectory(c) \/ Kill(c)
      PROVE  Inv'
  BY <1>6, ListDirectoryKeeps, RemoveDirectoryKeeps, KillKeeps
<1>7. CASE Crash
  BY <1>7, CrashKeeps
<1> QED
  BY <1>1, <1>2, <1>3, <1>4, <1>5, <1>6, <1>7 DEF Next

LEMMA StutterKeeps == Inv /\ UNCHANGED vars => Inv'
<1> SUFFICES ASSUME Inv, UNCHANGED vars
             PROVE  Inv'
  OBVIOUS
<1> USE DEF vars, disk
<1>1. TypeInv'
  BY DEF Inv, TypeInv, Key
<1>2. UnadmittedInv => UnadmittedInv'
  BY DEF UnadmittedInv, OpenInv, ExclusiveInv, Key, Whole, Sound, Separate, InStep, InOrder, Agrees
<1>3. AdmittedInv => AdmittedInv'
  BY DEF AdmittedInv, Whole, Sound, Separate, InOrder, Agrees
<1>4. Undisturbed' => Undisturbed
  BY DEF Undisturbed, NoFault
<1>5. CostInv => CostInv'
  BY DEF CostInv, TranscriptInv, KeepsUp, Key, InOrder, Agrees
<1> QED
  BY <1>1, <1>2, <1>3, <1>4, <1>5 DEF Inv

\* The invariant holds in every reachable state, for every number of commands,
\* segments, failing file operations and crashes.
THEOREM InvHolds == Spec => []Inv
<1>1. Init => Inv
  BY InitEstablishes
<1>2. Inv /\ [Next]_vars => Inv'
  BY NextKeeps, StutterKeeps
<1> QED
  BY <1>1, <1>2, PTL DEF Spec

\* What is admitted is whole, and one execution's: not a blend of executions that
\* did not continue one another, whatever was killed, unreadable or cut short,
\* with any number of lost records or any number of old segments that could not
\* be removed (with both of these the code does admit a blend), and also when the
\* removal of a checkpoint lets two commands own one key.
THEOREM NothingBlendedIsAdmittedHolds == Spec => []NothingBlendedIsAdmitted
<1>1. Inv => NothingBlendedIsAdmitted
  BY WholeIsOneExecution DEF Inv, AdmittedInv, TypeInv, Separate, NothingBlendedIsAdmitted
<1> QED
  BY <1>1, InvHolds, PTL

\* Until the result is admitted the lock file gives each key one owner, however
\* opening, creating and locking it interleave.
THEOREM OneOwnerUntilAdmittedHolds == Spec => []OneOwnerUntilAdmitted
<1>1. ASSUME Inv, admission = None, NEW b \in Binding
      PROVE  Cardinality({c \in Command : command[c].pc \in Owning /\ Key(c) = b}) <= 1
  <2> DEFINE owners == {c \in Command : command[c].pc \in Owning /\ Key(c) = b}
  <2>1. \A c, d \in owners : c = d
    BY <1>1 DEF Inv, UnadmittedInv, ExclusiveInv
  <2>2. CASE owners = {}
    BY <2>2, FS_EmptySet
  <2>3. CASE owners # {}
    <3>1. PICK c \in owners : owners = {c}
      BY <2>1, <2>3
    <3>2. Cardinality({c}) = 1
      BY FS_Singleton
    <3> QED
      BY <3>1, <3>2
  <2> QED
    BY <2>2, <2>3
<1>2. Inv => OneOwnerUntilAdmitted
  BY <1>1 DEF OneOwnerUntilAdmitted
<1> QED
  BY <1>2, InvHolds, PTL

\* As long as no file operation fails, no machine crashes and nobody asks to start
\* afresh, deaths of processes cost nothing: the commands of a key decode one
\* transcript, each continuing what the one before it reached.
THEOREM DeathsCostNothingHolds == Spec => []DeathsCostNothing
<1>1. ASSUME Inv, Undisturbed, NEW c \in Command, NEW d \in Command, Key(c) = Key(d)
      PROVE  \/ IsPrefix(decoded[c], decoded[d])
             \/ IsPrefix(decoded[d], decoded[c])
  <2>1. PICK s \in Seq(Line), t \in Seq(Line) : s = decoded[c] /\ t = decoded[d]
    BY <1>1 DEF Inv, TypeInv
  <2>2. CASE s = <<>>
    <3>1. Agrees(s, Len(s), t)
      BY <2>2 DEF Agrees
    <3> QED
      BY <2>1, <3>1, BothArePrefixes
  <2>3. CASE t = <<>>
    <3>1. Agrees(t, Len(t), s)
      BY <2>3 DEF Agrees
    <3> QED
      BY <2>1, <3>1, BothArePrefixes
  <2>4. CASE s # <<>> /\ t # <<>>
    <3>1. PICK b \in Binding : b = Key(c)
      BY <1>1, <2>1, <2>4 DEF Inv, TypeInv, Early
    <3>2. TranscriptInv(b)
      BY <1>1 DEF Inv, CostInv
    <3>3. segments[b] # NoFile
      BY <2>1, <2>4, <3>1, <3>2 DEF TranscriptInv
    <3>4. PICK u \in Seq(Line) : u = segments[b].lines
      BY <1>1, <3>3 DEF Inv, TypeInv, File, NoFile
    <3>5. Agrees(s, Len(s), u) /\ Agrees(t, Len(t), u)
      BY <1>1, <2>1, <3>1, <3>2, <3>3, <3>4 DEF TranscriptInv
    <3>6. CASE Len(s) <= Len(t)
      <4>1. Agrees(s, Len(s), t)
        BY <3>5, <3>6 DEF Agrees
      <4> QED
        BY <2>1, <4>1, BothArePrefixes
    <3>7. CASE Len(t) <= Len(s)
      <4>1. Agrees(t, Len(t), s)
        BY <3>5, <3>7 DEF Agrees
      <4> QED
        BY <2>1, <4>1, BothArePrefixes
    <3> QED
      BY <3>6, <3>7
  <2> QED
    BY <2>2, <2>3, <2>4
<1>2. Inv => DeathsCostNothing
  BY <1>1 DEF DeathsCostNothing, Undisturbed, NoFault
<1> QED
  BY <1>2, InvHolds, PTL
=============================================================================

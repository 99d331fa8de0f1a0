-------------------------- MODULE LocalAsrExecution --------------------------
(***************************************************************************)
(* Local ASR with execution checkpoints, up to the admission of its result: *)
(* concurrent `transcribe` commands for one admission anchor (one source,   *)
(* model, language and configuration), each under a binding (device and     *)
(* engine) that names a checkpoint directory:                               *)
(*                                                                          *)
(*   lock            flock target; the kernel drops a dead owner's lock     *)
(*   metadata.json   replaced atomically and synced                         *)
(*   segments.jsonl  appended, never synced                                 *)
(*                                                                          *)
(* A command looks for an admitted result, takes the lock without waiting,  *)
(* adopts the recorded segments or begins a fresh checkpoint, records each  *)
(* segment as the engine yields it, admits the whole result in one          *)
(* transaction and removes the directory, entry by entry.                   *)
(*                                                                          *)
(* The engine is not deterministic: a segment is the command that decoded   *)
(* it and its ordinal.  Boundaries of different executions are taken to     *)
(* line up, so the time checks of a checkpoint never reject what the        *)
(* ordinal check accepts.                                                   *)
(***************************************************************************)
EXTENDS Integers, FiniteSets, Sequences, SequencesExt

CONSTANTS
    Binding,        \* what a checkpoint may be resumed for
    Command,        \* the transcribe commands, one process each
    Length,         \* segments of a complete result
    MaxFaults,      \* bound on failing file operations of each kind
    MaxCrashes,     \* bound on crashes of the machine
    None

\* A record of segments.jsonl, and the file with what follows its last newline.
Line == [by : Command \union {None}, ordinal : Nat]
File == [lines : Seq(Line), torn : BOOLEAN]

ASSUME BoundsAssumption ==
    Length \in Nat \ {0} /\ MaxFaults \in Nat /\ MaxCrashes \in Nat
ASSUME FiniteAssumption == IsFiniteSet(Binding) /\ IsFiniteSet(Command)
ASSUME NoneAssumption == None \notin Seq(Line) \union File

\* What the store tries on a checkpoint and lets pass when it fails: reading it,
\* removing old segments, replacing the metadata, recording a segment.
Operation == {"read", "unlink", "metadata", "append"}

Segment(c, n) == [by |-> c, ordinal |-> n]
Malformed == Segment(None, 0)      \* a line that is not one record
NoFile == None

VARIABLES
    directory,      \* the bindings whose checkpoint directory exists
    lock,           \* per binding, the inode of its lock file or 0
    metadata,       \* the bindings whose metadata.json is there
    segments,       \* per binding, the complete lines and whether a tail follows
    admission,      \* the admitted segments of the anchor
    command,        \* the local state of each command
    decoded,        \* what each command adopted and decoded
    faults,         \* how often each operation has failed
    crashes

disk == <<directory, lock, metadata, segments>>
vars == <<disk, admission, command, decoded, faults, crashes>>

NotStarted == [pc |-> "idle", binding |-> None, forced |-> FALSE, handle |-> 0,
               listed |-> {}, outcome |-> None]

Init ==
    /\ directory = {} /\ metadata = {}
    /\ lock = [b \in Binding |-> 0]
    /\ segments = [b \in Binding |-> NoFile]
    /\ admission = None
    /\ command = [c \in Command |-> NotStarted]
    /\ decoded = [c \in Command |-> <<>>]
    /\ faults = [operation \in Operation |-> 0] /\ crashes = 0

Goto(c, pc) == command' = [command EXCEPT ![c].pc = pc]

\* Leaving the `with` block or dying closes the handle of the lock file.
Return(c, outcome) ==
    command' = [command EXCEPT ![c] =
        [pc |-> "returned", binding |-> command[c].binding, forced |-> command[c].forced,
         handle |-> 0, listed |-> {}, outcome |-> outcome]]

Key(c) == command[c].binding

Fails(operation) ==
    /\ faults[operation] < MaxFaults
    /\ faults' = [faults EXCEPT ![operation] = @ + 1]

-----------------------------------------------------------------------------
(* Reuse and ownership. *)

Transcribe(c, b, forced) ==
    /\ command[c].pc = "idle"
    /\ command' = [command EXCEPT ![c].pc = "lookup", ![c].binding = b, ![c].forced = forced]
    /\ UNCHANGED <<disk, admission, decoded, faults, crashes>>

\* A result admitted before is reused without a look at the checkpoint.
LookupResult(c) ==
    /\ command[c].pc = "lookup"
    /\ IF admission # None THEN Return(c, "reused") ELSE Goto(c, "mkdir")
    /\ UNCHANGED <<disk, admission, decoded, faults, crashes>>

MakeDirectory(c) ==
    /\ command[c].pc = "mkdir"
    /\ directory' = directory \union {Key(c)}
    /\ Goto(c, "open")
    /\ UNCHANGED <<lock, metadata, segments, admission, decoded, faults, crashes>>

Inodes == {lock[b] : b \in Binding} \union {command[c].handle : c \in Command}
FreshInode == CHOOSE n \in 1..(Cardinality(Inodes) + 1) : n \notin Inodes

\* open(..., "a+") creates the lock file where there is none; without its
\* directory it raises.
OpenLock(c) ==
    /\ command[c].pc = "open"
    /\ IF Key(c) \notin directory
       THEN Return(c, "error") /\ UNCHANGED lock
       ELSE /\ lock' = [lock EXCEPT ![Key(c)] = IF @ = 0 THEN FreshInode ELSE @]
            /\ command' = [command EXCEPT ![c].pc = "flock", ![c].handle = lock'[Key(c)]]
    /\ UNCHANGED <<directory, metadata, segments, admission, decoded, faults, crashes>>

Owning == {"load", "begin", "label", "decode", "admit", "persist", "resolve", "list", "remove"}

\* Mutant: the lock is advisory in name only.
OwnersNever(inode) == {}

Owners(inode) == {c \in Command : command[c].pc \in Owning /\ command[c].handle = inode}

\* A second owner of the inode is refused, never queued.
Flock(c) ==
    /\ command[c].pc = "flock"
    /\ IF Owners(command[c].handle) # {} THEN Return(c, "refused") ELSE Goto(c, "load")
    /\ UNCHANGED <<disk, admission, decoded, faults, crashes>>

-----------------------------------------------------------------------------
(* The checkpoint. *)

\* Mutant: the order of the records is not looked at.
IncreasingAlways(lines) == TRUE

\* segments_are_increasing: contiguous ordinals.
Increasing(lines) == \A n \in DOMAIN lines : lines[n].ordinal = n

\* Mutant: every command begins afresh.
ResumableNever(b) == FALSE

\* load: a tail without its newline does not count; a malformed line or an
\* impossible order discards the whole checkpoint.
Resumable(b) ==
    /\ b \in metadata
    /\ segments[b] # NoFile
    /\ segments[b].lines # <<>>
    /\ Malformed \notin Range(segments[b].lines)
    /\ Increasing(segments[b].lines)

Load(c) ==
    /\ command[c].pc = "load"
    /\ IF Resumable(Key(c)) /\ ~command[c].forced
       THEN /\ decoded' = [decoded EXCEPT ![c] = segments[Key(c)].lines]
            /\ Goto(c, "decode")
       ELSE Goto(c, "begin") /\ UNCHANGED decoded
    /\ UNCHANGED <<disk, admission, faults, crashes>>

\* A checkpoint that cannot be read counts as none.
LoadFails(c) ==
    /\ command[c].pc = "load"
    /\ Fails("read")
    /\ Goto(c, "begin")
    /\ UNCHANGED <<disk, admission, decoded, crashes>>

\* Making the directory, opening the lock file and looking for the metadata are
\* not among the operations whose failure is let pass.
StoreRaises(c) ==
    /\ command[c].pc \in {"mkdir", "open", "load", "begin"}
    /\ Return(c, "error")
    /\ UNCHANGED <<disk, admission, decoded, faults, crashes>>

\* begin: the old segments go before the metadata is replaced.
BeginUnlink(c) ==
    /\ command[c].pc = "begin"
    /\ directory' = directory \union {Key(c)}
    /\ segments' = [segments EXCEPT ![Key(c)] = NoFile]
    /\ Goto(c, "label")
    /\ UNCHANGED <<lock, metadata, admission, decoded, faults, crashes>>

\* If they cannot be removed, begin gives up without an error: the old segments
\* and the old metadata stay, and the execution goes on from nothing.
BeginUnlinkFails(c) ==
    /\ command[c].pc = "begin"
    /\ Fails("unlink")
    /\ directory' = directory \union {Key(c)}
    /\ Goto(c, "decode")
    /\ UNCHANGED <<lock, metadata, segments, admission, decoded, crashes>>

BeginMetadata(c) ==
    /\ command[c].pc = "label"
    /\ metadata' = metadata \union ({Key(c)} \cap directory)
    /\ Goto(c, "decode")
    /\ UNCHANGED <<directory, lock, segments, admission, decoded, faults, crashes>>

\* Losing a checkpoint write is no error: the execution goes on without it.
BeginMetadataFails(c) ==
    /\ command[c].pc = "label"
    /\ Fails("metadata")
    /\ Goto(c, "decode")
    /\ UNCHANGED <<disk, admission, decoded, crashes>>

NextSegment(c) == Segment(c, Len(decoded[c]) + 1)

\* Appending to a tail that was cut off makes one line of the two.
Appended(file, segment) ==
    IF file = NoFile THEN [lines |-> <<segment>>, torn |-> FALSE]
    ELSE [lines |-> Append(file.lines, IF file.torn THEN Malformed ELSE segment),
          torn |-> FALSE]

\* The engine yields the next segment, which is recorded before the one after
\* it is decoded.
Decode(c) ==
    /\ command[c].pc = "decode"
    /\ Len(decoded[c]) < Length
    /\ decoded' = [decoded EXCEPT ![c] = Append(@, NextSegment(c))]
    /\ segments' = IF Key(c) \in directory
                   THEN [segments EXCEPT ![Key(c)] = Appended(@, NextSegment(c))]
                   ELSE segments
    /\ UNCHANGED <<directory, lock, metadata, admission, command, faults, crashes>>

WithTail(file) == [lines |-> IF file = NoFile THEN <<>> ELSE file.lines, torn |-> TRUE]

\* A record that cannot be written may leave a part of itself.
DecodeUnrecorded(c) ==
    /\ command[c].pc = "decode"
    /\ Len(decoded[c]) < Length
    /\ Fails("append")
    /\ decoded' = [decoded EXCEPT ![c] = Append(@, NextSegment(c))]
    /\ \/ UNCHANGED segments
       \/ /\ Key(c) \in directory
          /\ segments' = [segments EXCEPT ![Key(c)] = WithTail(@)]
    /\ UNCHANGED <<directory, lock, metadata, admission, command, crashes>>

\* The engine fails, or its output is inadmissible; the checkpoint stays.
EngineFails(c) ==
    /\ command[c].pc = "decode"
    /\ Return(c, "error")
    /\ UNCHANGED <<disk, admission, decoded, faults, crashes>>

Finish(c) ==
    /\ command[c].pc = "decode"
    /\ Len(decoded[c]) >= Length
    /\ Goto(c, "admit")
    /\ UNCHANGED <<disk, admission, decoded, faults, crashes>>

-----------------------------------------------------------------------------
(* Admission, and the removal of the checkpoint that it makes superfluous. *)

LookupAdmission(c) ==
    /\ command[c].pc = "admit"
    /\ Goto(c, IF admission # None THEN "resolve" ELSE "persist")
    /\ UNCHANGED <<disk, admission, decoded, faults, crashes>>

Persist(c) ==
    /\ command[c].pc = "persist"
    /\ admission = None
    /\ admission' = decoded[c]
    /\ Goto(c, "list")
    /\ UNCHANGED <<disk, decoded, faults, crashes>>

PersistCollides(c) ==
    /\ command[c].pc = "persist"
    /\ admission # None
    /\ Goto(c, "resolve")
    /\ UNCHANGED <<disk, admission, decoded, faults, crashes>>

PersistFails(c) ==
    /\ command[c].pc = "persist"
    /\ Return(c, "error")
    /\ UNCHANGED <<disk, admission, decoded, faults, crashes>>

\* The same content converges; any other is a conflict that overwrites nothing
\* and leaves the checkpoint.
Resolve(c) ==
    /\ command[c].pc = "resolve"
    /\ IF admission = decoded[c] THEN Goto(c, "list") ELSE Return(c, "conflict")
    /\ UNCHANGED <<disk, admission, decoded, faults, crashes>>

Entries(b) ==
    (IF lock[b] # 0 THEN {"lock"} ELSE {}) \union
    (IF b \in metadata THEN {"metadata"} ELSE {}) \union
    (IF segments[b] # NoFile THEN {"segments"} ELSE {})

\* rmtree lists the directory, unlinks what it listed and removes the directory
\* if nothing else is in it by then.
ListDirectory(c) ==
    /\ command[c].pc = "list"
    /\ command' = [command EXCEPT ![c].pc = "remove", ![c].listed = Entries(Key(c))]
    /\ UNCHANGED <<disk, admission, decoded, faults, crashes>>

RemoveEntry(c, name) ==
    /\ command[c].pc = "remove"
    /\ name \in command[c].listed
    /\ command' = [command EXCEPT ![c].listed = @ \ {name}]
    /\ lock' = IF name = "lock" THEN [lock EXCEPT ![Key(c)] = 0] ELSE lock
    /\ metadata' = IF name = "metadata" THEN metadata \ {Key(c)} ELSE metadata
    /\ segments' = IF name = "segments" THEN [segments EXCEPT ![Key(c)] = NoFile] ELSE segments
    /\ UNCHANGED <<directory, admission, decoded, faults, crashes>>

RemoveDirectory(c) ==
    /\ command[c].pc = "remove"
    /\ command[c].listed = {}
    /\ directory' = IF Entries(Key(c)) = {} THEN directory \ {Key(c)} ELSE directory
    /\ Return(c, "admitted")
    /\ UNCHANGED <<lock, metadata, segments, admission, decoded, faults, crashes>>

-----------------------------------------------------------------------------
(* Death of a process, crash of the machine. *)

Started(c) == command[c].pc \notin {"idle", "returned", "killed"}

Killed(c) ==
    [pc |-> "killed", binding |-> command[c].binding, forced |-> command[c].forced,
     handle |-> 0, listed |-> {}, outcome |-> None]

Kill(c) ==
    /\ Started(c)
    /\ command' = [command EXCEPT ![c] = Killed(c)]
    /\ UNCHANGED <<disk, admission, decoded, faults, crashes>>

\* What may be left of an unsynced file: a prefix, and part of the next record.
Cuts(file) ==
    {file} \union
    (IF file = NoFile THEN {}
     ELSE {[lines |-> SubSeq(file.lines, 1, n), torn |-> torn] :
              n \in 0..(Len(file.lines) - 1), torn \in BOOLEAN})

Crash ==
    /\ crashes < MaxCrashes
    /\ crashes' = crashes + 1
    /\ command' = [c \in Command |-> IF Started(c) THEN Killed(c) ELSE command[c]]
    /\ \E cut \in [Binding -> UNION {Cuts(segments[b]) : b \in Binding}] :
          (\A b \in Binding : cut[b] \in Cuts(segments[b])) /\ segments' = cut
    /\ UNCHANGED <<directory, lock, metadata, admission, decoded, faults>>

Next ==
    \/ \E c \in Command :
        \/ \E b \in Binding, forced \in BOOLEAN : Transcribe(c, b, forced)
        \/ LookupResult(c)
        \/ MakeDirectory(c)
        \/ OpenLock(c)
        \/ Flock(c)
        \/ Load(c)
        \/ LoadFails(c)
        \/ StoreRaises(c)
        \/ BeginUnlink(c)
        \/ BeginUnlinkFails(c)
        \/ BeginMetadata(c)
        \/ BeginMetadataFails(c)
        \/ Decode(c)
        \/ DecodeUnrecorded(c)
        \/ EngineFails(c)
        \/ Finish(c)
        \/ LookupAdmission(c)
        \/ Persist(c)
        \/ PersistCollides(c)
        \/ PersistFails(c)
        \/ Resolve(c)
        \/ ListDirectory(c)
        \/ \E name \in {"lock", "metadata", "segments"} : RemoveEntry(c, name)
        \/ RemoveDirectory(c)
        \/ Kill(c)
    \/ Crash

Spec == Init /\ [][Next]_vars

-----------------------------------------------------------------------------
(* Properties. *)

\* A sequence of segments is one execution's, possibly continued: each of them
\* was decoded by a command that had exactly those before it.
IsOneExecution(s) ==
    \A n \in DOMAIN s : s[n].ordinal = n /\ IsPrefix(SubSeq(s, 1, n), decoded[s[n].by])

\* What is admitted is whole, and it is not blended of executions that did not
\* continue one another: not after kills, crashes, unreadable checkpoints and
\* lost records or old segments that could not be removed, unless both of these
\* last two happen, and not when the removal of a checkpoint lets two commands
\* own one key.
NothingBlendedIsAdmitted ==
    admission # None =>
        /\ Len(admission) = Length
        /\ faults["unlink"] = 0 \/ faults["append"] = 0 => IsOneExecution(admission)

\* Losing a checkpoint costs only the resume opportunity, the canonical result
\* is unaffected, and a discarded checkpoint is never blended with a fresh run.
\* The code breaks this: see BeginUnlinkFails.
LostWritesCostOnlyResume ==
    admission # None => IsOneExecution(admission)

\* Until the result is admitted at most one command owns a key (CP-20), whoever
\* opened which lock file when.
OneOwnerUntilAdmitted ==
    admission = None =>
        \A b \in Binding : Cardinality(
            {c \in Command : command[c].pc \in Owning /\ Key(c) = b}) <= 1

NoFault == \A operation \in Operation : faults[operation] = 0

\* Engine failures, failed admissions and process deaths cost nothing (CP-16,
\* CP-18): until something is admitted, and unless a command is told to start
\* afresh, a file operation fails or the machine crashes, all commands of a key
\* decode one transcript, each continuing what the one before it reached.
DeathsCostNothing ==
    /\ admission = None /\ NoFault /\ crashes = 0
    /\ ~\E c \in Command : command[c].forced
    => \A c, d \in Command :
            Key(c) = Key(d) =>
                \/ IsPrefix(decoded[c], decoded[d])
                \/ IsPrefix(decoded[d], decoded[c])
=============================================================================

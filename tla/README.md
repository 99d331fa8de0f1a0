# LectureOS in TLA+

LectureOS turns a recorded lecture into a reviewed transcript, subtitles and edit decisions. It has
no server and no threads: every command line call is one operating-system process with its own
SQLite connection in autocommit mode (`persistence/sqlite.py:3561`), and all processes share one
database file and a few directories. Each record is immutable; "current", "effective" and "state"
are never stored but derived from append-only histories each time somebody asks.

That design moves all the difficulty to one place: a command reads several records, each in a
statement of its own, and only its last step is a transaction. Whatever it read may be out of date
when it writes, another process may have written the very record it is about to insert, and it may
be killed between any two steps. This directory models the components in which those races matter,
checks them with TLC on small instances, and proves most of them correct with TLAPS for instances
of every size.

Source paths below are relative to `src/src/lectureos/`, document paths to `src/`.

## 1. The system

### 1.1 Components, their state, operations and properties

| Component | State | Operations | What makes it correct | Module |
|---|---|---|---|---|
| Current Raw Transcript Selection `application/current_raw_transcript_selection.py` | insert-only table, one history per intake | `select`, `current`, `history` | one unforked chain per intake; success means "was current during the call"; duplicates converge | `RawTranscriptSelection` |
| Correction Candidate Decision `application/correction_candidate_decision.py` | insert-only table, one history per candidate, with reviewer and rationale | `decide`, `authority`, `history` | nobody is shown another reviewer's judgement as his own; duplicates converge | `CandidateDecision` |
| Revision generation: text, timing (single and set), same-source composition | one generation per lineage and set of authorizing decisions | `generate`, `generate_set` | rests on acceptances and a raw selection current during the call, and with timing in it current at the insert; applied once | `RevisionGeneration` |
| Corrected Revision Selection `application/corrected_revision_selection.py` | insert-only table, one history per intake | `select_revision`, `select_raw_fallback`, `resolve_effective_transcript` | a revision ineligible throughout the call is not recorded; divergence surfaces | `RevisionSelection` (the resolver: `EffectiveConsumption`) |
| Effective Transcript Consumption `application/effective_transcript_consumption.py` | one binding per (intake, source) | `consume`, `currentness` | a binding agrees with the records it names; no silent fallback | `EffectiveConsumption` |
| Effective Subtitle Final Selection and SRT Artifact | insert-only history per intake; one artifact per selection | `select_final`, `generate_srt_artifact` | selected and exported only with authority held during the call; rendered once; explicit commands are never silently discarded | `SubtitleRelease` |
| Effective SRT Delivery `application/effective_srt_delivery.py` and two file writers | intents, outcomes, destination files | `deliver`, `reconcile` | record before file; DELIVERED was true; attempts get closed | `SrtDelivery` |
| Effective SRT Publication | insert-only publish/withdraw history | `publish`, `withdraw`, `availability`, `status` | explicit commands honoured; an availability is right while nothing moves | `SrtPublication` |
| Lecture Review | decisions, approved snapshots, authority positions | `admit_review_decision` | what is approved is what was submitted; a judgment takes effect | `LectureReview` |
| Lecture Edit Export Assembly | immutable member sets | `observe_scope`, `admit_assembly` | the complete eligible scope, nothing arbitrated | `LectureEditExport` |
| Local ASR execution, checkpoint, Provider Transcript Admission | checkpoint directory with `flock` file, metadata, segments; admitted results | `transcribe`, `owned`, `load`, `begin`, `append`, `delete`, `admit` | one owner; an admitted result is whole and one continued execution | `LocalAsrExecution` |
| Repository validator `validation/repository_validator.py` | none | `validate_repository` | agrees with what the commands may legally do | `RepositoryValidator` and the `*Complaints`, `*Mismatches`, `UndeliveredTargets` sets of the other modules |
| Effective SRT Materialization | intents, outcomes, storage files | `materialize` | as for delivery | planned |
| Effective subtitle generation and review preparation, lecture analysis, candidate admissions, intake, import | insert-only rows keyed by a digest of their content | `generate`, `prepare`, `admit`, `import` | idempotent by content | constants of the models |
| Execution service (first generation) | runs, unit executions, failures | `start_*`, `record_*`, `retry_*`, `cancel_*` | one outcome per execution; references are not lost | not modelled |
| Cue composition, readability, quality diagnostics, serialization | none | pure functions | agreement with a reference definition | not modelled |
| First-generation pipelines, migrations, providers, CLIs, demos | various | various | | not modelled (section 7) |

### 1.2 How they interact

```
 ASR execution --> admission
                      |
 intake --> raw selection -----------+------------------+
   |                                 |                  |
   +--> candidate --> decision ------+--> generation    |
                        |                    |          |
                        |                 revision      |
                        |                    |          |
                        +------> revision selection     |
                                        |               |
                                    resolver <----------+
                                        |
                                   consumption
                                    |       |
             subtitle, review subject       lecture analysis, edit candidate
                     |                                  |
     decision --> final selection               review judgments
                     |                                  |
                  artifact                      export assembly
                     |
       materialization --> delivery --> publication
```

Downstream components never copy an upstream authority; they read it again. Raw selection,
decision, revision selection, final selection and publication all represent it the same way
(sequence number per scope, `UNIQUE (scope, sequence)`, each row naming the row it supersedes),
review positions nearly so; one module, `AuthorityHistory`, holds that representation and one,
`AuthorityRegister`, says what it promises.

### 1.3 What is hard

* **Stale reads before a write.** Every command reads first and inserts later.
* **Lost races.** An insert that finds its slot taken is not simply an error: the command looks
  again, and either converges on the winner's record or reports a collision. Each component has its
  own rule for which, and each rule makes a promise about duplicates and about explicit commands.
* **Reads at several moments.** `authority()`, eligibility, the resolver, the observation of an
  export scope and the status of a publication combine answers from two to a dozen statements.
* **Files and records.** Delivery cannot make a file change and a row change atomic; it relies on
  the order intent, file, outcome, and on `reconcile` after a crash. The ASR checkpoint has no
  record at all, only a directory whose lock file it deletes along with the rest.
* **Death anywhere.** A killed process leaves whatever it had committed or written; a crashed
  machine leaves part of what was not synced.

`PROJECT.json` lists these hazards one by one, each at its line, with the properties that cover it.

## 2. The modules

| Module | Role |
|---|---|
| `AuthorityHistory` | The insert-only table: what the `ORDER BY sequence DESC LIMIT 1` query may return, the row a command builds on it, the three checks of the insert transaction, and what a well-formed history is. No variables. |
| `AuthorityRegister` | Abstract specification: per scope, a log of targets whose last entry is current; the only step replaces a scope's current target by a different one. |
| `RepositoryValidator` | The two SELECTs the validator repeats for every authority table, as sets of complaints. No variables. |
| `RawTranscriptSelection` | `select` commands. |
| `CandidateDecision` | `decide` commands and `authority` queries. |
| `RevisionGeneration` | The `generate` commands of all three lineages over two `AuthorityRegister` instances (raw selection, decisions) that other processes move. |
| `RevisionSelection` | `select_revision` and `select_raw_fallback` commands over the same two registers. |
| `EffectiveConsumption` | Composes all of `RevisionSelection` with the resolver, `consume` and `currentness`. |
| `SubtitleRelease` | `select_final` and `generate_srt_artifact` over the registers of review decisions and effective sources. |
| `DestinationFiles` | What a destination path may hold, for the next two modules. No variables. |
| `DeliveryLedger` | Abstract specification: recorded deliveries, each with at most one outcome, beside files that anybody may change; DELIVERED only for bytes that have been in place. |
| `SrtDelivery` | `deliver` and `reconcile` commands, the destination file system, and other programs. |
| `SrtPublication` | `publish`, `withdraw`, `availability` and `status` over deliveries that close and files that change. |
| `LectureReview` | `admit_review_decision` commands: decision, approval and position, planned, inserted and settled. |
| `LectureEditExport` | Composes all of `LectureReview` with `admit_assembly`. |
| `LocalAsrExecution` | `transcribe` from the look-up of a result over ownership, checkpoint and engine to admission and removal. |
| `MC*` | Small instances: model values, lineage, bounds on calls, symmetry. |
| `AuthorityHistoryProofs` | Lemmas about the table, for every component that uses it. |
| `RawTranscriptSelectionProofs`, `CandidateDecisionProofs`, `RevisionGenerationProofs`, `LocalAsrExecutionProofs` | Theorems about the module of that name. |
| `EffectiveConsumptionProofs` | Theorems about `EffectiveConsumption`, with `RevisionSelection` inside. |
| `LectureEditExportProofs` | Theorems about `LectureEditExport`, with `LectureReview` inside. |
| `SrtChainProofs` | Theorems about `SubtitleRelease`, `SrtDelivery` and `SrtPublication`, one part each. |

The composition is by interface. `RawTranscriptSelection`, `CandidateDecision` and
`RevisionSelection` are each shown to implement `AuthorityRegister`; modules downstream use the
register in their place, which keeps them small and loses nothing they can observe, since
a downstream read sees only the current row and its sequence. `SubtitleRelease` uses one register
more, the effective source, with less than what `EffectiveConsumption` guarantees: a verdict is
right if nothing moved while it was derived, and may be anything if something did (`disturbed`).
`SrtPublication` does not know the attempts and commands of `SrtDelivery` either: its deliveries are a
`DeliveryLedger`, whose `Change` and `Close` it takes as the steps of others, and which `SrtDelivery`
is shown to implement (`ImplementsLedger`). It starts with its deliveries on record and none closed,
as the ledger may. The names of these three modules are disjoint, so that one module
can extend them all and prove about each with the same lemmas on the table.

### How state and steps correspond to the code

* A **table** is a set of records. Rows that are only ever inserted make the set grow. Digest
  identities are modelled by what they digest: `Identity(row)` is the triple (scope, target,
  sequence), so that provenance the digest leaves out (`note`) can differ between two rows of one
  identity, which is what `CandidateDecision`, `SubtitleRelease` and `SrtPublication` are about.
  The content fingerprint is what the digest covers plus the provenance.
* A **command** is a record with a program counter, its arguments, what it has read, and what it
  returned. One step is one SQL statement, one `BEGIN IMMEDIATE ... COMMIT` transaction or one
  file-system call. Two reads share a step only where one of them reads something that never
  changes again (an admission, a recorded outcome); each place says so.
* A **transaction** that inserts several rows or none (a generation with its segments, revision and
  result; a review decision with approval and position) is one step. `Persist` is its success,
  `PersistCollides` its uniqueness failure, and `PersistFails` every other failure: a locked or full
  database, an I/O error, or the supersession check. `PersistIsStale` is the revalidation that
  timing and composition commands make inside theirs.
* `Kill` ends a process between two steps. SQLite rolls back what it had not committed, so what
  remains is the table as it was; in `SrtDelivery` and `LocalAsrExecution` files stay as they were
  too, and the kernel drops the dead process's lock.
* **Text** (transcripts, segments, rationales, SRT bytes) appears only as model values: nothing
  the components do depends on more than equality. Whether intervals fit together and whether a
  subtitle is readable are constants of the set (`Overlapping`, `Deliverable`).
* Variables and fields called `start`, `heightAtStart`, `since`, `placed`, `decoded` and `witnessed`
  are observations where the comment says so: no guard reads them, except that the ledger's `Close`,
  which stands for all the checks of a delivery, asks `placed`. They remember history lengths,
  or what was effective or in place, when or while a call ran, so that a property can relate an
  answer to the call.

**The validator as invariants.** `validate_repository` is a sweep of SELECTs that must find nothing.
Its checks over the modelled tables are translated, one set of complaints per SELECT, and
`RepositoryIsValid` in three runs, `ReleasesAreValid` and `PublicationsAreValid` say that they stay
empty in every reachable state. The converse,
that a legal repository gives rise to no complaint, fails for one check (section 6).

`SrtDelivery` models the writer the way `local_srt_file_writer.py` and
`local_effective_srt_file_writer.py` write: look at the destination, unlink what is replaced, hard-link
a synced temporary file (which fails if something is there), read back and compare. `Obstacle` is
a destination that is not a regular file. Errors come in three kinds, as the code catches them:
`WriteFails` and `DestinationUnsafe` are the errors that the writers turn into Materialization errors
(a write that fails; a symbolic link, a directory that does not resolve, a file that cannot be read
back) and that `deliver` and `reconcile` record as FAILED; `InspectionRaises` is an `lstat` that fails
with anything but `FileNotFoundError`, which nobody catches and nothing records, so that the command
ends with its attempt PENDING; and `StorageFails` is the database. `Interfere` is another program
under the delivery root. The materialized source file may be missing or changed at any time, which is why
`RejectSource` is always possible.

`LocalAsrExecution` models the checkpoint directory call by call: `mkdir`, `open("a+")` that creates
a lock file with a new inode, `flock` on that inode, `unlink` and atomic replace in `begin`, unsynced
appends, and `rmtree` as a listing followed by one unlink per listed entry and an `rmdir` that fails
when something new is there. The four operations whose failure the store lets pass fail here too: a
checkpoint that cannot be read counts as none (`LoadFails`), old segments that cannot be removed stay
where they are and the run goes on over them (`BeginUnlinkFails`), metadata may not get written
(`BeginMetadataFails`), and a record may be lost or leave a part of itself (`DecodeUnrecorded`). The
others raise (`StoreRaises`). Assumed: the boundaries of different executions line up (so the
ordinal check decides what the time checks would); metadata is synced and segments are not; a source
that fails its verification returns before any state is touched and is left out; `rmtree`, whose
errors are ignored, removes what it listed, which matters only after the admission, when every later
`transcribe` reuses the admitted result; nobody calls `collect_older_than`, which has no caller.

## 3. What the runs check

All runs are exhaustive for their instance. Counts are distinct states.

| Run | Instance | States | Properties |
|---|---|---|---|
| `raw` | 3 commands, 2 intakes, 3 transcripts (one foreign to each intake) | 4.6 k | `HistoryIsOneChain`, `SuccessWasCurrent`, `DuplicatesConverge`, `ImplementsRegister` |
| `candidate` | 3 commands, 1 reader, 1 admitted and 1 unknown candidate, 2 provenances | 81 k | `NoMisattribution`, `DuplicatesConverge`, `ReportedAuthorityIsOrdered`, `ImplementsRegister` |
| `generation` | 2 commands with any of 9 member lists over 5 candidates, at most 3 movements by other processes | 2.4 M | `RepositoryIsValid`, `OneCreatorPerAnchor`, `AuthorityWasCurrentDuringCall`, `CollisionsAlwaysConverge`, `AuthorityHoldsAtInsert` |
| `consumption` | 3 calls of 2 commands and 2 consumers, a composition and a text revision, at most 3 raw selections, 3 decisions per candidate and 3 movements together | 1.0 M | `EligibilityWasObserved`, `CollisionMeansDivergence`, `RepositoryIsValid`, `StableSourceIsConsumed`, `StableVerdictIsRight`, `ImplementsRegister` |
| `delivery` | 2 commands with fairness, 2 materializations with different bytes, 1 location, perhaps an attempt left by a dead process, 1 foreign change | 0.3 M | `DeliveredWasWitnessed`, `OneOpenAttempt`, `ConflictMeansDivergence`, `DestinationFollowsRecord`, `LiveAttemptsClose`, `ImplementsLedger` |
| `release` | 3 commands of either kind, 2 subjects of one intake and a third with blocking findings, 3 decisions, 1 change of source, 2 selectors | 2.9 M | `SelectionHadAuthority`, `ExportHadAuthority`, `OneCreatorPerSelection`, `SelectionsAreHonoured`, `ReleasesAreValid` |
| `publication` | 3 calls of 3 commands and 1 query, 2 deliveries to two locations, 3 file changes, 2 publishers | 1.0 M | `PublicationsAreValid`, `PublicationsAreHonoured`, `StableAvailabilityIsRight` |
| `edit_export` | 3 calls of 3 judgments and 2 exporters, 2 candidates, 2 people, 2 replacements, perhaps a reversed judgment before, 2 changes of standing | 1.8 M | `RepositoryIsValid`, `ApprovalIsWhatWasSubmitted`, `JudgmentsTakeEffect`, `StableScopeIsExported` |
| `asr` | 3 commands, 2 bindings, 2 segments, any process deaths, one machine crash or one failing file operation | 5.3 M | `NothingBlendedIsAdmitted`, `OneOwnerUntilAdmitted`, `DeathsCostNothing` |

`CHECK_DEADLOCK FALSE` everywhere: a behaviour ends when every command has returned or died.

**What they show.** The optimistic scheme works: although the read of the current row is stale
when the row is inserted, histories never fork, and what a command reports was true at some moment
of its call. Convergence after a collision works as documented wherever it is promised, and
a command of a person that lost a race is never answered with somebody else's record. (The path
that finds the wanted choice current before it inserts anything is different by design: `select_final`
and `publish` then report it as reused, whoever made it,
`application/effective_subtitle_final_selection.py:391`, `application/effective_srt_publication.py:389`.)
Multi-read answers
are right whenever the answer itself stayed the same during the call, whatever else moved: what is
effective or the reason why nothing is (`StableSourceIsConsumed`, `StableVerdictIsRight`), the
publication in force and its availability (`StableAvailabilityIsRight`), the export scope and the
standing of its chains (`StableScopeIsExported`). When it did change, each condition still held at
some moment of the call; that they hold *at one moment* is delivered only where the insert transaction revalidates (`AuthorityHoldsAtInsert`), which
text generation, selection and consumption do not (section 6). A consumer never falls back
silently. Delivery's records are truthful in the sense that counts: DELIVERED implies that the bytes
were there after the intent was durable, also when the file was deleted, rewritten or reconciled by
somebody else in between. The ASR checkpoint does not lead to a blended transcript, not even when the
removal of the directory lets two processes own one key, unless old segments could not be removed
*and* a record was lost (section 6); process deaths cost nothing, a machine crash may cost the
checkpoint (section 6).

**Why the bounds are enough.** A lost race needs two commands; a converged duplicate beside a
divergent winner, or a command overtaken twice, needs three. A stale read followed by a
re-established state (accept, reject, accept; switch away and back) needs three entries in a
history, which is what the bounds on decisions and sources allow where re-establishment matters
(`generation`, `release`). In `consumption` the third decision lets the members of a revision take
turns at not being accepted, so that the revision is at no moment applicable although each member is
accepted when it is read; the raw log starts at one entry and may reach three. Two locations in
`publication` let another publication, with a file of its own, take over during a query; two changes
of standing in `edit_export` remove a chain and restore it. `MaxInvoked` limits how many of the
declared processes run in one behaviour, so that every mixture of three is covered without paying
for all of them at once. `MaxMoves` limits what other processes record in `generation` to three
movements, enough to withdraw, re-accept and switch the transcript around one command. The number of
rows of a history is bounded by the number of commands, since each inserts at most one. The subject
with blocking findings in `release` is judged once and in behaviours of its own (`FindingsApart`):
nothing that would be recorded for it could depend on the others. One foreign change of the
destination covers each of its possible positions relative to two commands; three changes in
`publication` replace a file, put it back and remove it during a query. Two segments make a proper
prefix; `OneMishap` allows one crash or one failing file operation per behaviour, at any point,
beside any number of kills; combinations of failures are covered by the proof, and the one that
breaks the code has a run of its own (`LostRemovalAndRecord`). `Leftover` and `Reversible` start
behaviours where an earlier command may have left off, so that a third party's history is there
without a third process.

**Symmetry** is used for commands, consumers, exporters, provenances, replacements and bindings,
which are interchangeable in every definition and every property of their runs, and in `publication`
for the two deliveries exchanged together with their locations and payloads (`Exchange`); the run
with a liveness property uses none.

**Fairness.** Safety runs assume none. `delivery` assumes weak fairness of each command's
own steps once it has started: an operating system runs a process that is not killed. It does not
assume that a command is started, that a crash is followed by a `reconcile`, or that storage
works; accordingly `LiveAttemptsClose` excuses a process that was killed or whose insert failed, and
one that ended with the uncaught error of `InspectionRaises`, which contradicts a document
(section 6).

**Mutants.** For every property of every passing run a mutated definition stands next to the
original, preceded by a comment saying what is wrong with it (a constraint that covers too much,
a forgotten re-check, an order reversed), and the property fails on it.

## 4. What is proved

TLAPS checks the theorems below for instances of every size: any sets of intakes, transcripts,
candidates, reviewers, locations, commands, queries and consumers, finite or not unless the table
list of assumptions says otherwise, any number of rows and movements, any lineage. Every safety,
action and refinement property that a passing run checks is among them.

| Module | Properties proved |
|---|---|
| `RawTranscriptSelection` | `TypeOK`, `HistoryIsOneChain`, `SuccessWasCurrent`, `DuplicatesConverge`; refinement `ImplementsRegister` |
| `CandidateDecision` | `NoMisattribution`, `DuplicatesConverge`, `ReportedAuthorityIsOrdered`; refinement `ImplementsRegister` |
| `RevisionGeneration` | `RepositoryIsValid`, `OneCreatorPerAnchor`, `AuthorityWasCurrentDuringCall`, `CollisionsAlwaysConverge`; action property `AuthorityHoldsAtInsert` |
| `EffectiveConsumption` with `RevisionSelection` | `EligibilityWasObserved`, `CollisionMeansDivergence`, `RepositoryIsValid`, `StableSourceIsConsumed`, `StableVerdictIsRight`; refinement `ImplementsRegister` |
| `SubtitleRelease` | `SelectionHadAuthority`, `ExportHadAuthority`, `OneCreatorPerSelection`, `SelectionsAreHonoured`, `ReleasesAreValid` |
| `SrtPublication` | `PublicationsAreValid`, `PublicationsAreHonoured`, `StableAvailabilityIsRight` |
| `SrtDelivery` | `DeliveredWasWitnessed`, `OneOpenAttempt`, `ConflictMeansDivergence`; action property `DestinationFollowsRecord`; refinement `ImplementsLedger` |
| `LectureEditExport` with `LectureReview` | `RepositoryIsValid`, `ApprovalIsWhatWasSubmitted`, `JudgmentsTakeEffect`, `StableScopeIsExported` |
| `LocalAsrExecution` | `NothingBlendedIsAdmitted`, `OneOwnerUntilAdmitted`, `DeathsCostNothing` |

The theorem about property `P` is called `PHolds`; those about refinement are called
`RegisterImplemented` and `LedgerImplemented`, that about `TypeOK` is `TypeSafety`; the types of the
other modules are the first conjunct of their inductive invariants. Two of the lemmas in
`AuthorityHistoryProofs` are results of their own: `AppendKeepsHistory` and `AppendExtendsTargets`,
that an accepted insert keeps a history one chain and adds one entry to its log.

**Assumptions.** Only those the modules state, which TLC evaluates in every run:

* `None` and the other markers are none of the values they stand beside (`NoneAssumption`,
  `FileAssumption`, `ProposalAssumption`, `ReleaseNoneAssumption`, `PublicationNoneAssumption`).
* Constant relations have their types: `OwnerAssumption`, `AdmittedAssumption`, `PayloadAssumption`,
  `CandidateAssumption` and those called `...LineageAssumption`; bounds are natural numbers.
* `RequestAssumption`: requests passed the validation every command starts with.
* `StartAssumption`: the parent of a revision had been selected in its intake, without which the
  revision could not have been generated (`RevisionGeneration`).
* `SourcesAssumption`: each intake has had an effective source, and each review subject's source was
  one of its intake's, without which its candidate could not have been generated (`SubtitleRelease`).
* Finite: the judgments that were reversed before the start (`ReversibleAssumption`), and the bindings
  and commands of `LocalAsrExecution` (`FiniteAssumption`): the height of a history is a cardinality,
  and a new lock file takes an inode number that nobody holds.

### The arguments

None of the properties is inductive: they say nothing of what commands remember. One principle runs
through all the invariants. Between two steps of a command others may do anything they like, so the
invariant says of a command only what *growth* keeps: that a row it has read is recorded, that
a log holds an entry at a position; never that something is current. Every module has a lemma that
all steps only grow the shared state (`Grown`, `Grows`), and one that growth keeps what a command
knows.

**Histories** (`AuthorityHistoryProofs`, `RawTranscriptSelectionProofs`, `CandidateDecisionProofs`).
Sequences are contiguous (0 to `Height` - 1), and the row that a command remembers as current is
still in the table. So the stale read is harmless: the sequence that the command will use is *at
most* the present height (`ReadIsUsable`); `UNIQUE (scope, sequence)` refuses every number below it,
because the sequence is contiguous; so an insert that succeeds uses exactly the height, and its
predecessor is exactly the row that was read. `CallInv` relates each command to its observation: what
it read is at least as recent as its invocation. Every row was asked for by some command
(`Requested`), so that a command that collides can point at its contender. The refinement maps
the table to the register by listing each scope's targets in order; every other step stutters. For
`ReportedAuthorityIsOrdered` the invariant of a query relates its count to the height when it began
and to the row it read later.

**Generation** (`RevisionGenerationProofs`). `Authorized` says that an anchor's decision numbers name
acceptances, `ReadInv` that what a command has read lies at or after the start of its call, member by
member. `CollisionsAlwaysConverge` needs that a command in `resolve` collided with a generation of
its own anchor that is still there. For `AuthorityHoldsAtInsert`, where the state of one moment
matters, the proof uses of the earlier steps only that the reads are complete and of one intake: it
is the revalidation inside the transaction (`Revalidates`) that makes it true.

**Consumption** (`EffectiveConsumptionProofs`) has three layers. `SelectionInv` is about the
authorities alone: the selection table is as above, and a selection command has `Checked` part of its
revision at moments of the call (`SawParent`, and `SawAccepted` for the members it has `Passed`).
`ConsumptionInv` says that each binding agrees with the records it names and what each consumer has
read. `Witnessing` is about time: `witnessed` collects everything that was effective during a call,
and `Faithful` says that as long as it is one thing, what the consumer has read at different moments
is what it would read now, *as far as it determines the answer*. The last words are what makes it
inductive. When nothing is effective, the parent and the members may take turns at failing, so
nothing is claimed of the former reads but the reason that all the moments share.

**Release** (`SrtChainProofs`, I). `ReleaseInv` follows a command through four questions.
`ReleaseRelies`: the decision it relies on is an Accept, and past the re-check (`Supported`) one that
was not superseded before the call. `ReleaseSourced`: once its source has been answered for (`Passed`),
either that source is still the effective one or the effective source has moved since the call,
which is what `disturbed` remembers. `ReleaseChose`: the row in hand is recorded and not older than the
call; for a selection it continues the history or loses to whoever took the slot. `ReleaseMade`: the
artifact it reports is in the table. `ReleaseShape` carries what the other four need of the control
flow: that an export has its artifact only in the places where it reports the currentness,
so that the second pass through the decision and the source does not ask for permission again, and
that only a selection can end in a conflict. Creators differ (`CreatorsDiffer`) because
`ReplayAnchorTaken` refuses the second insert and an artifact, once inserted, stays.

**Publication** (`SrtChainProofs`, III). `PublicationTableInv` is the chain with the two checks of the
validator; since an outcome is recorded once, a delivery that was DELIVERED when it was checked still
is when its publication is inserted: the stale check of the outcome is harmless.
`ReaderInv` is `Faithful` of consumption once more: what holds while a query asks has been witnessed,
and as long as one standing has been, what the query read and saw is of that standing. It is the
reason why every step that moves a file, an outcome or the history observes the standings.

**Delivery** (`SrtChainProofs`, II). `RecordInv` says that the attempts of a pair form a gapless chain
of which only the last may be open, and that a payload found in place has been witnessed for
every intent that wants it there. Of files nothing else is claimed, since any program may change
them. `AttemptCallInv` says that the attempt a command works on is recorded, that its verdict is justified by
`witnessed`, and that its policy permits what it is about to unlink. The refinement maps the intents
to a function from deliveries to the state that `state()` derives, `witnessed` to `placed`. The two
inserts are `Record` and `Close`; a link, an unlink and a foreign write are `Change`, a write that
fails included, because the ledger leaves open what a change leaves behind; everything else
stutters. A second outcome for one attempt would be a step the ledger does not have, and the primary
key refuses it; that is all the model needs of the two hazards at `application/effective_srt_delivery.py:570`
and `:608`, where a command's outcome may be late or wrong about what comes after.

**Review and export** (`LectureEditExportProofs`). `TablesInv` ties the three tables together (an
approving decision has exactly one approval, a reject none; positions are gapless chains that never
repeat a decision). A planned position is not older than the call and continues a row that says
something else (`PlanInv`), so whoever finds its place taken has been overruled during the call or
finds the own judgment there, which is what `JudgmentsTakeEffect` asks. For the exporter,
`Gathered` says, under the assumption that all the scopes it could have seen are one, that what it
holds is the part of that scope it has visited; a conflict is found already or still `Ahead`. The theorem
does not say that a conflict has to stop the assembly, which the code does and the document forbids.

**Local ASR** (`LocalAsrExecutionProofs`). Before an admission, neither a directory nor a lock file that
a command opened has been removed, so inodes decide ownership (`OpenInv`, `ExclusiveInv`); removal only
begins after it. `Sound` says that as far as the ordinals of a file are in order, its segments were
decoded by commands that had exactly those before them. It speaks of every prefix, so it survives
a crash that leaves any, and of in-order parts only, so it survives the malformed line that appending
behind a torn tail makes. It is claimed only while the two failures that make a blend together have
not both happened (`Separate`), and `InStep` says why one of them is not enough. If every record gets
written, a line put behind old segments that stayed never has the next ordinal, since the file is
longer than the run by a constant. If the old segments are always removed, a lost record leaves the
file shorter than the run for good, and what comes behind the gap is never in order. That the result is
whole needs neither. `CostInv` holds while nothing was lost: the file of a key is the one transcript
that all its commands extend.

### What the proofs corrected

Looking for inductive invariants showed that four properties held only because of the bounds of their
runs; models, properties or bounds were corrected, and TLC confirms the stronger instance.

* `StableSourceIsConsumed` and `StableVerdictIsRight` had claimed too much of calls during which
  nothing was effective: with three decisions, two members can take turns at being unaccepted. Now
  "nothing" counts with its reason, and a refused consume is no verdict.
* `StableScopeIsExported` had ignored chains that lose their standing and regain it during a call.
* `StableAvailabilityIsRight` had ignored another publication with another file taking over.

## 5. What is only model-checked

* Liveness (`LiveAttemptsClose`): fairness and `ENABLED` are outside the proof system's reach. The
  safety half of it, `OneOpenAttempt`, is proved.
* The three statements of the runs in section 6, which are false.

Of the composition by interface, the theorems prove the refinements to `AuthorityRegister` and
`DeliveryLedger`. One link is argued in section 2 and neither checked nor proved: that the effective
source in `SubtitleRelease`, together with its verdicts, moves no more freely than the resolver of
`EffectiveConsumption` allows. `StableVerdictIsRightHolds` is the part of it that the argument rests on.

## 6. Where code and documents disagree

Three runs check one statement each, and TLC refutes it:

| Run | Statement | What happens |
|---|---|---|
| `selected_context` | implementation/070: the validator reports a selection whose revision's lineage does not belong to its intake | the validator looks for that lineage among text and timing generations only, and reports every selection of a same-source composition. |
| `lost_writes_cost_only_resume` | the comments on CP-10 and CP-19: losing checkpoint writes costs only the resume, and a discarded checkpoint is never blended with a fresh run | `begin` swallows a failing unlink, `append` a failing write; with one of each, the next execution finds one contiguous file of two executions and admits it. Either failure alone is harmless (`NothingBlendedIsAdmitted`). |
| `conflict_is_no_veto` | docs/044 CD-2: a conflict over one candidate does not block the assembly of the others | `_require_decided` (`application/lecture_edit_export_assembly.py:495`) stops at any conflict. |

Further disagreements met while modelling, without a run of their own:

* *Overwriting is not atomic*: `replace()` unlinks the old file and then links the new one
  (`infrastructure/local_effective_srt_file_writer.py:37`), where its docstring and
  implementation/108 and 109 say "atomically replaces".
* *Identical deliveries can fail*: the second of two that complete one PENDING intent meets an
  unhandled collision of the outcome (`application/effective_srt_delivery.py:570`);
  implementation/109:72-76 says the loser converges.
* *A new selection must be eligible now* (docs/040:2303): eligibility is read before the
  transaction (`application/corrected_revision_selection.py:489`), so a decision withdrawn in between
  is not seen. The resolver refuses such a selection later.
* *A source of no moment* (docs/040:2428-2430: an acquisition cannot mix different states): the raw
  path (`application/effective_transcript_consumption.py:317`) has no counterpart of the corrected
  path's parent check (342). A consumer that reads the old raw selection, and the revision selection
  only after both have moved, can bind a raw transcript that was effective at no moment of its call;
  hence the premise of `StableSourceIsConsumed`.
* *A torn tail costs the checkpoint* (docs/040:944-950, CP-11: a crash leaves an incomplete tail,
  not corruption, and resume starts earlier): `load` cuts the tail off what it returns
  (`infrastructure/local_asr_checkpoint_store.py:140`) and not off the file; the resumed execution
  appends behind it (204), the two make one malformed line, and the next `load` discards everything.
* *Failures of the destination are recorded* (implementation/109:58-63: only a crash between intent
  and outcome leaves a PENDING): an `lstat` error other than `FileNotFoundError`
  (`infrastructure/local_srt_file_writer.py:24-35`) passes the writers and the handlers of `deliver`
  and `reconcile` (`application/effective_srt_delivery.py:536-547`, 553, 605), and the attempt stays
  PENDING until a later call closes it. `InspectionRaises` is that step, and `LiveAttemptsClose`
  excuses it; without the excuse TLC refutes the property by that very step.
* *Line separators in text*: `load` splits with `str.splitlines()`
  (`infrastructure/local_asr_checkpoint_store.py:149`), which also splits at U+2028 and U+0085;
  `append` writes those unescaped. Such a segment makes the checkpoint malformed. (The text of
  a segment is not in the model.)

Two further behaviours are visible in the delivery model and contradict no document. `reconcile`
run beside a live `deliver` can record FAILED for a file that then appears; and a request without
overwrite completes somebody's dangling overwrite under its recorded policy.

## 7. What is not modelled

* *Admissions of candidates, intake, import, subtitle generation, review preparation, lecture
  analysis*: inserts keyed by a digest of their content that nothing changes afterwards; they enter
  as constants (`Owner`, `Admitted`, `SourceOf`, `IntakeOf`, `ParentOf`, `MembersOf`, ...).
* *The commands that record timing decisions and subtitle review decisions*: `CandidateDecision`
  over other tables; their histories move as registers.
* *Revision creation inside `RevisionSelection`*: revisions exist from the start and their first
  acceptance is recorded. A revision that does not exist yet cannot be selected, so this loses only
  the unknown-revision rejection.
* *Materialization*: the discipline of delivery without attempts, recorded overwrite policy or
  reconcile; see the plan.
* *Malformed input, unsafe paths, corrupt rows*: rejected before any state is read or changed.
* *Pure functions* (cue composition, readability, quality predicates, serialization): no state.
* *Migrations*: each is one immediate transaction on a database nobody else uses yet.
* *Execution service and first-generation pipelines*: superseded by the components modelled here,
  and driven by one process at a time.
* *The validator's checks of tables that are not modelled; CLIs, demos, providers*: read-only,
  wiring, or external. They make up most of the lines of the repository, together with the
  parsing and formatting that surrounds every command.

## 8. Plan

In order of what most deserves it:

1. `SrtMaterialization`, which should implement `DeliveryLedger` as `SrtDelivery` does.
2. The decision tables of timing candidates and review subjects as instances of one parameterised
   decision module.
3. The execution service.
4. Cue composition as a checked algorithm.

Proofs: every safety, action and refinement property of the passing runs has its theorem. What remains
is the link named at the end of section 5: an abstract specification of the effective source that
`EffectiveConsumption` implements and `SubtitleRelease` uses.

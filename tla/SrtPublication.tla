---------------------------- MODULE SrtPublication ----------------------------
(***************************************************************************)
(* Effective SRT Publication: concurrent `publish` and `withdraw` commands *)
(* over the deliveries of an intake, and the queries that derive whether   *)
(* what is published is available.                                         *)
(*                                                                         *)
(* Publication authority is one more AuthorityHistory table; what it       *)
(* points at moves underneath it.  A publish reads the delivery's outcome, *)
(* looks at the destination file, reads the current publication and only   *)
(* then appends; a query reads the current publication and then the file.  *)
(* The deliveries are those of SrtDelivery, reduced to the ledger that it  *)
(* implements.                                                             *)
(***************************************************************************)
EXTENDS RepositoryValidator, DestinationFiles, Sequences

CONSTANTS
    DeliveryIntake, Delivery,
    IntakeOfDelivery,    \* the intake of each delivery's artifact
    LocationOfDelivery,  \* the destination of each delivery
    PayloadOfDelivery,   \* the bytes of each delivery's artifact
    Publisher,           \* who publishes or withdraws, and why
    PublicationCommand,  \* the publish and withdraw commands
    Reader,              \* the availability and status queries
    MaxFileChanges       \* bound on the changes of destination files

ASSUME PublicationLineageAssumption ==
    /\ IntakeOfDelivery \in [Delivery -> DeliveryIntake]
    /\ LocationOfDelivery \in [Delivery -> Location]
    /\ PayloadOfDelivery \in [Delivery -> Bytes]
ASSUME FileChangesAssumption == MaxFileChanges \in Nat

\* The closed kind/target rule: a publish names a delivery, a withdraw none.
Publish(d) == <<"publish", d>>
Withdraw == <<"withdraw", None>>
Published(row) == row.target[1] = "publish"
PublicationTarget == {Publish(d) : d \in Delivery} \union {Withdraw}

PublicationOutcomes ==
    {"not_publishable", "nothing_to_withdraw", "recorded", "changed", "reused",
     "converged", "conflict", "error"}
Observations == {"matches", "missing", "differs", "unsafe"}

ASSUME PublicationNoneAssumption ==
    /\ None \notin PublicationTarget
    /\ None \notin PublicationOutcomes \union Observations

VARIABLES
    outcome,             \* per delivery, its outcome; "pending" is none
    destination,         \* what each destination path holds
    changes,             \* how often destinations changed
    placed,              \* deliveries whose bytes have been in place
    publications,        \* table subtitle_effective_srt_publications
    request,             \* the local state of each command
    reader,              \* the local state of each query
    standings            \* observation only: what held during each query

deliveries == <<outcome, destination, changes, placed>>

DestinationOf(d) == LocationOfDelivery[d]
BytesOf(d) == PayloadOfDelivery[d]

Upstream == INSTANCE DeliveryLedger
    WITH Nothing <- None, Content <- Bytes \union {None, Obstacle},
         LocationOf <- DestinationOf, PayloadOf <- BytesOf, file <- destination

publicationVars == <<deliveries, publications, request, reader, standings>>

NotRequested ==
    [pc |-> "idle", intake |-> None, target |-> None, publisher |-> None,
     after |-> None, row |-> NoRow, start |-> 0, outcome |-> None]

NotAsked ==
    [pc |-> "idle", intake |-> None, about |-> NoRow, current |-> NoRow,
     seen |-> None, answer |-> None]

PublicationInit ==
    /\ outcome = [d \in Delivery |-> "pending"]
    /\ Upstream!Init
    /\ changes = 0
    /\ publications = {}
    /\ request = [c \in PublicationCommand |-> NotRequested]
    /\ reader = [u \in Reader |-> NotAsked]
    /\ standings = [u \in Reader |-> {}]

-----------------------------------------------------------------------------
(* What is true at one moment. *)

\* _observe_destination, with a Delivery Root supplied.
Observation(d) ==
    LET held == destination[DestinationOf(d)]
    IN  IF held = BytesOf(d) THEN "matches"
        ELSE IF held = None THEN "missing"
        ELSE IF held = Obstacle THEN "unsafe"
        ELSE "differs"

AvailabilityOf(observation) ==
    CASE observation = "matches" -> "available"
      [] observation = "missing" -> "destination_missing"
      [] OTHER                   -> "destination_mismatch"

\* _availability_of(current).
Availability(row) ==
    IF row = NoRow THEN "not_published"
    ELSE IF row.target = Withdraw THEN "withdrawn"
    ELSE IF outcome[row.target[2]] # "delivered" THEN "unresolvable"
    ELSE AvailabilityOf(Observation(row.target[2]))

\* The publication that is current for a query, and its availability.
StandingFor(u) ==
    {[current |-> row, availability |-> Availability(row)] :
        row \in CurrentAnswers(publications, reader[u].intake)}

Asking == {"current", "look", "derive"}

\* The steps that start a query or move what it reads observe what holds.
ObserveStandings ==
    standings' = [u \in Reader |->
        IF reader[u].pc \in Asking \/ reader'[u].pc \in Asking
        THEN standings[u] \union StandingFor(u)'
        ELSE standings[u]]

-----------------------------------------------------------------------------
(* The deliveries. *)

\* A delivery, or another program, changes a destination.
ChangeFile(l, held) ==
    /\ changes < MaxFileChanges
    /\ held # destination[l]
    /\ changes' = changes + 1
    /\ Upstream!Change(l, held)
    /\ UNCHANGED <<publications, request, reader>>
    /\ ObserveStandings

CloseDelivery(d, state) ==
    /\ Upstream!Close(d, state)
    /\ UNCHANGED <<changes, publications, request, reader>>
    /\ ObserveStandings

-----------------------------------------------------------------------------
(* publish(delivery_id, publisher) and withdraw(intake_id, publisher). *)

\* What is left of a command that returned or died.
RequestLeave(c, pc, result) ==
    request' = [request EXCEPT ![c].pc = pc, ![c].outcome = result,
                               ![c].after = None, ![c].row = NoRow]

RequestReturn(c, result) == RequestLeave(c, "returned", result)
RequestGoto(c, pc) == request' = [request EXCEPT ![c].pc = pc]

\* With a Delivery Root, the outcome check is followed by a look at the file.
InvokePublish(c, d, publisher, after) ==
    /\ request[c].pc = "idle"
    /\ request' = [request EXCEPT
          ![c].pc = "outcome", ![c].intake = IntakeOfDelivery[d], ![c].target = Publish(d),
          ![c].publisher = publisher, ![c].after = after,
          ![c].start = Height(publications, IntakeOfDelivery[d])]
    /\ UNCHANGED <<deliveries, publications, reader, standings>>

InvokeWithdraw(c, i, publisher) ==
    /\ request[c].pc = "idle"
    /\ request' = [request EXCEPT
          ![c].pc = "current", ![c].intake = i, ![c].target = Withdraw,
          ![c].publisher = publisher, ![c].start = Height(publications, i)]
    /\ UNCHANGED <<deliveries, publications, reader, standings>>

\* Mutant: a delivery that is merely recorded can be published.
AcceptOutcome(c) ==
    /\ request[c].pc = "outcome"
    /\ RequestGoto(c, request[c].after)
    /\ UNCHANGED <<deliveries, publications, reader, standings>>

\* publication_eligibility(): the delivery must be DELIVERED...
CheckOutcome(c) ==
    /\ request[c].pc = "outcome"
    /\ IF outcome[request[c].target[2]] # "delivered"
       THEN RequestReturn(c, "not_publishable")
       ELSE RequestGoto(c, request[c].after)
    /\ UNCHANGED <<deliveries, publications, reader, standings>>

\* ...and, if a Delivery Root is supplied, hold its bytes now.
CheckDestination(c) ==
    /\ request[c].pc = "observe"
    /\ IF Observation(request[c].target[2]) = "matches"
       THEN RequestGoto(c, "current")
       ELSE RequestReturn(c, "not_publishable")
    /\ UNCHANGED <<deliveries, publications, reader, standings>>

ReadCurrentPublication(c) ==
    /\ request[c].pc = "current"
    /\ \E current \in CurrentAnswers(publications, request[c].intake) :
          IF current.target = request[c].target
          THEN RequestReturn(c, "reused")
          ELSE IF current = NoRow /\ request[c].target = Withdraw
          THEN RequestReturn(c, "nothing_to_withdraw")
          ELSE request' = [request EXCEPT ![c].pc = "persist", ![c].row = current]
    /\ UNCHANGED <<deliveries, publications, reader, standings>>

NewPublication(c) ==
    Successor(request[c].row, request[c].intake, request[c].target,
              request[c].publisher)

PersistPublication(c) ==
    /\ request[c].pc = "persist"
    /\ ~IdentityExists(publications, NewPublication(c))
    /\ ValidSupersession(publications, NewPublication(c))
    /\ ~SlotTaken(publications, NewPublication(c))
    /\ publications' = publications \union {NewPublication(c)}
    /\ RequestReturn(c, IF request[c].row = NoRow THEN "recorded" ELSE "changed")
    /\ UNCHANGED <<deliveries, reader>>
    /\ ObserveStandings

PublicationCollides(c) ==
    /\ request[c].pc = "persist"
    /\ \/ IdentityExists(publications, NewPublication(c))
       \/ /\ ValidSupersession(publications, NewPublication(c))
          /\ SlotTaken(publications, NewPublication(c))
    /\ RequestGoto(c, "resolve")
    /\ UNCHANGED <<deliveries, publications, reader, standings>>

\* A locked database, an I/O error or a refused supersession.
PublicationFails(c) ==
    /\ request[c].pc = "persist"
    /\ RequestReturn(c, "error")
    /\ UNCHANGED <<deliveries, publications, reader, standings>>

\* Mutant: after a collision the state counts, not whose command it was.
PublicationConvergesOnState(c, row) == row.target = request[c].target

\* The fingerprint covers publisher and rationale.
PublicationConverges(c, row) ==
    row.target = request[c].target /\ row.note = request[c].publisher

ResolvePublication(c) ==
    /\ request[c].pc = "resolve"
    /\ \E current \in CurrentAnswers(publications, request[c].intake) :
          request' = [request EXCEPT
              ![c].pc = "returned", ![c].row = current,
              ![c].outcome = IF PublicationConverges(c, current) THEN "converged" ELSE "conflict"]
    /\ UNCHANGED <<deliveries, publications, reader, standings>>

RequestRunning == {"outcome", "observe", "current", "persist", "resolve"}

KillRequest(c) ==
    /\ request[c].pc \in RequestRunning
    /\ RequestLeave(c, "killed", None)
    /\ UNCHANGED <<deliveries, publications, reader, standings>>

-----------------------------------------------------------------------------
(* availability(intake_id), and status(publication_id) about one record. *)

AskAvailability(u, i) ==
    /\ reader[u].pc = "idle"
    /\ reader' = [reader EXCEPT ![u].pc = "current", ![u].intake = i]
    /\ UNCHANGED <<deliveries, publications, request>>
    /\ ObserveStandings

AskStatus(u, row) ==
    /\ reader[u].pc = "idle"
    /\ reader' = [reader EXCEPT ![u].pc = "current", ![u].intake = row.scope,
                                ![u].about = row]
    /\ UNCHANGED <<deliveries, publications, request>>
    /\ ObserveStandings

ReadPublication(u) ==
    /\ reader[u].pc = "current"
    /\ \E current \in CurrentAnswers(publications, reader[u].intake) :
          reader' = [reader EXCEPT
              ![u].current = current,
              ![u].pc = IF reader[u].about # NoRow /\ Published(reader[u].about)
                        THEN "look" ELSE "derive"]
    /\ UNCHANGED <<deliveries, publications, request, standings>>

\* status() observes the destination of the publication it is about...
LookAtTarget(u) ==
    /\ reader[u].pc = "look"
    /\ reader' = [reader EXCEPT ![u].pc = "derive",
                                ![u].seen = Observation(reader[u].about.target[2])]
    /\ UNCHANGED <<deliveries, publications, request, standings>>

\* Mutant: availability is derived from the publication the query is about.
DeriveFromSubject(u) ==
    /\ reader[u].pc = "derive"
    /\ reader' = [reader EXCEPT
          ![u].pc = "answered",
          ![u].answer = Availability(IF reader[u].about # NoRow
                                     THEN reader[u].about ELSE reader[u].current)]
    /\ UNCHANGED <<deliveries, publications, request, standings>>

\* ...and both queries that of the publication read as current, whose outcome
\* no longer changes.
DeriveAvailability(u) ==
    /\ reader[u].pc = "derive"
    /\ reader' = [reader EXCEPT ![u].pc = "answered",
                                ![u].answer = Availability(reader[u].current)]
    /\ UNCHANGED <<deliveries, publications, request, standings>>

-----------------------------------------------------------------------------

PublicationNext ==
    \/ \E l \in Location, held \in Bytes \union {None, Obstacle} : ChangeFile(l, held)
    \/ \E d \in Delivery, state \in {"delivered", "failed"} : CloseDelivery(d, state)
    \/ \E c \in PublicationCommand :
        \/ \E d \in Delivery, publisher \in Publisher, after \in {"observe", "current"} :
              InvokePublish(c, d, publisher, after)
        \/ \E i \in DeliveryIntake, publisher \in Publisher : InvokeWithdraw(c, i, publisher)
        \/ CheckOutcome(c)
        \/ CheckDestination(c)
        \/ ReadCurrentPublication(c)
        \/ PersistPublication(c)
        \/ PublicationCollides(c)
        \/ PublicationFails(c)
        \/ ResolvePublication(c)
        \/ KillRequest(c)
    \/ \E u \in Reader :
        \/ \E i \in DeliveryIntake : AskAvailability(u, i)
        \/ \E row \in publications : AskStatus(u, row)
        \/ ReadPublication(u)
        \/ LookAtTarget(u)
        \/ DeriveAvailability(u)

PublicationSpec == PublicationInit /\ [][PublicationNext]_publicationVars

-----------------------------------------------------------------------------
(* Properties. *)

\* What the validator says of publications: a target that is not DELIVERED, a
\* scope other than the target's, besides the shape of the history.
UndeliveredTargets ==
    {row \in publications : Published(row) /\ outcome[row.target[2]] # "delivered"}

ScopeMismatches ==
    {row \in publications : Published(row) /\ row.scope # IntakeOfDelivery[row.target[2]]}

\* Whatever the interleaving of publishes, withdrawals, deliveries and file
\* changes, the validator has nothing to say against the publications.
PublicationsAreValid ==
    /\ HistoryIsValid(publications)
    /\ UndeliveredTargets = {}
    /\ ScopeMismatches = {}

\* "An explicit Human command is never silently discarded": a command that
\* lost its slot, a withdrawal against a publish above all, converges only on
\* its own request under its own name, recorded while it ran, and it is refused
\* only if a different record was appended while it ran.
PublicationsAreHonoured ==
    \A c \in PublicationCommand :
        /\ request[c].outcome = "converged" =>
              /\ request[c].row \in RowsOf(publications, request[c].intake)
              /\ request[c].row.sequence >= request[c].start
              /\ request[c].row.target = request[c].target
              /\ request[c].row.note = request[c].publisher
        /\ request[c].outcome = "conflict" =>
              \E row \in RowsOf(publications, request[c].intake) :
                  /\ row.sequence >= request[c].start
                  /\ <<row.target, row.note>> # <<request[c].target, request[c].publisher>>

\* A query whose facts stayed put is right: when one publication was the
\* scope's current one during the whole query and its availability did not
\* change, that is the answer, whichever publication the query was about and
\* whatever was delivered or deleted elsewhere; and a status report about the
\* current publication, which looks at its destination twice, then agrees with
\* itself.  (If another publication takes over meanwhile, the answer may be one
\* that held at no moment of the query, although both were available.)
StableAvailabilityIsRight ==
    \A u \in Reader : \A standing \in standings[u] :
        reader[u].pc = "answered" /\ standings[u] = {standing}
            => /\ reader[u].answer = standing.availability
               /\ reader[u].seen # None /\ reader[u].about = reader[u].current
                     => AvailabilityOf(reader[u].seen) = standing.availability
===============================================================================

---------------------------- MODULE DocumentStore ----------------------------
(***************************************************************************)
(* One Document in PostgreSQL: its row, its Versions, its publication      *)
(* schedules, the ledgers of accepted commands and the latest Document      *)
(* Revision, with every transaction that changes them.                     *)
(*                                                                         *)
(* Each transaction first locks the documents row (SELECT ... FOR UPDATE)   *)
(* and reads everything else under that lock, so it is one action.  A       *)
(* command carries the revision its caller saw; a command whose id is in    *)
(* its ledger is answered from the ledger and changes nothing, and so does  *)
(* a command that is refused: neither needs an action.                     *)
(*                                                                         *)
(* Data: the manifest of a Version is one of Contents, and two manifests    *)
(* differ when their identity digests do.  Metadata, folders, actors,       *)
(* events and files are left out; due and waiting stand for                 *)
(* scheduled_publish_at <= now() and next_retry_at > now().                 *)
(***************************************************************************)
EXTENDS Integers, Sequences, FiniteSets

CONSTANTS
    Contents,       \* manifests a Version may have
    PublishIds,     \* publish operation ids
    MaxVersions,    \* bound on the Versions of the Document
    MaxOperations   \* bound on the other commands accepted

ASSUME DocumentAssumption ==
    /\ Contents # {}
    /\ MaxVersions \in Nat \ {0}
    /\ MaxOperations \in Nat

VARIABLES
    doc,            \* the documents row, and whether its publication has ended
    version,        \* Seq(Version): document_versions, by version_no
    schedule,       \* [PublishIds -> Schedule]: document_publish_schedules
    publication,    \* [PublishIds -> Publication]: document_publish_operations
    operation,      \* Seq(Operation): the ledgers of the other commands
    latest          \* the greatest row of document_revisions

vars == <<doc, version, schedule, publication, operation, latest>>

None == 0   \* NULL for a Version, a revision or a content

NoPlan == "no plan"

Doc == [revision : Nat, current : Nat, ended : BOOLEAN]

\* plan: the schedule whose time is projected into scheduled_publish_at.
Version == [state   : {"working", "published", "withdrawn"},
            base    : Nat,
            content : Contents,
            plan    : PublishIds \union {NoPlan}]

\* closed: the revision terminalize left, if it was terminalize.
Schedule == [status   : {"none", "pending", "published", "cancelled", "terminal"},
             target   : Nat,
             base     : Nat,
             accepted : Nat,
             content  : Contents \union {None},
             due      : BOOLEAN,
             waiting  : BOOLEAN,
             reason   : {"none", "stale", "rule", "rejected", "authority",
                         "withdrawal", "ended"},
             closed   : Nat]

NoSchedule == [status |-> "none", target |-> None, base |-> None, accepted |-> None,
               content |-> None, due |-> FALSE, waiting |-> FALSE,
               reason |-> "none", closed |-> None]

Publication == [target : Nat, expected : Nat, revision : Nat]

NoPublication == [target |-> None, expected |-> None, revision |-> None]

\* An operation id is the position of its record: an id is never given twice.
Operation == [expected : Nat, revision : Nat]

Init ==
    /\ doc = [revision |-> 0, current |-> None, ended |-> FALSE]
    /\ \E c \in Contents :
          version = << [state |-> "working", base |-> None, content |-> c,
                        plan |-> NoPlan] >>
    /\ schedule = [p \in PublishIds |-> NoSchedule]
    /\ publication = [p \in PublishIds |-> NoPublication]
    /\ operation = <<>>
    /\ latest = [major |-> 0, minor |-> 0, version |-> None]

-----------------------------------------------------------------------------
(* What the transactions share.                                              *)

Versions == 1 .. Len(version)

Pending == {p \in PublishIds : schedule[p].status = "pending"}

Working(v) == v \in Versions /\ version[v].state = "working"

Published(v) == v \in Versions /\ version[v].state = "published"

ensure_not_ended == ~ doc.ended

ensure_semantic_change(base, content) == version[base].content # content

has_publication_history ==
    \/ \E v \in Versions : v # 1 \/ version[v].state # "working"
    \/ \E p \in PublishIds : publication[p] # NoPublication
    \/ latest.major > 0

\* The command is new, and the Document is the one its caller saw.
Fresh(expected) ==
    /\ Len(operation) < MaxOperations
    /\ doc.revision = expected

\* The command is accepted and leaves the given revision.
Accept(expected, revision) ==
    operation' = Append(operation, [expected |-> expected, revision |-> revision])

issue_publication_revision(v) ==
    latest' = [major |-> latest.major + 1, minor |-> 0, version |-> v]

issue_withdraw_fallback_revision(v) ==
    latest' = [major |-> latest.major + 1, minor |-> 0, version |-> v]

issue_metadata_revision ==
    latest' = IF latest.major = 0
              THEN latest
              ELSE [latest EXCEPT !.minor = @ + 1,
                                  !.version = IF doc.current = None THEN @
                                                                    ELSE doc.current]

-----------------------------------------------------------------------------
(* mutate_scoped: the three commands on a working Version.                   *)

Mutable(expected) ==
    /\ Fresh(expected)
    /\ ensure_not_ended
    /\ doc.current # None => Published(doc.current)
    /\ Pending = {}

\* Mutant: the revision goes the wrong way.
Bump_Down == doc' = [doc EXCEPT !.revision = @ - 1]

Bump == doc' = [doc EXCEPT !.revision = @ + 1]

\* Mutant: the Document may already have a working Version.
create_version_Second(expected, c) ==
    /\ Mutable(expected)
    /\ doc.current # None
    /\ Len(version) < MaxVersions
    /\ ensure_semantic_change(doc.current, c)
    /\ version' = Append(version, [state |-> "working", base |-> doc.current,
                                   content |-> c, plan |-> NoPlan])
    /\ Bump
    /\ Accept(expected, doc.revision + 1)
    /\ UNCHANGED <<schedule, publication, latest>>

create_version(expected, c) ==
    /\ Mutable(expected)
    /\ doc.current # None
    /\ ~ \E v \in Versions : Working(v)
    /\ Len(version) < MaxVersions
    /\ ensure_semantic_change(doc.current, c)
    /\ version' = Append(version, [state |-> "working", base |-> doc.current,
                                   content |-> c, plan |-> NoPlan])
    /\ Bump
    /\ Accept(expected, doc.revision + 1)
    /\ UNCHANGED <<schedule, publication, latest>>

\* Mutant: the Version need not be a draft.
update_working_AnyState(expected, v, c) ==
    /\ Mutable(expected)
    /\ v \in Versions
    /\ version[v].plan = NoPlan
    /\ version[v].base = doc.current
    /\ IF doc.current = None
       THEN v = 1 /\ ~ has_publication_history
       ELSE ensure_semantic_change(doc.current, c)
    /\ version' = [version EXCEPT ![v].content = c]
    /\ Bump
    /\ Accept(expected, doc.revision + 1)
    /\ UNCHANGED <<schedule, publication, latest>>

\* With no current Version only a Document that was never published may change.
update_working(expected, v, c) ==
    /\ Mutable(expected)
    /\ Working(v)
    /\ version[v].plan = NoPlan
    /\ version[v].base = doc.current
    /\ IF doc.current = None
       THEN v = 1 /\ ~ has_publication_history
       ELSE ensure_semantic_change(doc.current, c)
    /\ version' = [version EXCEPT ![v].content = c]
    /\ Bump
    /\ Accept(expected, doc.revision + 1)
    /\ UNCHANGED <<schedule, publication, latest>>

\* Mutant: the working content is not compared with its new base.
rebase_working_Unchecked(expected, v) ==
    /\ Mutable(expected)
    /\ doc.current # None
    /\ Working(v)
    /\ version[v].plan = NoPlan
    /\ version[v].base # doc.current
    /\ version' = [version EXCEPT ![v].base = doc.current]
    /\ Bump
    /\ Accept(expected, doc.revision + 1)
    /\ UNCHANGED <<schedule, publication, latest>>

rebase_working(expected, v) ==
    /\ Mutable(expected)
    /\ doc.current # None
    /\ Working(v)
    /\ version[v].plan = NoPlan
    /\ version[v].base # doc.current
    /\ ensure_semantic_change(doc.current, version[v].content)
    /\ version' = [version EXCEPT ![v].base = doc.current]
    /\ Bump
    /\ Accept(expected, doc.revision + 1)
    /\ UNCHANGED <<schedule, publication, latest>>

-----------------------------------------------------------------------------
(* Publication, by a caller or by the scheduler when a schedule is due.      *)

reject_pending_schedule == Pending = {}

validate_due_schedule(p, v, base, expected) ==
    LET s == schedule[p] IN
    /\ s.status = "pending"
    /\ s.target = v /\ s.base = base /\ s.accepted = expected
    /\ s.due /\ ~ s.waiting

complete_due_schedule(p) ==
    schedule' = [schedule EXCEPT ![p].status = "published", ![p].waiting = FALSE]

\* Mutant: the publication is not recorded under its id.
Publish_NoLedger(p, v, expected, due) ==
    /\ version' = [version EXCEPT ![v].state = "published",
                                  ![v].plan = IF due THEN NoPlan ELSE @]
    /\ doc' = [doc EXCEPT !.current = v, !.revision = expected + 1]
    /\ issue_publication_revision(v)
    /\ IF due THEN complete_due_schedule(p) ELSE UNCHANGED schedule
    /\ UNCHANGED <<operation, publication>>

\* What both paths write.  A due publication clears the projected time.
Publish(p, v, expected, due) ==
    /\ publication' = [publication EXCEPT ![p] = [target |-> v, expected |-> expected,
                                                  revision |-> expected + 1]]
    /\ version' = [version EXCEPT ![v].state = "published",
                                  ![v].plan = IF due THEN NoPlan ELSE @]
    /\ doc' = [doc EXCEPT !.current = v, !.revision = expected + 1]
    /\ issue_publication_revision(v)
    /\ IF due THEN complete_due_schedule(p) ELSE UNCHANGED schedule
    /\ UNCHANGED operation

InitialPublishable(p, v, expected, due) ==
    /\ publication[p] = NoPublication
    /\ ensure_not_ended
    /\ doc.current = None
    /\ doc.revision = expected
    /\ IF due THEN validate_due_schedule(p, v, None, expected)
              ELSE reject_pending_schedule
    /\ Working(v)
    /\ due => version[v].content = schedule[p].content /\ version[v].plan = p

publish_initial_version(p, v, expected, due) ==
    /\ InitialPublishable(p, v, expected, due)
    /\ Publish(p, v, expected, due)

NextPublishable(p, v, expected, base, due) ==
    /\ publication[p] = NoPublication
    /\ ensure_not_ended
    /\ doc.revision = expected
    /\ doc.current = base
    /\ IF due THEN validate_due_schedule(p, v, base, expected)
              ELSE reject_pending_schedule
    /\ Published(base)
    /\ v > 1
    /\ Working(v)
    /\ version[v].plan = IF due THEN p ELSE NoPlan
    /\ version[v].base = base
    /\ due => version[v].content = schedule[p].content
    /\ ensure_semantic_change(base, version[v].content)

publish_next_version(p, v, expected, base, due) ==
    /\ NextPublishable(p, v, expected, base, due)
    /\ Publish(p, v, expected, due)

\* Mutant: the path follows from the current Version, not from the version number.
publish_document_ByCurrent(p, v, expected, due) ==
    IF doc.current = None
    THEN publish_initial_version(p, v, expected, due)
    ELSE publish_next_version(p, v, expected, doc.current, due)

\* The service chooses the path from the version number.
publish_document(p, v, expected, due) ==
    IF v = 1
    THEN publish_initial_version(p, v, expected, due)
    ELSE publish_next_version(p, v, expected, doc.current, due)

-----------------------------------------------------------------------------
(* Withdrawal and the end of publication.                                    *)

\* The schedules ps end; only the end of publication clears next_retry_at too.
Invalidate(ps, reason) ==
    schedule' = [p \in PublishIds |->
                    IF p \in ps
                    THEN [schedule[p] EXCEPT !.status = "terminal", !.reason = reason,
                                             !.waiting = @ /\ reason # "ended"]
                    ELSE schedule[p]]

\* The Versions the schedules ps were for lose their projected time.
Unplanned(ps) ==
    [v \in Versions |-> IF v \in {schedule[p].target : p \in ps}
                        THEN [version[v] EXCEPT !.plan = NoPlan]
                        ELSE version[v]]

\* Mutant: the schedules that have ended are affected too.
Affected_Ended(v) ==
    {p \in PublishIds : schedule[p].target = v \/ schedule[p].base = v}

Affected(v) == {p \in Pending : schedule[p].target = v \/ schedule[p].base = v}

\* Mutant: a withdrawn base is restored as well.
Fallback_Withdrawn(v, qualified) ==
    IF version[v].base # None /\ qualified THEN version[v].base ELSE None

\* The Version that replaces a withdrawn current Version: its base, if it is
\* published and its files qualify, before the transaction and inside it.
Fallback(v, qualified) ==
    IF version[v].base # None /\ qualified /\ Published(version[v].base)
    THEN version[v].base
    ELSE None

\* Mutant: the Document falls back although another Version is current.
withdraw_MovesCurrent(expected, v, qualified) ==
    /\ Fresh(expected)
    /\ Published(v)
    /\ LET fallback == Fallback(v, qualified)
       IN  /\ doc' = [doc EXCEPT !.current = fallback, !.revision = @ + 1]
           /\ IF doc.current = v /\ fallback # None
              THEN issue_withdraw_fallback_revision(fallback)
              ELSE UNCHANGED latest
    /\ version' = [Unplanned(Affected(v)) EXCEPT ![v].state = "withdrawn"]
    /\ Invalidate(Affected(v), "withdrawal")
    /\ Accept(expected, doc.revision + 1)
    /\ UNCHANGED publication

withdraw(expected, v, qualified) ==
    /\ Fresh(expected)
    /\ Published(v)
    /\ LET fallback == Fallback(v, qualified)
           current  == IF doc.current = v THEN fallback ELSE doc.current
       IN  /\ doc' = [doc EXCEPT !.current = current, !.revision = @ + 1]
           /\ IF doc.current = v /\ fallback # None
              THEN issue_withdraw_fallback_revision(fallback)
              ELSE UNCHANGED latest
    /\ version' = [Unplanned(Affected(v)) EXCEPT ![v].state = "withdrawn"]
    /\ Invalidate(Affected(v), "withdrawal")
    /\ Accept(expected, doc.revision + 1)
    /\ UNCHANGED publication

\* Mutant: the pending schedule survives the end of publication.
end_publication_KeepsSchedule(expected) ==
    /\ Fresh(expected)
    /\ ensure_not_ended
    /\ doc.current # None
    /\ Published(doc.current)
    /\ doc' = [revision |-> doc.revision + 1, current |-> None, ended |-> TRUE]
    /\ Accept(expected, doc.revision + 1)
    /\ UNCHANGED <<version, schedule, publication, latest>>

end_publication(expected) ==
    /\ Fresh(expected)
    /\ ensure_not_ended
    /\ doc.current # None
    /\ Published(doc.current)
    /\ doc' = [revision |-> doc.revision + 1, current |-> None, ended |-> TRUE]
    /\ version' = Unplanned(Pending)
    /\ Invalidate(Pending, "ended")
    /\ Accept(expected, doc.revision + 1)
    /\ UNCHANGED <<publication, latest>>

-----------------------------------------------------------------------------
(* Schedules.                                                                *)

\* Mutant: the reservation does not claim a revision of its own.
reserve_SameRevision(p, expected, v) ==
    /\ schedule[p].status = "none"
    /\ ensure_not_ended
    /\ publication[p] = NoPublication
    /\ doc.revision = expected
    /\ Working(v)
    /\ version[v].plan = NoPlan
    /\ version[v].base = doc.current
    /\ (v = 1) = (doc.current = None)
    /\ Pending = {}
    /\ doc.current # None =>
          Published(doc.current) /\ ensure_semantic_change(doc.current, version[v].content)
    /\ schedule' = [schedule EXCEPT ![p] =
                        [NoSchedule EXCEPT !.status = "pending", !.target = v,
                                           !.base = doc.current, !.accepted = expected,
                                           !.content = version[v].content]]
    /\ version' = [version EXCEPT ![v].plan = p]
    /\ UNCHANGED <<doc, publication, operation, latest>>

\* Mutant: the draft may have another base than the current Version.
reserve_AnyBase(p, expected, v) ==
    /\ schedule[p].status = "none"
    /\ ensure_not_ended
    /\ publication[p] = NoPublication
    /\ doc.revision = expected
    /\ Working(v)
    /\ version[v].plan = NoPlan
    /\ Pending = {}
    /\ doc.current # None =>
          Published(doc.current) /\ ensure_semantic_change(doc.current, version[v].content)
    /\ schedule' = [schedule EXCEPT ![p] =
                        [NoSchedule EXCEPT !.status = "pending", !.target = v,
                                           !.base = version[v].base, !.accepted = expected + 1,
                                           !.content = version[v].content]]
    /\ version' = [version EXCEPT ![v].plan = p]
    /\ Bump
    /\ UNCHANGED <<publication, operation, latest>>

reserve(p, expected, v) ==
    /\ schedule[p].status = "none"
    /\ ensure_not_ended
    /\ publication[p] = NoPublication
    /\ doc.revision = expected
    /\ Working(v)
    /\ version[v].plan = NoPlan
    /\ version[v].base = doc.current
    /\ (v = 1) = (doc.current = None)
    /\ Pending = {}
    /\ doc.current # None =>
          Published(doc.current) /\ ensure_semantic_change(doc.current, version[v].content)
    /\ schedule' = [schedule EXCEPT ![p] =
                        [NoSchedule EXCEPT !.status = "pending", !.target = v,
                                           !.base = doc.current, !.accepted = expected + 1,
                                           !.content = version[v].content]]
    /\ version' = [version EXCEPT ![v].plan = p]
    /\ Bump
    /\ UNCHANGED <<publication, operation, latest>>

cancel(expected, p) ==
    /\ Fresh(expected)
    /\ schedule[p].status = "pending"
    /\ schedule' = [schedule EXCEPT ![p].status = "cancelled"]
    /\ version' = [version EXCEPT ![schedule[p].target].plan = NoPlan]
    /\ Bump
    /\ Accept(expected, doc.revision + 1)
    /\ UNCHANGED <<publication, latest>>

\* The scheduler may only touch a schedule that is pending and due.
Closable(p) == schedule[p].status = "pending" /\ schedule[p].due

\* Of a schedule that already waits, the deadline is returned and kept.
Wait(p) ==
    /\ schedule' = [schedule EXCEPT ![p].waiting = TRUE]
    /\ UNCHANGED <<doc, version, publication, operation, latest>>

record_retry(p) == Closable(p) /\ Wait(p)

Terminate(p, reason) ==
    /\ schedule' = [schedule EXCEPT ![p].status = "terminal", ![p].reason = reason,
                                    ![p].waiting = FALSE, ![p].closed = doc.revision + 1]
    /\ version' = [version EXCEPT ![schedule[p].target].plan = NoPlan]
    /\ Bump
    /\ UNCHANGED <<publication, operation, latest>>

terminalize(p, reason) == Closable(p) /\ Terminate(p, reason)

\* scheduled_publish_at passes, and next_retry_at does.
DueArrives(p) ==
    /\ schedule[p].status = "pending"
    /\ ~ schedule[p].due
    /\ schedule' = [schedule EXCEPT ![p].due = TRUE]
    /\ UNCHANGED <<doc, version, publication, operation, latest>>

RetryArrives(p) ==
    /\ schedule[p].status = "pending"
    /\ schedule[p].waiting
    /\ schedule' = [schedule EXCEPT ![p].waiting = FALSE]
    /\ UNCHANGED <<doc, version, publication, operation, latest>>

-----------------------------------------------------------------------------
(* Management commands.  One that changes nothing is recorded, without a     *)
(* revision of its own.                                                      *)

execute_metadata_update(expected, changed) ==
    /\ Fresh(expected)
    /\ IF changed
       THEN Pending = {} /\ Bump /\ issue_metadata_revision
       ELSE UNCHANGED <<doc, latest>>
    /\ Accept(expected, IF changed THEN expected + 1 ELSE expected)
    /\ UNCHANGED <<version, schedule, publication>>

execute_document_move(expected, changed) ==
    /\ Fresh(expected)
    /\ IF changed THEN Pending = {} /\ Bump ELSE UNCHANGED doc
    /\ Accept(expected, IF changed THEN expected + 1 ELSE expected)
    /\ UNCHANGED <<version, schedule, publication, latest>>

-----------------------------------------------------------------------------

\* The reasons the scheduler gives (due_terminal_reason and the two of
\* execute_due_authorized).
Reasons == {"stale", "rule", "rejected", "authority"}

Command(expected) ==
    \/ \E c \in Contents : create_version(expected, c)
    \/ \E v \in Versions, c \in Contents : update_working(expected, v, c)
    \/ \E v \in Versions : rebase_working(expected, v)
    \/ \E v \in Versions, qualified \in BOOLEAN : withdraw(expected, v, qualified)
    \/ \E p \in PublishIds : cancel(expected, p)
    \/ end_publication(expected)
    \/ \E changed \in BOOLEAN : execute_metadata_update(expected, changed)
    \/ \E changed \in BOOLEAN : execute_document_move(expected, changed)

Next ==
    \/ \E expected \in 0 .. doc.revision : Command(expected)
    \/ \E p \in PublishIds, v \in Versions, expected \in 0 .. doc.revision :
          \/ reserve(p, expected, v)
          \/ \E due \in BOOLEAN : publish_document(p, v, expected, due)
    \/ \E p \in PublishIds :
          \/ record_retry(p)
          \/ \E reason \in Reasons : terminalize(p, reason)
          \/ DueArrives(p)
          \/ RetryArrives(p)

Spec == Init /\ [][Next]_vars

-----------------------------------------------------------------------------
(* Invariants.                                                               *)

\* Type correctness of the six tables.
TypeOK ==
    /\ doc \in Doc
    /\ version \in Seq(Version)
    /\ schedule \in [PublishIds -> Schedule]
    /\ publication \in [PublishIds -> Publication]
    /\ operation \in Seq(Operation)
    /\ latest \in [major : Nat, minor : Nat, version : Nat]

\* What readers are shown is sound: the current Version is published, it is the
\* Version of the latest Document Revision, and a Document whose publication
\* has ended has none, through every withdrawal, fallback and late publication.
CurrentIsSound ==
    /\ doc.current # None => Published(doc.current) /\ latest.version = doc.current
    /\ doc.ended => doc.current = None

\* At most one Version is a draft, and it is the newest: create_version is the
\* only way to a draft, and nothing turns another Version back into one.
WorkingIsNewest == \A v \in Versions : Working(v) => v = Len(version)

\* Every Version after the first is based on an older Version that was published
\* and differs from it, however often the draft was edited and rebased while
\* Versions were withdrawn under it.
VersionDiffersFromBase ==
    /\ version[1].base = None
    /\ \A v \in Versions \ {1} :
          /\ version[v].base \in 1 .. v - 1
          /\ version[version[v].base].state # "working"
          /\ version[version[v].base].content # version[v].content

\* The projected time of a Version and the pending schedule agree: at most one
\* schedule is pending, it is for a draft that is still what was reserved, its id
\* has not published, and the Document has not ended.
PendingIsProjected ==
    /\ \A p, q \in Pending : p = q
    /\ \A p \in PublishIds, v \in Versions :
          version[v].plan = p <=> p \in Pending /\ schedule[p].target = v
    /\ \A p \in Pending :
          /\ Working(schedule[p].target)
          /\ version[schedule[p].target].content = schedule[p].content
          /\ version[schedule[p].target].base = schedule[p].base
          /\ publication[p] = NoPublication
          /\ ~ doc.ended

\* Of all that the due publication checks, only the clock and the revision can
\* still refuse a pending schedule: its base is the current Version, is published
\* and differs from the draft.  A withdrawal of the base ends the schedule, and
\* one of another Version moves the revision and nothing the schedule needs.
PendingIsPublishable ==
    \A p \in Pending :
        LET s == schedule[p] IN
        /\ doc.current = s.base
        /\ doc.revision >= s.accepted
        /\ IF s.target = 1 THEN s.base = None
                           ELSE Published(s.base) /\ ensure_semantic_change(s.base, s.content)

\* A Version is published at most once, by one id, and a schedule that says it
\* was published is the publication of the reserved Version at the accepted
\* revision.
OnePublication ==
    /\ \A v \in Versions :
          ~ Working(v) <=> \E p \in PublishIds : publication[p].target = v
    /\ \A p, q \in PublishIds :
          publication[p].target = publication[q].target =>
              p = q \/ publication[p] = NoPublication
    /\ \A p \in PublishIds :
          schedule[p].status = "published" =>
              publication[p] = [target   |-> schedule[p].target,
                                expected |-> schedule[p].accepted,
                                revision |-> schedule[p].accepted + 1]

\* The commands that were answered with a new revision: those of the ledgers, the
\* reservations and the terminations by the scheduler.
Answers ==
    UNION {{<<"operation", o>> : o \in {o \in 1 .. Len(operation) :
                operation[o].revision = operation[o].expected + 1}},
           {<<"publication", p>> : p \in {p \in PublishIds : publication[p] # NoPublication}},
           {<<"reservation", p>> : p \in {p \in PublishIds : schedule[p].status # "none"}},
           {<<"termination", p>> : p \in {p \in PublishIds : schedule[p].closed # None}}}

Answered(a) ==
    IF a[1] = "operation" THEN operation[a[2]].revision
    ELSE IF a[1] = "publication" THEN publication[a[2]].revision
    ELSE IF a[1] = "reservation" THEN schedule[a[2]].accepted
    ELSE schedule[a[2]].closed

\* Optimistic concurrency: every revision up to the Document's was given to
\* exactly one accepted command, so two callers that saw the same revision
\* were never both accepted.
EveryRevisionOnce ==
    /\ \A r \in 1 .. doc.revision : \E a \in Answers : Answered(a) = r
    /\ \A a \in Answers : Answered(a) \in 1 .. doc.revision
    /\ \A a, b \in Answers : Answered(a) = Answered(b) => a = b
    /\ \A p \in PublishIds : publication[p] # NoPublication =>
          publication[p].revision = publication[p].expected + 1

-----------------------------------------------------------------------------
(* Action properties.                                                        *)

\* A published Version never changes: its manifest and its base stay, and it can
\* only be withdrawn; a withdrawn one stays withdrawn.  A draft keeps its content
\* for as long as a schedule for it is pending.
PublishedIsFrozen ==
    [][\A v \in Versions :
          LET old == version[v] new == version'[v] IN
          /\ old.state # "working" =>
                /\ new.content = old.content /\ new.base = old.base
                /\ new.state \in {old.state, "withdrawn"}
          /\ old.plan # NoPlan => new.content = old.content]_vars

\* A Document that was published and has no current Version never has one again,
\* whether its Versions were withdrawn or its publication ended: a draft on a
\* withdrawn base can be neither rebased nor published.
NoCurrentIsForever ==
    [][doc.current = None /\ has_publication_history => doc'.current = None]_vars

\* A schedule that has ended keeps its end, and a publication its record, so that
\* a replay of the id is answered as the first call was.
EndsAreFinal ==
    [][\A p \in PublishIds :
          /\ schedule[p].status \notin {"none", "pending"} =>
                schedule'[p].status = schedule[p].status
          /\ publication[p] # NoPublication => publication'[p] = publication[p]]_vars

=============================================================================

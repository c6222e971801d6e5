------------------------ MODULE DocumentPublication ------------------------
(***************************************************************************)
(* The publication scheduler on top of DocumentStore: executors that poll   *)
(* for due schedules and run execute_due_authorized, beside the callers of  *)
(* the other commands.                                                     *)
(*                                                                         *)
(* An executor's reads are steps of their own: what it read may be stale    *)
(* when it acts.  Its transactions take the lock of the documents row in    *)
(* one step, check under it, and commit in another; between the two every   *)
(* other transaction of the Document waits while reads see the old state.   *)
(* An executor that crashes, or loses its connection while it commits,      *)
(* leaves the transaction behind: it commits or rolls back later, and only  *)
(* then is the lock free.                                                  *)
(*                                                                         *)
(* What the inspection and the identity service answer is left open, and    *)
(* every failure of a dependency may happen at any step, MaxFaults times.   *)
(***************************************************************************)
EXTENDS Integers, Sequences, FiniteSets

CONSTANTS
    Contents, PublishIds, MaxVersions, MaxOperations, \* see DocumentStore
    Executors,      \* scheduler processes
    MaxFaults       \* bound on failed calls, lost connections and crashes

ASSUME PublicationAssumption == MaxFaults \in Nat

VARIABLES
    doc, version, schedule, publication, operation, latest, \* DocumentStore
    granted,        \* whether the requester may publish the Document
    exec,           \* [Executors -> Exec]
    lock,           \* who holds the documents row, and what it will commit
    faults          \* failures so far

Store == INSTANCE DocumentStore

db == <<doc, version, schedule, publication, operation, latest>>
vars == <<doc, version, schedule, publication, operation, latest, granted, exec,
          lock, faults>>

None == Store!None

NoId == "no id"

\* pc: the call an executor is about to make.  pending: the status get_schedule
\* returned; allow: whether it may execute or only replay; base: the current
\* Version the preflight saw; err: the failure being handled, or the reason to
\* end the schedule with; out: its last answer.
Exec == [pc      : {"idle", "schedule", "due", "authorize", "replay", "due_again",
                    "reread", "ledger", "target", "current", "publish", "failed",
                    "recheck", "retry", "terminate", "commit"},
         p       : PublishIds \union {NoId},
         pending : BOOLEAN,
         allow   : BOOLEAN,
         base    : Nat,
         err     : {"none", "transient"} \union Store!Reasons,
         out     : {"none", "published", "inactive", "not_due", "retry", "terminal",
                    "error"}]

Idle == [pc |-> "idle", p |-> NoId, pending |-> FALSE, allow |-> FALSE,
         base |-> None, err |-> "none", out |-> "none"]

\* "lost": the transaction of an executor that is no longer connected.
Lock == [holder : Executors \union {"free", "lost"},
         op     : {"none", "publish", "retry", "terminate"},
         p      : PublishIds \union {NoId},
         reason : {"none"} \union Store!Reasons]

Free == [holder |-> "free", op |-> "none", p |-> NoId, reason |-> "none"]

Init ==
    /\ Store!Init
    /\ granted = TRUE
    /\ exec = [x \in Executors |-> Idle]
    /\ lock = Free
    /\ faults = 0

-----------------------------------------------------------------------------

Goto(x, pc) == exec' = [exec EXCEPT ![x].pc = pc]

Answer(x, out) == exec' = [exec EXCEPT ![x] = [Idle EXCEPT !.p = exec[x].p, !.out = out]]

\* The publish call failed; execute_due_from_schedule handles the error.
Fail(x, err) == exec' = [exec EXCEPT ![x].pc = "failed", ![x].err = err]

End(x, reason) == exec' = [exec EXCEPT ![x].pc = "terminate", ![x].err = reason]

Due(p) ==
    /\ schedule[p].status = "pending"
    /\ schedule[p].due
    /\ ~ schedule[p].waiting

\* The id has published, and what it published is what the schedule asked for.
Recorded(p) == publication[p] # Store!NoPublication

Matches(p) ==
    /\ publication[p].target = schedule[p].target
    /\ publication[p].expected = schedule[p].accepted

AnswerRecorded(x) == Answer(x, IF Matches(exec[x].p) THEN "published" ELSE "error")

Reading == UNCHANGED <<db, granted, lock, faults>>

-----------------------------------------------------------------------------
(* execute_due_authorized, up to the publish call.                           *)

poll_once(x) ==
    /\ exec[x].pc = "idle"
    /\ \E p \in PublishIds :
          /\ Due(p)
          /\ exec' = [exec EXCEPT ![x] = [Idle EXCEPT !.pc = "schedule", !.p = p]]
    /\ Reading

get_schedule(x) ==
    LET pending == schedule[exec[x].p].status = "pending" IN
    /\ exec[x].pc = "schedule"
    /\ exec' = [exec EXCEPT ![x].pending = pending,
                            ![x].pc = IF pending THEN "due" ELSE "replay"]
    /\ Reading

is_due(x) ==
    /\ exec[x].pc = "due"
    /\ Goto(x, IF Due(exec[x].p) THEN "authorize" ELSE "replay")
    /\ Reading

\* The identity is current and may publish, or it is not, or may not.
authorize(x) ==
    /\ exec[x].pc = "authorize"
    /\ \/ granted /\ exec' = [exec EXCEPT ![x].pc = "replay", ![x].allow = TRUE]
       \/ End(x, "authority")
    /\ Reading

\* With a verified actor the ledger answers only who may publish.
replay(x) ==
    LET e == exec[x] IN
    /\ e.pc = "replay"
    /\ IF Recorded(e.p)
       THEN IF e.allow /\ ~ granted THEN End(x, "authority") ELSE AnswerRecorded(x)
       ELSE IF ~ e.pending THEN Answer(x, "inactive")
       ELSE Goto(x, IF e.allow THEN "due_again" ELSE "reread")
    /\ Reading

is_due_again(x) ==
    /\ exec[x].pc = "due_again"
    /\ Goto(x, IF Due(exec[x].p) THEN "ledger" ELSE "reread")
    /\ Reading

reread(x) ==
    LET e == exec[x] IN
    /\ e.pc = "reread"
    /\ IF Recorded(e.p)
       THEN IF e.allow /\ ~ granted THEN End(x, "authority") ELSE AnswerRecorded(x)
       ELSE Answer(x, "not_due")
    /\ Reading

-----------------------------------------------------------------------------
(* publish_document_mode for a due schedule: the ledger, the preflight on the *)
(* target and on the current Version, and the transaction.                    *)

ledger(x) ==
    LET p == exec[x].p IN
    /\ exec[x].pc = "ledger"
    /\ IF ~ Recorded(p) THEN Goto(x, "target")
       ELSE IF granted /\ Matches(p) THEN Answer(x, "published")
       ELSE Fail(x, "rejected")
    /\ Reading

\* The files may pass the inspection and the quality checks, or be rejected.
target(x) ==
    LET s == schedule[exec[x].p] IN
    /\ exec[x].pc = "target"
    /\ \/ Fail(x, IF ~ granted THEN "rejected"
                  ELSE IF doc.revision # s.accepted THEN "stale"
                  ELSE IF ~ Store!Working(s.target) THEN "rule"
                  ELSE IF s.target = 1 /\ doc.current # None THEN "stale"
                  ELSE "rejected")
       \/ /\ granted /\ doc.revision = s.accepted /\ Store!Working(s.target)
          /\ s.target = 1 => doc.current = None
          /\ Goto(x, IF s.target = 1 THEN "publish" ELSE "current")
    /\ Reading

current(x) ==
    LET s == schedule[exec[x].p]
        differs == Store!ensure_semantic_change(doc.current, version[s.target].content)
    IN
    /\ exec[x].pc = "current"
    /\ \/ Fail(x, IF ~ granted THEN "rejected"
                  ELSE IF doc.revision # s.accepted THEN "stale"
                  ELSE IF ~ Store!Published(doc.current) THEN "rule"
                  ELSE IF version[s.target].base # doc.current THEN "stale"
                  ELSE IF ~ differs THEN "rule"
                  ELSE "rejected")
       \/ /\ granted /\ doc.revision = s.accepted /\ Store!Published(doc.current)
          /\ version[s.target].base = doc.current
          /\ differs
          /\ exec' = [exec EXCEPT ![x].pc = "publish", ![x].base = doc.current]
    /\ Reading

\* The transaction takes the lock and will commit.
Hold(x, op, reason) ==
    /\ lock' = [holder |-> x, op |-> op, p |-> exec[x].p, reason |-> reason]
    /\ Goto(x, "commit")

\* Mutant: the transaction looks at the target and not at the schedule again.
Accepts_AnySchedule(x) ==
    /\ Store!Working(schedule[exec[x].p].target)
    /\ doc.current = exec[x].base

\* All that publish_initial_version and publish_next_version check.
Accepts(x) ==
    LET p == exec[x].p s == schedule[p] IN
    IF s.target = 1
    THEN Store!InitialPublishable(p, s.target, s.accepted, TRUE)
    ELSE Store!NextPublishable(p, s.target, s.accepted, exec[x].base, TRUE)

\* Conflict: the Document or the schedule is no longer what the executor read.
\* The checks after these two never fail for a due schedule (PendingIsPublishable).
StaleIntent(x) ==
    LET p == exec[x].p s == schedule[p] IN
    \/ doc.revision # s.accepted \/ doc.current # exec[x].base
    \/ ~ Store!validate_due_schedule(p, s.target, exec[x].base, s.accepted)

\* Mutant: the transaction relies on the authorization made before it.
publish_Unauthorized(x) ==
    /\ exec[x].pc = "publish"
    /\ lock = Free
    /\ ~ Recorded(exec[x].p) /\ Accepts(x)
    /\ Hold(x, "publish", "none")
    /\ UNCHANGED <<db, granted, faults>>

publish(x) ==
    LET p == exec[x].p IN
    /\ exec[x].pc = "publish"
    /\ lock = Free
    /\ IF ~ granted THEN Fail(x, "rejected") /\ UNCHANGED lock
       ELSE IF Recorded(p)
       THEN /\ IF Matches(p) THEN Answer(x, "published") ELSE Fail(x, "stale")
            /\ UNCHANGED lock
       ELSE IF Accepts(x) THEN Hold(x, "publish", "none")
       ELSE /\ Fail(x, IF ~ doc.ended /\ StaleIntent(x) THEN "stale" ELSE "rule")
            /\ UNCHANGED lock
    /\ UNCHANGED <<db, granted, faults>>

-----------------------------------------------------------------------------
(* The failure of the publish call.                                          *)

reauthorize(x) ==
    /\ exec[x].pc = "failed"
    /\ IF granted THEN Goto(x, "recheck") ELSE End(x, "authority")
    /\ Reading

\* Mutant: every failure of the publication counts as transient.
recheck_AlwaysRetry(x) ==
    LET e == exec[x] IN
    /\ e.pc = "recheck"
    /\ IF Recorded(e.p)
       THEN IF granted THEN AnswerRecorded(x) ELSE End(x, "authority")
       ELSE Goto(x, "retry")
    /\ Reading

recheck(x) ==
    LET e == exec[x] IN
    /\ e.pc = "recheck"
    /\ IF Recorded(e.p)
       THEN IF granted THEN AnswerRecorded(x) ELSE End(x, "authority")
       ELSE Goto(x, IF e.err = "transient" THEN "retry" ELSE "terminate")
    /\ Reading

\* record_retry and terminalize: of a schedule that is no longer pending the
\* executor answers that it is inactive.
close(x) ==
    /\ exec[x].pc \in {"retry", "terminate"}
    /\ lock = Free
    /\ IF Store!Closable(exec[x].p)
       THEN IF exec[x].pc = "retry" THEN Hold(x, "retry", "none")
                                    ELSE Hold(x, "terminate", exec[x].err)
       ELSE Answer(x, "inactive") /\ UNCHANGED lock
    /\ UNCHANGED <<db, granted, faults>>

-----------------------------------------------------------------------------
(* Commits, failures and the rest of the system.                             *)

\* What the transaction that holds the lock writes.
Apply ==
    LET s == schedule[lock.p] IN
    \/ lock.op = "publish" /\ Store!Publish(lock.p, s.target, s.accepted, TRUE)
    \/ lock.op = "retry" /\ Store!Wait(lock.p)
    \/ lock.op = "terminate" /\ Store!Terminate(lock.p, lock.reason)

commit(x) ==
    /\ lock.holder = x
    /\ Apply
    /\ lock' = Free
    /\ Answer(x, CASE lock.op = "publish" -> "published"
                   [] lock.op = "retry" -> "retry"
                   [] lock.op = "terminate" -> "terminal")
    /\ UNCHANGED <<granted, faults>>

\* Mutant: a commit that was not answered counts as done.
CommitUnknown_Published(x) ==
    /\ faults < MaxFaults /\ faults' = faults + 1
    /\ lock.holder = x
    /\ lock' = [lock EXCEPT !.holder = "lost"]
    /\ Answer(x, IF lock.op = "publish" THEN "published" ELSE "error")
    /\ UNCHANGED <<db, granted>>

\* The connection is lost while the transaction commits (map_commit_error).
CommitUnknown(x) ==
    /\ faults < MaxFaults /\ faults' = faults + 1
    /\ lock.holder = x
    /\ lock' = [lock EXCEPT !.holder = "lost"]
    /\ IF lock.op = "publish" THEN Fail(x, "transient") ELSE Answer(x, "error")
    /\ UNCHANGED <<db, granted>>

Resolve ==
    /\ lock.holder = "lost"
    /\ Apply \/ UNCHANGED db
    /\ lock' = Free
    /\ UNCHANGED <<granted, exec, faults>>

\* A call fails.  Within the publish call that is a transient failure of the
\* publication, and so is an identity service that does not answer; anywhere
\* else the poll is given up.
CallFails(x) ==
    /\ faults < MaxFaults /\ faults' = faults + 1
    /\ \/ /\ exec[x].pc \in {"ledger", "target", "current", "publish"}
          /\ Fail(x, "transient")
       \/ exec[x].pc = "authorize" /\ Goto(x, "retry")
       \/ /\ exec[x].pc \in {"schedule", "due", "authorize", "replay", "due_again", "reread",
                             "failed", "recheck", "retry", "terminate"}
          /\ Answer(x, "error")
    /\ UNCHANGED <<db, granted, lock>>

\* Mutant: the transaction of a crashed executor keeps the lock for ever.
Crash_KeepsLock(x) ==
    /\ faults < MaxFaults /\ faults' = faults + 1
    /\ exec[x].pc # "idle"
    /\ exec' = [exec EXCEPT ![x] = Idle]
    /\ UNCHANGED <<db, granted, lock>>

Crash(x) ==
    /\ faults < MaxFaults /\ faults' = faults + 1
    /\ exec[x].pc # "idle"
    /\ exec' = [exec EXCEPT ![x] = Idle]
    /\ lock' = IF lock.holder = x THEN [lock EXCEPT !.holder = "lost"] ELSE lock
    /\ UNCHANGED <<db, granted>>

\* The other transactions of the Document wait for the lock too.
Others ==
    /\ lock = Free
    /\ \E expected \in 0 .. doc.revision :
          \/ Store!Command(expected)
          \/ \E p \in PublishIds, v \in Store!Versions :
                Store!reserve(p, expected, v) \/ Store!publish_document(p, v, expected, FALSE)
    /\ UNCHANGED <<granted, exec, lock, faults>>

Time ==
    /\ \E p \in PublishIds : Store!DueArrives(p) \/ Store!RetryArrives(p)
    /\ UNCHANGED <<granted, exec, lock, faults>>

\* A change of policy excludes the transactions that were checked against it.
PolicyChanges ==
    /\ lock.op # "publish"
    /\ granted' = ~ granted
    /\ UNCHANGED <<db, exec, lock, faults>>

execute_due(x) ==
    \/ get_schedule(x) \/ is_due(x) \/ authorize(x) \/ replay(x)
    \/ is_due_again(x) \/ reread(x) \/ ledger(x) \/ target(x) \/ current(x) \/ publish(x)
    \/ reauthorize(x) \/ recheck(x) \/ close(x) \/ commit(x)

Next ==
    \/ \E x \in Executors :
          poll_once(x) \/ execute_due(x) \/ CommitUnknown(x) \/ CallFails(x) \/ Crash(x)
    \/ Resolve
    \/ Others
    \/ Time
    \/ PolicyChanges

Safety == Init /\ [][Next]_vars

(***************************************************************************)
(* The executors poll and run (run_until_shutdown never stops on an error), *)
(* the database resolves a transaction whose connection is gone, and time   *)
(* passes.  Nothing is assumed of the callers, the policy or the faults.    *)
(***************************************************************************)
Fairness ==
    /\ \A x \in Executors : WF_vars(poll_once(x)) /\ WF_vars(execute_due(x))
    /\ WF_vars(Resolve)
    /\ WF_vars(Time)

Spec == Safety /\ Fairness

-----------------------------------------------------------------------------

\* Type correctness; the lock is held by an executor that is about to commit.
TypeOK ==
    /\ Store!TypeOK
    /\ granted \in BOOLEAN
    /\ exec \in [Executors -> Exec]
    /\ lock \in Lock
    /\ faults \in 0 .. MaxFaults
    /\ \A x \in Executors : lock.holder = x <=> exec[x].pc = "commit"

\* The scheduler keeps the promises of DocumentStore: what its transactions checked
\* when they took the lock still holds when they commit, late or by another
\* connection, although everything before the lock was read from older states.
StoreSpec == Store!Spec

\* What an executor answered is so and stays so: a published schedule is in the
\* ledger as reserved, a terminal one is terminal, an inactive one has ended, after
\* lost commits, late commits, crashes and races with the other executors.
AnswersHold ==
    \A x \in Executors :
        LET e == exec[x] IN
        /\ e.out = "published" => Recorded(e.p) /\ Matches(e.p)
        /\ e.out = "terminal" => schedule[e.p].status = "terminal"
        /\ e.out = "inactive" => schedule[e.p].status \notin {"none", "pending"}

\* A scheduled publication takes effect only while its requester may publish,
\* even if the policy changed after the executor authorized it.
PublishedWhileGranted ==
    [][\A p \in PublishIds :
          schedule[p].status = "pending" /\ schedule'[p].status = "published" => granted]_vars

\* A schedule that is due does not stay pending: it is published, cancelled or
\* ended, once the dependencies stop failing.
DueScheduleEnds ==
    \A p \in PublishIds :
        schedule[p].status = "pending" /\ schedule[p].due ~> schedule[p].status # "pending"

\* "A transient infrastructure failure keeps the same schedule/Publish ID pending":
\* a schedule is ended as stale only when the Document moved past the revision
\* it was accepted at.
TransientKeepsPending ==
    \A p \in PublishIds :
        schedule[p].reason = "stale" => schedule[p].closed > schedule[p].accepted + 1

=============================================================================

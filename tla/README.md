# Verification of the knowledge platform

TLA+ specifications of the parts of this repository whose correctness depends on
the order in which processes, transactions and failures meet, the TLC models that
check them on small instances, and TLAPS proofs of the most important results.
`PROJECT.json` lists every component, run, theorem and hazard, and maps each
definition to the lines it models.

## 1. The system

A set of Rust services around PostgreSQL.

| part | state | operations that change it |
| --- | --- | --- |
| outbox store (`outbox-delivery/src/postgres.rs`) | delivery columns of `outbox_events`, `outbox_delivery_policy` | `claim`, `renew`, `settle_success`, `settle_failure`, `reap_exhausted`; policy rollouts by an operator |
| outbox runner (`outbox-delivery/src/runner.rs`) | polling loop, one task per claim, the flags `cancel` and `incomplete_io`, the summaries | `run_cycle`, `run_until_shutdown`, `process_claim` |
| document store (`document-repository-postgres`, `document-domain`) | Document row, Versions, schedules, ledgers, Document Revisions | create, update and rebase a draft, publish, schedule, cancel, withdraw, end of publication, metadata update, move |
| publication scheduler (`document-publication-scheduler`, `document-application`) | one poll loop per process | `poll_once`, `execute_due_authorized`, `record_retry`, `terminalize` |
| audit relay and audit store | circuit breaker, delivery ledger, reconciliation, append-only audit chain | delivery of audit events through the outbox runner, probes, replay |
| search runtime | source leases, registrations, generations, pins, full guards | acquire/renew/release, reconcile, register, ready, pin, collect |
| work items | work rows with a revision | lifecycle commands |
| folders and access policies | folder tree, access revision | create, move, archive; policy changes |
| local workspace runtime | registry of local workspaces | register, locate |
| HTTP servers, applications, parsers, indexes | none shared | request handling and data transformation |

How they interact: every document transaction inserts outbox rows; the outbox
runner delivers them to a handler (search indexing, audit relay) under a permit
(a source lease, a breaker permit); the scheduler publishes what users reserved,
competing with their later commands on the row lock of the Document.

The behaviours that are hard to test: a worker that acts after its lease was
taken over; a clock sample that is older than the row lock it waited for; a
policy rollout between two claims; a shutdown whose deadline passes in the middle
of a settlement; a commit whose answer is lost; two schedulers on one schedule; a
permission revoked between check and use; withdrawals that reorder what is
current. What correctness means here: a claim is fenced and its attempts are
counted; an end is final and is the one the handler decided; a summary is true;
every event ends; what readers see is published; every revision is given to one
command; a publication happens once and only while it is permitted; a due
schedule does not stay pending.

## 2. Modules

| module | models | actions |
| --- | --- | --- |
| `OutboxStore` | the delivery columns and the statements on them | one per statement, `Tick`, `Rollout`, `Redeploy` |
| `OutboxStoreProofs` | proofs about `OutboxStore` | |
| `OutboxRunner` | one runner process in detail over an `INSTANCE` of `OutboxStore`, beside other workers | one per step of the loop and of a task, deadlines, crash, late statements |
| `DocumentStore` | one Document with all its transactions | one per transaction |
| `DocumentPublication` | scheduler processes over an `INSTANCE` of `DocumentStore` | one per call of `execute_due_authorized`, commits, failures, crash |
| `MC*` | the constants and symmetry of the models | |

### OutboxStore

`row[e]` holds the delivery columns, `hist[e]` the claims ever granted (an
auxiliary record: attempt number and what became of the claim), `policy` the
policy row and `expected[w]` the policy a worker is deployed with. A lease token
is the position of its claim in `hist[e]`: tokens are random UUIDs that never
repeat and are compared only within their row. `Null` is 0.

A statement samples `clock_timestamp()` once and may wait for its row lock
afterwards, so each action takes a `lag` in `0 .. MaxLag` and compares deadlines
with a time that old. Deadlines are stored relative to now and saturate at
`-MaxLag`, below which no statement can tell them apart.

Callers are the most general ones: whoever was ever given a claim may renew or
settle it at any time and any number of times. Late, repeated and lost calls
therefore need no actions of their own. `claim` and `reap_exhausted` take any
subset of the eligible rows up to the batch size: `SKIP LOCKED` can leave out any
row. `guard_policy` refuses the statement when the policy differs or a legacy row
without a pinned limit is exhausted. `trace_context` and `queue_snapshot` only
read and are left out. `wait` and `left` abstract timestamps; the retry delay is
any member of `Backoffs`.

`settle_failure` stores the code its caller passes, any member of `ErrorCodes`.
That set contains the reaper's own code (`"unknown_at_limit"`, the code
`DeliveryUnknownAtLimit`), because `ErrorCode::ALL` does and nothing keeps a
handler from reporting it. The error column therefore does not tell which
statement ended a row; the properties about the reaper read that from `hist`.
`Reapable` also accepts a row without a lease, as the statement does. No row
written by the modelled statements is open, pinned, exhausted and unleased: that
branch matters only for rows changed by hand, which the reaper's tests insert and
the runs do not start from.

### OutboxRunner

`run` is the polling loop (`pc` is the operation it is at), `task[e]` the task of
a claim. A store call is sent, executed and answered in three steps; a task that
times out, is aborted or crashes leaves its unanswered call in `orphans`, where it
may still be executed. The accesses to `cancel` and `incomplete_io` are separate
steps (`PublishIo`, the gate in `SendRenew` and `SendSettle`, `CancelTask`,
`ReadIo`), because the argument in the comment of `runner.rs` rests on their
order. `decided` and `said` record what handlers returned and what summaries
reported.

The permit is the most general `ClaimPermit`: each call may find it `Updated` or
`Lost`, which covers the source lease and the breaker permit. The other workers
are the most general ones as well, restricted by `OtherOps`. The policy is fixed
in this instance, so `PolicyMismatch`, `LegacyExhausted` and `InvalidConfig`,
which end `run_until_shutdown`, cannot arise; `OutboxStore` covers rollouts.
Observers and metrics are left out. Slots of the semaphore are owned by the tasks;
the batch size plays their part.

### DocumentStore

One action per transaction. Each transaction locks the `documents` row first and
reads the rest under that lock, so it is atomic. A command carries the revision
its caller saw (`expected`, any value up to the current one). A command that is
refused, or whose id is in its ledger, changes nothing and needs no action. Ids of
commands other than publications are positions in the ledger. The manifest of a
Version is a member of `Contents`; two manifests are compared for identity only.
`due` and `waiting` stand for `scheduled_publish_at <= now()` and
`next_retry_at > now()`; they change by `DueArrives` and `RetryArrives`. A publish
id may be used again by a manual publication after a schedule with that id ended,
as the code allows. Metadata, folders, actors, outbox rows and files are left out;
metadata updates and moves on a Document whose publication ended need further
permissions and are otherwise the same.

### DocumentPublication

An executor's reads are steps of their own, so what it read may be stale when it
acts. A transaction takes the row lock and checks in one step and commits in
another; a crash or a lost connection in between leaves the transaction to
`Resolve`, which commits or rolls back and only then frees the lock. `granted` is
the requester's permission. The transaction holds the access policy under a shared
lock until it commits, so the permission check and the row lock are one step and a
policy change waits for it. Up to 100 due ids are listed by one poll; an executor
here picks one id while it is due and executes it arbitrarily later, which covers
any position in the list. `poll_once` returns at the first id whose execution
fails and leaves the rest of the list to a later poll; with one id per poll that
abort is not visible, so how long one failing id can hold back the others is not
covered. The digests that the preflight carries into the
transaction are not modelled, because the transaction checks again the revision at
which they were read. The inspection and the identity service may answer anything.
In PostgreSQL `now()` is the start of the transaction; a wait that expires while
the transaction queues for the lock may therefore still refuse it. That case is
not modelled separately; it ends like the one where the wait has not expired.

`StoreSpec` is the refinement: the abstract specification is `DocumentStore!Spec`,
the detailed one is the scheduler with its stale reads, late commits and crashes,
and the mapping is the identity on the six tables.

## 3. Runs

| run | instance | what it shows |
| --- | --- | --- |
| `store` | 2 events, 2 workers, limits {1, 3}, legacy attempts {0, 1}, lease 2, lag 1, policy revisions up to 3 | fencing, counting and bounding of attempts, finality of ends, pinned limits and the hold on legacy rows |
| `runner` | 1 event, 2 attempts, another worker with all statements, 1 stop | true summaries and decisions for a claim that is taken over, retried, or interrupted |
| `drain` | 2 events in one cycle, 1 stop | the drain deadline against two tasks in any state |
| `liveness` | 1 event, 2 attempts, another worker that claims and disappears, 1 stop, a store that answers | every event ends |
| `shutdown` | the same with a store that may never answer | a shutdown returns |
| `document` | 3 contents, 3 Versions, 2 publish ids, 4 other commands | the invariants of the document tables |
| `schedules` | 2 contents, 3 Versions, 3 publish ids, 3 other commands | a pending schedule keeps its base while older Versions are withdrawn |
| `publication` | 2 schedulers, 1 Version, 1 id, 1 command, 2 faults | refinement, answers and permission with two executors |
| `republication` | 1 scheduler, 2 Versions, 2 ids, 2 commands, 1 fault | the same for the next-version path |
| `due_liveness` | 2 schedulers, 1 fault, 1 command | a due schedule does not stay pending |
| `transient` | 2 schedulers, 1 Version, 1 fault, no other command | a violation, see below |

Why the bounds are enough for the cases they are meant to reach: a takeover, a
retry and a reap of the same event need a limit of at least 2, which `runner` and
`store` have; limits {1, 3} let a rollout lower and raise the maximum across a
pinned limit; lag 1 with lease 2 lets a statement see a lease that has run out as
live and the reverse. Three contents and three Versions are the least with which a
draft can be rebased onto a fallback it equals; four commands allow a withdrawal,
an end of publication and two more around them. A schedule for a third Version,
with both earlier ones published, needs a third publish id; `schedules` has it, so
that a Version which is neither target nor base of the pending schedule can be
withdrawn. Two faults let a retry fail as well. `store`, `runner` and `drain` have
two error codes, a handler's and the reaper's; the liveness runs have one, since
their properties do not look at the code. `document` and `schedules` end when
their bounds are used up, so they are the runs without deadlock checking.

### The divergence shown by `transient`

`docs/superpowers/specs/2026-09-27-document-versioning-v0-design.md:133`: "A
transient infrastructure failure keeps the same schedule/Publish ID pending for
bounded backoff and visible retry, without a Document revision change." Two
schedulers execute the same due id. The first fails transiently and `record_retry`
sets `next_retry_at`. The second, already past `is_due`, enters the publish
transaction, where `validate_due_schedule` finds `next_retry_at > now`
(`publish.rs:708`) and answers `Conflict`. `due_failure_is_transient` does not
count a conflict, so the second scheduler ends the schedule with
`stale_publication_intent` and raises the Document's revision, although the
Document never moved. It takes two scheduler processes; one alone cannot get
there.

## 4. Fairness

`OutboxRunner`: the async executor polls tasks that are ready and timers fire
(weak fairness of the steps of loop and tasks, of deadlines and of time). The
processing budget is one absolute deadline, so a handler loop that keeps returning
to its `select` notices it (strong fairness of `HandlerOutOfTime`). For
`EveryEventEnds` the store answers the operations of the loop again and again and
does not pass over one row for ever: row locks last for one statement and rows are
taken oldest first (strong fairness). Nothing is assumed of handlers, of the calls
of tasks or of other workers. `ShutdownReturns` drops the assumption on the store.

`DocumentPublication`: schedulers keep polling and running (`run_until_shutdown`
does not stop on an error), the database ends the transaction of a lost
connection, and time passes. Faults are bounded by `MaxFaults`; nothing is assumed
of callers or of the policy.

## 5. Proofs

`OutboxStoreProofs` proves, for every set of events and workers, every set of
limits, backoffs and error codes, lease, batch size, lag and number of rollouts
allowed by `StoreAssumption`:

| theorem | statement |
| --- | --- |
| `Inductive` | `Spec => []IInv` |
| `TypeCorrect` | `Spec => []TypeOK` |
| `OneEnd` | `Spec => []NewestClaimEnds` |
| `Budget` | `Spec => [](AttemptsCountClaims /\ AttemptBudget)` |
| `LeaseAndReap` | `Spec => [](LeaseOnNewestClaim /\ ExhaustedIsUnknown)` |
| `EndStays` | `Spec => EndIsFinal` |
| `LimitStays` | `Spec => LimitIsPinned` |
| `LegacyStops` | `Spec => LegacyHoldsDelivery` |

The invariants are not inductive one by one. That only the newest claim ends an
event needs that a token in the row is the newest claim (else a settlement with
the token of the row would end an older one); that needs that a claim always
appends to the history of an open row; that the reaper ends only events whose last
result is unknown needs that the last claim of an open row without attempts left
has no result, which holds because a failed last attempt is dead-lettered at once,
whatever code it reports.
`RowInv(r, h)` collects these facts for one row and its history, and `IInv` states
it for every event. The lemmas show that what a statement does to one row keeps
`RowInv`; `PointwiseIInv` and `OneRowStep` lift that to the tables, and `NextIInv`
goes through the actions. `EndStays`, `LimitStays` and `LegacyStops` are action
properties and follow from `IInv` and the guards; the last one because
`guard_policy` refuses claims and reaps, and a settlement changes only the result
of the newest claim, never to "reaped".

Only model-checked: everything about `OutboxRunner`,
`DocumentStore` and `DocumentPublication`, and all liveness (temporal reasoning
under fairness is out of the prover's reach).

## 6. Plan

1. `SourceLease`: the lease and registration tables with the admission gate: the
   fence never goes back, a permit from before a reconcile never validates; and
   `DeliveryPolicy`: the bounds of `retry_delay`.
2. `AuditRelay`: the breaker, the delivery ledger and the handler as the permit and
   handler of `OutboxRunner`; then reconciliation and the audit store's idempotent
   acceptance.
3. `SearchGenerations`: registration, readiness, pins and garbage collection: what
   is pinned or current is never collected.
4. Document creation with its stored files; the folder tree; work items.
5. Proofs: the invariants of `DocumentStore` from one inductive invariant, the
   refinement step of `DocumentPublication`, the safety of the fence in
   `SourceLease`.

## 7. Not modelled

Parsers and inspection workers, text extraction, indexes, ranking and diffs are
sequential computations over large data. HTTP servers, web, desktop and MCP
applications decode requests and format answers and hold no shared state. Queries
change nothing. The parts named in the plan are listed in `PROJECT.json` with what
is missing.

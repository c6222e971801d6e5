---------------------------- MODULE OutboxRunner ----------------------------
(***************************************************************************)
(* DeliveryRunner: one process that polls the outbox, claims rows, runs the *)
(* handler of each claim in a task of its own and settles it, on top of     *)
(* OutboxStore and beside any number of other workers of the same table.    *)
(*                                                                         *)
(* A store call is sent, executed by the database, and answered, in steps   *)
(* of their own.  A task that times out, is aborted or crashes leaves its   *)
(* unanswered call in orphans: it may still be executed, later, or never.   *)
(* An abandoned claim or reap of the process itself is one more statement   *)
(* of another worker.  A task and the cycle that spawned it run on          *)
(* different threads and share two flags, cancel and incomplete_io (io);    *)
(* each access to a flag the other side may be using is a step.             *)
(*                                                                         *)
(* Deadlines of the process (of one operation, of the processing of a       *)
(* claim, of the drain) may pass at any moment; leases count in the ticks   *)
(* of OutboxStore.  The permit is the most general ClaimPermit: each call   *)
(* on it may find it Updated or Lost.                                       *)
(***************************************************************************)
EXTENDS Integers, Sequences, FiniteSets

CONSTANTS
    Events, MaxAttempts, Lease, ErrorCodes, Backoffs, BatchSize, \* see OutboxStore
    MaxLag,     \* see OutboxStore
    OtherOps,   \* the statements other workers issue
    MaxStops    \* bound on shutdowns and crashes

ASSUME RunnerAssumption ==
    /\ OtherOps \subseteq {"claim", "renew", "settle", "reap"}
    /\ MaxStops \in Nat

VARIABLES
    row, hist, policy, expected, \* the database: OutboxStore
    run,        \* Run: the polling loop
    task,       \* [Events -> Task]: the tasks of the current cycle
    orphans,    \* calls on a row that no task waits for any more
    others,     \* {<<e, token>>}: claims given to other workers
    decided,    \* {<<e, token, decision>>}: what handlers returned
    said,       \* {<<e, token, count>>}: claims in summaries returned Ok
    stops       \* shutdowns and crashes so far

Self == "self"

Store == INSTANCE OutboxStore
             WITH Workers <- {Self}, LegacyAttempts <- {0}, MaxRevision <- 1

db == <<row, hist, policy, expected>>
vars == <<row, hist, policy, expected, run, task, orphans, others, decided, said, stops>>

-----------------------------------------------------------------------------

Ops == {"verify", "reap", "acquire", "claim", "release", "last_reap"}

Decisions == {"applied", "retry", "terminal"}

\* pc: the operation the loop is at, or a place between; call: of the operation.
\* visit: tasks the drain has still to cancel; seen: the one it has cancelled
\* and whose io flag it reads next.  claimed, lost and settled: the summary.
Run == [pc      : Ops \union {"off", "join", "drain"},
        call    : {"none", "sent", "done"},
        stop    : {"no", "draining", "expired"},
        err     : BOOLEAN,
        visit   : SUBSET Events,
        seen    : SUBSET Events,
        claimed : SUBSET (Events \X Nat),
        lost    : SUBSET (Events \X Nat),
        settled : SUBSET (Events \X Nat)]

Off == [pc |-> "off", call |-> "none", stop |-> "no", err |-> FALSE, visit |-> {},
        seen |-> {}, claimed |-> {}, lost |-> {}, settled |-> {}]

\* phase: which of its I/O phases a task is in or heading for: the check before
\* the handler, a heartbeat, or the check and settlement after the handler.
Task == [pc      : {"none", "claimed", "start", "publish", "gate", "renewing",
                    "permit_renew", "permit_check", "clear", "dispatch",
                    "handling", "settle", "settling", "done"},
         phase   : {"first", "beat", "final"},
         token   : Nat,
         io      : BOOLEAN,
         cancel  : BOOLEAN,
         aborted : BOOLEAN,
         call    : {"none", "sent", "updated", "lost"},
         dec     : Decisions \union {"none"},
         out     : {"none", "settled", "lost", "unknown"}]

NoTask == [pc |-> "none", phase |-> "first", token |-> 0, io |-> FALSE,
           cancel |-> FALSE, aborted |-> FALSE, call |-> "none",
           dec |-> "none", out |-> "none"]

Call == [op : {"renew"} \union Decisions, e : Events, token : Nat]

Init ==
    /\ Store!Init
    /\ run = Off
    /\ task = [e \in Events |-> NoTask]
    /\ orphans = {}
    /\ others = {}
    /\ decided = {}
    /\ said = {}
    /\ stops = 0

-----------------------------------------------------------------------------
(* What the database does with a call.                                       *)

\* Mutant: a failure that may be retried is settled as a success.
Statement_RetryIsSuccess(op, e, token, lag) ==
    \/ op = "renew" /\ Store!renew(e, token, lag)
    \/ op \in {"applied", "retry"} /\ Store!settle_success(e, token, lag)
    \/ /\ op = "terminal"
       /\ \E code \in ErrorCodes, backoff \in Backoffs :
             Store!settle_failure(e, token, code, TRUE, backoff, lag)

Statement(op, e, token, lag) ==
    \/ op = "renew" /\ Store!renew(e, token, lag)
    \/ op = "applied" /\ Store!settle_success(e, token, lag)
    \/ /\ op \in {"retry", "terminal"}
       /\ \E code \in ErrorCodes, backoff \in Backoffs :
             Store!settle_failure(e, token, code, op = "terminal", backoff, lag)

\* It updates one row, or none when the fence is lost.
Execute(c, result) ==
    \E lag \in Store!Lags :
        IF Store!Fenced(c.e, c.token, lag)
        THEN Statement(c.op, c.e, c.token, lag) /\ result = "updated"
        ELSE UNCHANGED db /\ result = "lost"

\* SKIP LOCKED: a reap or a claim may pass over any row, even over all of them.
Reap(S) ==
    \/ \E lag \in Store!Lags : Store!reap_exhausted(Self, S, lag)
    \/ S = {} /\ UNCHANGED db

ClaimRows(S) ==
    \/ \E lag \in Store!Lags : Store!claim(Self, S, lag)
    \/ S = {} /\ UNCHANGED db

-----------------------------------------------------------------------------
(* Tasks: process_claim.                                                     *)

\* The call a task waits for, if the database has not executed it yet.
Unanswered(e) ==
    IF task[e].call # "sent" THEN {}
    ELSE {[op |-> IF task[e].pc = "renewing" THEN "renew" ELSE task[e].dec,
           e |-> e, token |-> task[e].token]}

\* Where a task awaits: there an abort or a deadline can end it, and an aborted
\* task does not go on.
Waiting == {"start", "renewing", "permit_renew", "permit_check", "handling",
            "settling"}

At(e, pc) ==
    /\ task[e].pc = pc
    /\ pc \in Waiting => ~ task[e].aborted

Become(e, t) == task' = [task EXCEPT ![e] = t] /\ UNCHANGED orphans

\* Mutant: the call outlives its task.
End_KeepsCall(e, out) ==
    /\ task' = [task EXCEPT ![e].pc = "done", ![e].out = out,
                            ![e].cancel = @ \/ out # "settled"]
    /\ orphans' = orphans \union Unanswered(e)

\* process_claim returns.  Its guard cancels the handler's context unless the
\* claim was settled; a call still unanswered is abandoned.
End(e, out) ==
    /\ task' = [task EXCEPT ![e].pc = "done", ![e].out = out, ![e].call = "none",
                            ![e].cancel = @ \/ out # "settled"]
    /\ orphans' = orphans \union Unanswered(e)

\* Go on unless the fence is lost or the task finds itself cancelled.
Unless(e, lost, t) ==
    IF lost \/ task[e].cancel THEN End(e, "lost") ELSE Become(e, t)

TaskOnly == UNCHANGED <<db, run, others, decided, said, stops>>

\* The task is polled for the first time.
StartTask(e) ==
    /\ At(e, "start")
    /\ Unless(e, FALSE, [task[e] EXCEPT !.pc = "publish"])
    /\ TaskOnly

\* Mutant: the I/O phase is not published.
PublishIo_Missing(e) ==
    /\ At(e, "publish")
    /\ Become(e, [task[e] EXCEPT !.pc = "gate"])
    /\ TaskOnly

\* incomplete_io := true, before cancellation is read.
PublishIo(e) ==
    /\ At(e, "publish")
    /\ Become(e, [task[e] EXCEPT !.pc = "gate", !.io = TRUE])
    /\ TaskOnly

\* The lease of the row is renewed first, in every I/O phase.
SendRenew(e) ==
    /\ At(e, "gate")
    /\ Unless(e, FALSE, [task[e] EXCEPT !.pc = "renewing", !.call = "sent"])
    /\ TaskOnly

Renewed(e) ==
    /\ At(e, "renewing")
    /\ task[e].call \in {"updated", "lost"}
    /\ Unless(e, task[e].call = "lost",
              [task[e] EXCEPT !.pc = "permit_renew", !.call = "none"])
    /\ TaskOnly

\* A heartbeat renews the permit and asks no more of it.
PermitRenewed(e, lost) ==
    /\ At(e, "permit_renew")
    /\ Unless(e, lost, [task[e] EXCEPT !.pc = IF task[e].phase = "beat"
                                              THEN "clear" ELSE "permit_check"])
    /\ TaskOnly

PermitChecked(e, lost) ==
    /\ At(e, "permit_check")
    /\ Unless(e, lost, [task[e] EXCEPT !.pc = IF task[e].phase = "first"
                                              THEN "clear" ELSE "settle"])
    /\ TaskOnly

\* incomplete_io := false: no call of this task is open.
ClearIo(e) ==
    /\ At(e, "clear")
    /\ Become(e, [task[e] EXCEPT !.pc = "dispatch", !.io = FALSE])
    /\ TaskOnly

\* Start the handler, or return to it after a heartbeat.
Dispatch(e) ==
    /\ At(e, "dispatch")
    /\ Unless(e, FALSE, [task[e] EXCEPT !.pc = "handling"])
    /\ TaskOnly

Heartbeat(e) ==
    /\ At(e, "handling")
    /\ Become(e, [task[e] EXCEPT !.pc = "publish", !.phase = "beat"])
    /\ TaskOnly

HandlerDecides(e, d) ==
    /\ At(e, "handling")
    /\ Become(e, [task[e] EXCEPT !.pc = "publish", !.phase = "final", !.dec = d])
    /\ decided' = decided \union {<<e, task[e].token, d>>}
    /\ UNCHANGED <<db, run, others, said, stops>>

\* The processing budget is used up while the handler runs.
HandlerOutOfTime(e) ==
    /\ At(e, "handling")
    /\ End(e, "lost")
    /\ TaskOnly

\* The handler panics: joining the task is an error.
HandlerPanics(e) ==
    /\ At(e, "handling")
    /\ End(e, "unknown")
    /\ TaskOnly

SendSettle(e) ==
    /\ At(e, "settle")
    /\ Unless(e, FALSE, [task[e] EXCEPT !.pc = "settling", !.call = "sent"])
    /\ TaskOnly

\* Mutant: the number of rows the statement changed is not looked at.
Settled_AnyRows(e) ==
    /\ At(e, "settling")
    /\ task[e].call \in {"updated", "lost"}
    /\ End(e, "settled")
    /\ TaskOnly

\* incomplete_io stays set until the result is joined.
Settled(e) ==
    /\ At(e, "settling")
    /\ \/ task[e].call = "updated" /\ End(e, "settled")
       \/ task[e].call = "lost" /\ End(e, "lost")
    /\ TaskOnly

\* Where a passed deadline is noticed: at an await, and at the checks before the
\* handler starts, after it returns and before the settlement.
Timed(e) ==
    \/ \E pc \in Waiting \ {"handling"} : At(e, pc)
    \/ At(e, "clear") /\ task[e].phase = "first"
    \/ At(e, "publish") /\ task[e].phase = "final"
    \/ At(e, "settle")

\* Mutant: a claim whose call timed out counts as lost.
OutOfTime_Lost(e) ==
    /\ Timed(e)
    /\ End(e, "lost")
    /\ TaskOnly

\* A dependency deadline or the processing budget passes: StoreUnknown.
OutOfTime(e) ==
    /\ Timed(e)
    /\ End(e, "unknown")
    /\ TaskOnly

\* An aborted task is dropped when it is next at an await.
DropTask(e) ==
    /\ task[e].aborted
    /\ task[e].pc \in Waiting \union {"done"}
    /\ task' = [task EXCEPT ![e] = NoTask]
    /\ orphans' = orphans \union Unanswered(e)
    /\ TaskOnly

\* The database executes the call a task waits for.
ExecuteCall(e) ==
    /\ \E c \in Unanswered(e), result \in {"updated", "lost"} :
          /\ Execute(c, result)
          /\ Become(e, [task[e] EXCEPT !.call = result])
    /\ UNCHANGED <<run, others, decided, said, stops>>

TaskStep(e) ==
    \/ StartTask(e) \/ PublishIo(e) \/ SendRenew(e) \/ Renewed(e)
    \/ \E lost \in BOOLEAN : PermitRenewed(e, lost) \/ PermitChecked(e, lost)
    \/ ClearIo(e) \/ Dispatch(e) \/ SendSettle(e) \/ Settled(e)

HandlerStep(e) ==
    \/ Heartbeat(e)
    \/ \E d \in Decisions : HandlerDecides(e, d)
    \/ HandlerPanics(e)

-----------------------------------------------------------------------------
(* Cycles: run_cycle_work inside run_until_shutdown.                         *)

Stopping == run.stop # "no"

In(pc, call) == run.pc = pc /\ run.call = call

Goto(pc) == run' = [run EXCEPT !.pc = pc, !.call = "none"]

\* These are sent even when a shutdown has been requested.
Cleanup == {"release", "last_reap"}

CycleOnly == UNCHANGED <<db, task, orphans, others, decided, stops>>

Counts(count, S) == {<<c[1], c[2], count>> : c \in S}

\* The cycle returns its summary, or an error and no summary.
CycleEnd(err) ==
    /\ run' = [Off EXCEPT !.pc = IF Stopping THEN "last_reap" ELSE "verify",
                          !.stop = run.stop]
    /\ said' = said \union IF err THEN {} ELSE Counts("claimed", run.claimed)
                                               \union Counts("lost", run.lost)
                                               \union Counts("settled", run.settled)

\* The next operation of the cycle, unless a shutdown has been requested.
NextOp(pc) ==
    IF Stopping THEN CycleEnd(FALSE) ELSE Goto(pc) /\ UNCHANGED said

SendOp ==
    /\ run.pc \in Ops /\ run.call = "none"
    /\ run.pc \in Cleanup \/ ~ Stopping
    /\ run' = [run EXCEPT !.call = "sent"]
    /\ UNCHANGED said
    /\ CycleOnly

\* A shutdown is seen before a cycle starts: there is none.
SkipCycle ==
    /\ In("verify", "none") /\ Stopping
    /\ CycleEnd(FALSE)
    /\ CycleOnly

ClaimedRows == {e \in Events : task[e].pc = "claimed"}

Unjoined == {e \in Events : task[e].pc # "none"}

\* The tasks when the claims the store returned are not dispatched.
Undispatched == [e \in Events |-> IF e \in ClaimedRows THEN NoTask ELSE task[e]]

\* An operation fails with StoreUnknown: a shutdown before it was sent, an
\* error, or a deadline before it was answered.  A permit in hand is released.
FailOp ==
    /\ run.pc \in Ops
    /\ run.call # "none" \/ (Stopping /\ run.pc \notin Cleanup)
    /\ \/ /\ run.pc = "claim"
          /\ run' = [run EXCEPT !.pc = "release", !.call = "none", !.err = TRUE]
          /\ UNCHANGED said
       \/ /\ run.pc = "last_reap"
          /\ run' = Off
          /\ UNCHANGED said
       \/ /\ run.pc \notin {"claim", "last_reap"}
          /\ CycleEnd(TRUE)
    /\ task' = Undispatched
    /\ UNCHANGED <<db, orphans, others, decided, stops>>

verify_policy ==
    /\ In("verify", "sent")
    /\ NextOp("reap")
    /\ CycleOnly

\* The database executes a reap or a claim; the answer is a step of its own.
ExecuteReap(S) ==
    /\ In("reap", "sent") \/ In("last_reap", "sent")
    /\ Reap(S)
    /\ run' = [run EXCEPT !.call = "done"]
    /\ UNCHANGED <<task, orphans, others, decided, said, stops>>

Reaped ==
    /\ In("reap", "done")
    /\ NextOp("acquire")
    /\ CycleOnly

\* Admission, or contention.
Acquired ==
    /\ In("acquire", "sent")
    /\ Goto(IF Stopping THEN "release" ELSE "claim")
    /\ UNCHANGED said
    /\ CycleOnly

Contended ==
    /\ In("acquire", "sent")
    /\ CycleEnd(FALSE)
    /\ CycleOnly

ExecuteClaim(S) ==
    /\ In("claim", "sent")
    /\ ClaimRows(S)
    /\ run' = [run EXCEPT !.call = "done"]
    /\ task' = [e \in Events |->
                  IF e \in S THEN [NoTask EXCEPT !.pc = "claimed", !.token = Len(hist'[e])]
                             ELSE task[e]]
    /\ UNCHANGED <<orphans, others, decided, said, stops>>

\* Mutant: claims that come back during a shutdown are dropped without a word.
Claimed_Silent ==
    /\ In("claim", "done")
    /\ run' = [run EXCEPT !.pc = IF Stopping THEN "release" ELSE "join",
                          !.call = "none",
                          !.claimed = {<<e, task[e].token>> : e \in ClaimedRows}]
    /\ task' = IF Stopping THEN Undispatched
               ELSE [e \in Events |-> IF e \in ClaimedRows
                                      THEN [task[e] EXCEPT !.pc = "start"]
                                      ELSE task[e]]
    /\ UNCHANGED <<db, orphans, others, decided, said, stops>>

\* The claims come back.  Each gets a task; after a shutdown none does, and
\* the cycle is an error if there were any.
Claimed ==
    /\ In("claim", "done")
    /\ run' = [run EXCEPT !.pc = IF Stopping THEN "release" ELSE "join",
                          !.call = "none",
                          !.err = Stopping /\ ClaimedRows # {},
                          !.claimed = {<<e, task[e].token>> : e \in ClaimedRows}]
    /\ task' = IF Stopping THEN Undispatched
               ELSE [e \in Events |-> IF e \in ClaimedRows
                                      THEN [task[e] EXCEPT !.pc = "start"]
                                      ELSE task[e]]
    /\ UNCHANGED <<db, orphans, others, decided, said, stops>>

fold_join(e) ==
    LET out == task[e].out
        claim == {<<e, task[e].token>>}
    IN
    /\ run.pc = "join"
    /\ task[e].pc = "done"
    /\ run' = [run EXCEPT !.settled = @ \union IF out = "settled" THEN claim ELSE {},
                          !.lost = @ \union IF out = "lost" THEN claim ELSE {},
                          !.err = @ \/ out = "unknown"]
    /\ Become(e, NoTask)
    /\ UNCHANGED <<db, others, decided, said, stops>>

JoinedAll ==
    /\ run.pc = "join" /\ Unjoined = {}
    /\ Goto("release")
    /\ UNCHANGED said
    /\ CycleOnly

\* The drain budget is used up and there are tasks left.
StartAbandoning ==
    /\ run.pc = "join" /\ run.stop = "expired" /\ Unjoined # {}
    /\ run' = [run EXCEPT !.pc = "drain", !.visit = Unjoined]
    /\ UNCHANGED said
    /\ CycleOnly

\* Mutant: the flag is read without cancelling first.
CancelTask_NoCancel(e) ==
    /\ run.pc = "drain" /\ run.seen = {} /\ e \in run.visit
    /\ run' = [run EXCEPT !.seen = {e}, !.visit = @ \ {e}]
    /\ UNCHANGED <<db, task, orphans, others, decided, said, stops>>

\* First cancel.store(true) ...
CancelTask(e) ==
    /\ run.pc = "drain" /\ run.seen = {} /\ e \in run.visit
    /\ run' = [run EXCEPT !.seen = {e}, !.visit = @ \ {e}]
    /\ Become(e, [task[e] EXCEPT !.cancel = TRUE])
    /\ UNCHANGED <<db, others, decided, said, stops>>

\* ... then incomplete_io.load().
ReadIo(e) ==
    /\ run.pc = "drain" /\ run.seen = {e}
    /\ run' = [run EXCEPT !.seen = {}, !.err = @ \/ task[e].io]
    /\ UNCHANGED said
    /\ CycleOnly

\* What is not joined counts as lost and is aborted.
AbortAll ==
    /\ run.pc = "drain" /\ run.seen = {} /\ run.visit = {}
    /\ run' = [run EXCEPT !.pc = "release",
                          !.lost = @ \union {<<e, task[e].token>> : e \in Unjoined}]
    /\ task' = [e \in Events |-> IF e \in Unjoined
                                 THEN [task[e] EXCEPT !.aborted = TRUE] ELSE task[e]]
    /\ UNCHANGED <<db, orphans, others, decided, said, stops>>

Released ==
    /\ In("release", "sent")
    /\ CycleEnd(run.err)
    /\ CycleOnly

ReapedLast ==
    /\ In("last_reap", "done")
    /\ run' = Off
    /\ UNCHANGED said
    /\ CycleOnly

CycleStep ==
    \/ SendOp \/ SkipCycle \/ Claimed \/ JoinedAll \/ StartAbandoning \/ AbortAll
    \/ \E e \in Events : fold_join(e) \/ CancelTask(e) \/ ReadIo(e)

-----------------------------------------------------------------------------
(* The process comes and goes; calls it abandoned, and other workers.        *)

StartProcess ==
    /\ run.pc = "off" /\ Unjoined = {}
    /\ Goto("verify")
    /\ UNCHANGED said
    /\ CycleOnly

RequestShutdown ==
    /\ run.pc # "off" /\ ~ Stopping /\ stops < MaxStops
    /\ run' = [run EXCEPT !.stop = "draining"]
    /\ stops' = stops + 1
    /\ UNCHANGED <<db, task, orphans, others, decided, said>>

\* Mutant: the drain deadline is never armed.
DrainExpires_Never == FALSE /\ UNCHANGED vars

\* The deadline set by start_drain passes.
DrainExpires ==
    /\ run.stop = "draining"
    /\ run' = [run EXCEPT !.stop = "expired"]
    /\ UNCHANGED said
    /\ CycleOnly

\* run_until_shutdown drops the worker at the drain deadline: its guards cancel
\* the tasks, which are aborted, and nothing is reported.
DropWorker ==
    /\ run.stop = "expired"
    /\ run' = Off
    /\ task' = [e \in Events |->
                  IF e \in Unjoined \ ClaimedRows
                  THEN [task[e] EXCEPT !.aborted = TRUE, !.cancel = TRUE]
                  ELSE NoTask]
    /\ UNCHANGED <<db, orphans, others, decided, said, stops>>

\* The process dies; nothing of it is left but the calls it had sent.
Crash ==
    /\ run.pc # "off" /\ stops < MaxStops
    /\ stops' = stops + 1
    /\ orphans' = orphans \union UNION {Unanswered(e) : e \in Events}
    /\ run' = Off
    /\ task' = [e \in Events |-> NoTask]
    /\ UNCHANGED <<db, others, decided, said>>

\* An abandoned call reaches the database after all, or never does.
OrphanEnds(c) ==
    /\ orphans' = orphans \ {c}
    /\ UNCHANGED db \/ \E result \in {"updated", "lost"} : Execute(c, result)
    /\ UNCHANGED <<run, task, others, decided, said, stops>>

\* Another worker, or a claim or reap this process abandoned.
OtherClaim(S) ==
    /\ "claim" \in OtherOps
    /\ \E lag \in Store!Lags : Store!claim(Self, S, lag)
    /\ others' = others \union {<<e, Len(hist[e]) + 1>> : e \in S}
    /\ UNCHANGED <<run, task, orphans, decided, said, stops>>

OtherReap(S) ==
    /\ "reap" \in OtherOps
    /\ \E lag \in Store!Lags : Store!reap_exhausted(Self, S, lag)
    /\ UNCHANGED <<run, task, orphans, others, decided, said, stops>>

OtherCall(e, token) ==
    /\ <<e, token>> \in others
    /\ \E lag \in Store!Lags :
          \/ "renew" \in OtherOps /\ Statement("renew", e, token, lag)
          \/ /\ "settle" \in OtherOps
             /\ \E d \in Decisions : Statement(d, e, token, lag)
    /\ UNCHANGED <<run, task, orphans, others, decided, said, stops>>

Tick ==
    /\ Store!Tick
    /\ UNCHANGED <<run, task, orphans, others, decided, said, stops>>

Next ==
    \/ CycleStep \/ FailOp
    \/ verify_policy \/ Reaped \/ Acquired \/ Contended \/ Released \/ ReapedLast
    \/ \E S \in SUBSET Events : \/ ExecuteReap(S) \/ ExecuteClaim(S)
                                \/ OtherClaim(S) \/ OtherReap(S)
    \/ \E e \in Events : \/ TaskStep(e) \/ HandlerStep(e) \/ HandlerOutOfTime(e)
                         \/ OutOfTime(e) \/ ExecuteCall(e) \/ DropTask(e)
    \/ StartProcess \/ RequestShutdown \/ DrainExpires \/ DropWorker \/ Crash
    \/ \E c \in orphans : OrphanEnds(c)
    \/ \E e \in Events : \E token \in 1 .. Len(hist[e]) : OtherCall(e, token)
    \/ Tick

Safety == Init /\ [][Next]_vars

(***************************************************************************)
(* What the scheduling of the code justifies.  The executor polls what is   *)
(* ready and its timers fire: weak fairness.  The processing budget is one  *)
(* absolute deadline that stays passed, so a handler loop that keeps coming *)
(* back to its select notices it: strong fairness.  The store answers the   *)
(* operations of the loop again and again, and does not pass over the same  *)
(* row for ever, because row locks last for one statement and the oldest    *)
(* row is taken first: strong fairness.  Nothing is assumed of handlers, of *)
(* the calls of tasks, or of other workers.                                 *)
(***************************************************************************)
Scheduling ==
    /\ WF_vars(CycleStep) /\ WF_vars(FailOp) /\ WF_vars(StartProcess)
    /\ WF_vars(DrainExpires) /\ WF_vars(DropWorker)
    /\ \A e \in Events : /\ WF_vars(TaskStep(e)) /\ WF_vars(OutOfTime(e))
                         /\ WF_vars(DropTask(e))
    /\ WF_vars(Tick)

ProcessingBudget == \A e \in Events : SF_vars(HandlerOutOfTime(e))

StoreAnswers ==
    /\ SF_vars(verify_policy) /\ SF_vars(Reaped) /\ SF_vars(Acquired)
    /\ SF_vars(Claimed)
    /\ \A e \in Events :
          /\ SF_vars(\E S \in SUBSET Events : e \in S /\ ExecuteReap(S))
          /\ SF_vars(\E S \in SUBSET Events : e \in S /\ ExecuteClaim(S))
    /\ SF_vars(\E S \in SUBSET Events : ExecuteReap(S))

Spec == Safety /\ Scheduling /\ ProcessingBudget /\ StoreAnswers

\* The store may be out of reach for good, and a handler never return.
OutageSpec == Safety /\ Scheduling

-----------------------------------------------------------------------------
(* Properties.                                                               *)

\* The loop, the tasks and the calls keep their types; a task waits for a call
\* only in the two places where it awaits the store.
TypeOK ==
    /\ Store!TypeOK
    /\ run \in Run
    /\ task \in [Events -> Task]
    /\ orphans \subseteq Call
    /\ others \subseteq Events \X Nat
    /\ decided \subseteq Events \X Nat \X Decisions
    /\ said \subseteq Events \X Nat \X {"claimed", "lost", "settled"}
    /\ stops \in 0 .. MaxStops
    /\ \A e \in Events : task[e].call # "none" => task[e].pc \in {"renewing", "settling"}

Result(e, token) == hist[e][token].result

\* A summary stays true: a claim it counts as settled was settled by that
\* claim, and one it counts as lost was not and never will be, although its
\* task may have been aborted at the drain deadline in the middle of anything.
\* When the runner cannot know, it returns StoreUnknown instead of a summary.
HonestSummary ==
    \A e \in Events : \A token \in 1 .. Len(hist[e]) :
        /\ <<e, token, "settled">> \in said
             => Result(e, token) \in {"delivered", "retry", "dead"}
        /\ <<e, token, "lost">> \in said
             => Result(e, token) \in {"open", "reaped"}

OpenCalls == orphans \union UNION {Unanswered(e) : e \in Events}

\* Once a claim is in a summary no renewal or settlement of it is under way:
\* "cancel, then read incomplete_io" against "publish, then read cancel" leaves
\* no call behind that the summary does not know of.
NoCallAfterSummary ==
    \A c \in OpenCalls :
        {<<c.e, c.token, "lost">>, <<c.e, c.token, "settled">>} \cap said = {}

\* Every claim a summary reports is counted once more, as settled or as lost.
SummaryAddsUp ==
    \A e \in Events : \A token \in 1 .. Len(hist[e]) :
        LET Says(count) == <<e, token, count>> \in said IN
        /\ Says("claimed") <=> Says("lost") \/ Says("settled")
        /\ ~ (Says("lost") /\ Says("settled"))

\* A claim of this process ends its event the way the handler decided under
\* that claim: delivered after Applied, dead after a failure, or reaped.
EndsAsDecided ==
    \A e \in Events : \A token \in 1 .. Len(hist[e]) :
        LET Decided(d) == <<e, token, d>> \in decided IN
        <<e, token>> \notin others =>
          /\ Result(e, token) = "delivered" => Decided("applied")
          /\ Result(e, token) = "retry" => Decided("retry")
          /\ Result(e, token) = "dead" =>
                \/ Decided("terminal")
                \/ Decided("retry") /\ row[e].attempts >= row[e].limit

\* Every event is delivered or dead-lettered in the end, though handlers may
\* hang, calls of tasks may all time out, and processes stop and crash.
EveryEventEnds == \A e \in Events : <>(row[e].state # "open")

\* A shutdown returns, whatever handlers and the store do, and without waiting
\* for a processing budget to end.
ShutdownReturns == Stopping ~> run.pc = "off"

=============================================================================

---------------------------- MODULE OutboxStore ----------------------------
(***************************************************************************)
(* The delivery columns of outbox_events and the five statements of        *)
(* PostgresOutboxStore that change them: claim, renew, settle_success,     *)
(* settle_failure and reap_exhausted.                                      *)
(*                                                                         *)
(* Every statement samples the database clock once (the MATERIALIZED tick  *)
(* CTE) and may wait for its row lock afterwards, so it acts on a time     *)
(* that is up to MaxLag ticks old.  Deadlines are kept relative to the     *)
(* clock: left = lease_expires_at - now, wait = available_at - now; they   *)
(* count down to -MaxLag, below which no statement can tell them apart.    *)
(*                                                                         *)
(* The callers of this module are the most general ones: whoever was ever  *)
(* given a claim may renew or settle it at any time, once, repeatedly, or  *)
(* never.  Late, duplicated and lost calls need no action of their own.    *)
(***************************************************************************)
EXTENDS Integers, Sequences, FiniteSets

CONSTANTS
    Events,         \* event ids with a committed outbox row
    Workers,        \* delivery processes, each deployed with a policy
    MaxAttempts,    \* the values of max_attempts a policy row may carry
    LegacyAttempts, \* attempt counts rows may carry from before pinning
    Lease,          \* lease_duration, in ticks
    ErrorCodes,     \* the ErrorCodes a handler may report
    Backoffs,       \* retry delays the policy admits, in ticks
    BatchSize,      \* rows one claim or one reap may take
    MaxLag,         \* age, in ticks, of a statement's clock sample
    MaxRevision     \* bound on policy rollouts

ASSUME StoreAssumption ==
    /\ MaxAttempts \subseteq Nat \ {0} /\ MaxAttempts # {}
    /\ LegacyAttempts \subseteq Nat
    /\ Lease \in Nat \ {0}
    /\ "unknown_at_limit" \in ErrorCodes
    /\ Backoffs \subseteq Nat \ {0}
    /\ BatchSize \in Nat \ {0}
    /\ MaxLag \in Nat
    /\ MaxRevision \in Nat

VARIABLES
    row,        \* [Events -> Row]: the delivery columns
    hist,       \* [Events -> Seq(Claim)]: the claims granted, oldest first
    policy,     \* the outbox_delivery_policy row
    expected    \* [Workers -> Policy]: the policy a worker is deployed with

vars == <<row, hist, policy, expected>>

(***************************************************************************)
(* A lease token is the position of its claim in hist[e]: gen_random_uuid  *)
(* never repeats, and a token is only ever compared with the token of its  *)
(* own row.  0 is NULL, for tokens and for attempt_limit.                  *)
(***************************************************************************)
Null == 0

Elapsed == -MaxLag

Row == [state    : {"open", "delivered", "dead"},
        attempts : Nat,
        limit    : Nat,
        token    : Nat,
        left     : Elapsed .. Lease,
        wait     : {n \in Int : n >= Elapsed},
        error    : {"none"} \union ErrorCodes]

Policy == [revision : Nat, max : MaxAttempts]

\* What the database did with a claim; "open" until a statement resolves it.
Results == {"open", "delivered", "retry", "dead", "reaped"}

Claim == [attempt : Nat, result : Results]

Lags == 0 .. MaxLag

-----------------------------------------------------------------------------

Init ==
    /\ row \in [Events -> {[state |-> "open", attempts |-> a, limit |-> Null,
                            token |-> Null, left |-> Elapsed, wait |-> Elapsed,
                            error |-> "none"] : a \in LegacyAttempts}]
    /\ hist = [e \in Events |-> <<>>]
    /\ policy \in [revision : {1}, max : MaxAttempts]
    /\ expected = [w \in Workers |-> policy]

-----------------------------------------------------------------------------

LegacyExhausted(e) ==
    /\ row[e].state = "open"
    /\ row[e].limit = Null
    /\ row[e].attempts >= policy.max

\* Mutant: the policy is compared, the legacy rows are not counted.
guard_policy_NoLegacyCount(w) == policy = expected[w]

guard_policy(w) ==
    /\ policy = expected[w]
    /\ ~ \E e \in Events : LegacyExhausted(e)

\* Mutant: the claim takes the current maximum, pinned or not.
AttemptLimit_Unpinned(r, max) == max

AttemptLimit(r, max) == IF r.limit = Null THEN max ELSE r.limit

\* Mutant: one claim too many.
Claimable_OffByOne(e, lag) ==
    LET r == row[e] IN
    /\ r.state = "open"
    /\ r.wait + lag <= 0
    /\ r.token = Null \/ r.left + lag <= 0
    /\ r.attempts <= AttemptLimit(r, policy.max)

\* Mutant: an ended row is still a candidate.
Claimable_Ended(e, lag) ==
    LET r == row[e] IN
    /\ r.wait + lag <= 0
    /\ r.token = Null \/ r.left + lag <= 0
    /\ r.attempts < AttemptLimit(r, policy.max)

Claimable(e, lag) ==
    LET r == row[e] IN
    /\ r.state = "open"
    /\ r.wait + lag <= 0
    /\ r.token = Null \/ r.left + lag <= 0
    /\ r.attempts < AttemptLimit(r, policy.max)

\* Mutant: taking over an expired lease is not charged.
ClaimedRow_FreeTakeover(e, lag) ==
    [row[e] EXCEPT !.attempts = IF row[e].token = Null THEN @ + 1 ELSE @,
                   !.limit = AttemptLimit(row[e], policy.max),
                   !.token = Len(hist[e]) + 1,
                   !.left = Lease - lag]

ClaimedRow(e, lag) ==
    [row[e] EXCEPT !.attempts = @ + 1,
                   !.limit = AttemptLimit(row[e], policy.max),
                   !.token = Len(hist[e]) + 1,
                   !.left = Lease - lag]

NewClaim(e) == [attempt |-> row[e].attempts + 1, result |-> "open"]

\* The order in which candidates are taken is a priority, not a promise: SKIP
\* LOCKED passes over any row another transaction holds.
claim(w, S, lag) ==
    /\ guard_policy(w)
    /\ S # {} /\ Cardinality(S) <= BatchSize
    /\ \A e \in S : Claimable(e, lag)
    /\ row' = [e \in Events |-> IF e \in S THEN ClaimedRow(e, lag) ELSE row[e]]
    /\ hist' = [e \in Events |-> IF e \in S THEN Append(hist[e], NewClaim(e))
                                            ELSE hist[e]]
    /\ UNCHANGED <<policy, expected>>

\* Mutant: any holder of an unexpired lease will do.
Fenced_AnyToken(e, token, lag) ==
    /\ row[e].state = "open"
    /\ row[e].token # Null
    /\ row[e].left + lag > 0

\* The WHERE clause shared by renew, settle_success and settle_failure.
Fenced(e, token, lag) ==
    /\ row[e].state = "open"
    /\ row[e].token = token
    /\ row[e].left + lag > 0

\* Mutant: the lease is extended from its old deadline.
renew_FromDeadline(e, token, lag) ==
    /\ Fenced(e, token, lag)
    /\ row' = [row EXCEPT ![e].left = @ + Lease]
    /\ UNCHANGED <<hist, policy, expected>>

renew(e, token, lag) ==
    /\ Fenced(e, token, lag)
    /\ row' = [row EXCEPT ![e].left = Lease - lag]
    /\ UNCHANGED <<hist, policy, expected>>

\* Mutant: the lease columns are left behind.
settle_success_KeepsLease(e, token, lag) ==
    /\ Fenced(e, token, lag)
    /\ row' = [row EXCEPT ![e].state = "delivered"]
    /\ hist' = [hist EXCEPT ![e][token].result = "delivered"]
    /\ UNCHANGED <<policy, expected>>

settle_success(e, token, lag) ==
    /\ Fenced(e, token, lag)
    /\ row' = [row EXCEPT ![e].state = "delivered",
                          ![e].token = Null, ![e].left = Elapsed]
    /\ hist' = [hist EXCEPT ![e][token].result = "delivered"]
    /\ UNCHANGED <<policy, expected>>

\* Mutant: the last attempt is taken for one that can be retried.
LastAttempt_OffByOne(e) == row[e].attempts > row[e].limit

LastAttempt(e) == row[e].attempts >= row[e].limit

\* The code is the caller's: any of ErrorCode::ALL, the reaper's own included.
settle_failure(e, token, code, terminal, backoff, lag) ==
    LET final == terminal \/ LastAttempt(e) IN
    /\ Fenced(e, token, lag)
    /\ row[e].limit # Null
    /\ row' = [row EXCEPT ![e].state = IF final THEN "dead" ELSE "open",
                          ![e].wait = IF final THEN @ ELSE backoff - lag,
                          ![e].error = code,
                          ![e].token = Null, ![e].left = Elapsed]
    /\ hist' = [hist EXCEPT ![e][token].result = IF final THEN "dead" ELSE "retry"]
    /\ UNCHANGED <<policy, expected>>

\* Mutant: a row whose lease has expired is left alone.
Reapable_Unleased(e, lag) ==
    /\ row[e].state = "open"
    /\ row[e].limit # Null
    /\ LastAttempt(e)
    /\ row[e].token = Null

Reapable(e, lag) ==
    /\ row[e].state = "open"
    /\ row[e].limit # Null
    /\ LastAttempt(e)
    /\ row[e].token = Null \/ row[e].left + lag <= 0

reap_exhausted(w, S, lag) ==
    /\ guard_policy(w)
    /\ S # {} /\ Cardinality(S) <= BatchSize
    /\ \A e \in S : Reapable(e, lag)
    /\ row' = [e \in Events |->
                 IF e \in S THEN [row[e] EXCEPT !.state = "dead",
                                                !.token = Null, !.left = Elapsed,
                                                !.error = "unknown_at_limit"]
                            ELSE row[e]]
    /\ hist' = [e \in Events |->
                  IF e \in S THEN [hist[e] EXCEPT ![Len(hist[e])].result = "reaped"]
                             ELSE hist[e]]
    /\ UNCHANGED <<policy, expected>>

-----------------------------------------------------------------------------
(* The surroundings: time passes, an operator rolls out a policy row and     *)
(* redeploys the workers one by one.                                         *)

CountDown(n) == IF n > Elapsed THEN n - 1 ELSE n

Tick ==
    /\ row' = [e \in Events |-> [row[e] EXCEPT !.left = CountDown(@),
                                               !.wait = CountDown(@)]]
    /\ UNCHANGED <<hist, policy, expected>>

Rollout(max) ==
    /\ policy.revision < MaxRevision
    /\ policy' = [revision |-> policy.revision + 1, max |-> max]
    /\ UNCHANGED <<row, hist, expected>>

Redeploy(w) ==
    /\ expected' = [expected EXCEPT ![w] = policy]
    /\ UNCHANGED <<row, hist, policy>>

Next ==
    \/ \E w \in Workers, S \in SUBSET Events, lag \in Lags : claim(w, S, lag)
    \/ \E w \in Workers, S \in SUBSET Events, lag \in Lags :
          reap_exhausted(w, S, lag)
    \/ \E e \in Events, lag \in Lags : \E token \in 1 .. Len(hist[e]) :
          \/ renew(e, token, lag)
          \/ settle_success(e, token, lag)
          \/ \E code \in ErrorCodes, terminal \in BOOLEAN, backoff \in Backoffs :
                settle_failure(e, token, code, terminal, backoff, lag)
    \/ Tick
    \/ \E max \in MaxAttempts : Rollout(max)
    \/ \E w \in Workers : Redeploy(w)

Spec == Init /\ [][Next]_vars

-----------------------------------------------------------------------------
(* Properties.                                                               *)

\* The columns keep their types, and a token names a claim that was granted.
TypeOK ==
    /\ row \in [Events -> Row]
    /\ hist \in [Events -> Seq(Claim)]
    /\ policy \in Policy
    /\ expected \in [Workers -> Policy]
    /\ \A e \in Events : row[e].token \in 0 .. Len(hist[e])

\* A claim spends exactly one attempt, whatever becomes of it: a renewal, a
\* settlement, a reap or an expiry neither refunds nor charges one.  The
\* attempt handed to the caller is the one the row has on record.
AttemptsCountClaims ==
    \A e \in Events : \A i \in 1 .. Len(hist[e]) :
        hist[e][i].attempt = row[e].attempts - (Len(hist[e]) - i)

\* The limit pinned by the first claim bounds the attempts of an event for
\* good, through every policy rollout in between.
AttemptBudget ==
    \A e \in Events :
        /\ hist[e] # <<>> <=> row[e].limit # Null
        /\ row[e].limit # Null => row[e].attempts <= row[e].limit

\* Only the newest claim of an event can end it, it ends it once, and no claim
\* is granted afterwards: the end the row records is the end of its last claim.
NewestClaimEnds ==
    \A e \in Events :
        /\ \A i \in 1 .. Len(hist[e]) :
              hist[e][i].result \in {"delivered", "dead", "reaped"}
                => i = Len(hist[e]) /\ row[e].state # "open"
        /\ row[e].state # "open"
              => /\ hist[e] # <<>>
                 /\ hist[e][Len(hist[e])].result \in
                      IF row[e].state = "delivered" THEN {"delivered"}
                                                    ELSE {"dead", "reaped"}

\* A lease is on the newest claim, on a row that has not ended, and that claim
\* has no result yet (ck_outbox_terminal_unleased and more).
LeaseOnNewestClaim ==
    \A e \in Events : row[e].token # Null =>
        /\ row[e].state = "open"
        /\ row[e].token = Len(hist[e])
        /\ hist[e][row[e].token].result = "open"

\* An open event whose attempts are used up was last claimed by somebody who has
\* not said what became of it: settle_failure grants a retry only while an
\* attempt is left to make it.  So reap_exhausted ends an event only when its
\* last permitted delivery has an unknown result, and then its code says so.
ExhaustedIsUnknown ==
    \A e \in Events : hist[e] # <<>> =>
        LET last == hist[e][Len(hist[e])].result
            exhausted == row[e].attempts >= row[e].limit
        IN
        /\ row[e].state = "open" /\ exhausted => last = "open"
        /\ last = "reaped" => exhausted /\ row[e].error = "unknown_at_limit"

\* A delivered or dead-lettered event stays exactly that: nobody's late call
\* changes its end, its attempts, its error or its history.
EndIsFinal ==
    [][\A e \in Events : row[e].state # "open" =>
          /\ row'[e].state = row[e].state
          /\ row'[e].attempts = row[e].attempts
          /\ row'[e].error = row[e].error
          /\ hist'[e] = hist[e]]_vars

\* The attempt limit of an event is pinned by its first claim and never moves,
\* though the policy does.
LimitIsPinned ==
    [][\A e \in Events : row[e].limit # Null => row'[e].limit = row[e].limit]_vars

\* While a row from before pinning has used up the current maximum, no event is
\* claimed or reaped at all: the decision is the operator's.
LegacyHoldsDelivery ==
    [][(\E e \in Events : LegacyExhausted(e)) =>
          \A e \in Events :
              /\ Len(hist'[e]) = Len(hist[e])
              /\ \A i \in 1 .. Len(hist[e]) :
                    hist'[e][i].result = "reaped" => hist[e][i].result = "reaped"]_vars

=============================================================================

------------------------- MODULE OutboxStoreProofs -------------------------
(***************************************************************************)
(* The properties of OutboxStore for every set of events and workers, every *)
(* policy, lease, backoff, batch size and clock lag.                        *)
(*                                                                         *)
(* Each invariant speaks of one event at a time, so the inductive invariant *)
(* is RowInv(row[e], hist[e]) for every event e.  The first lemmas show that *)
(* what a statement does to one row and its history keeps RowInv; the step   *)
(* lemma then goes through the actions.                                      *)
(***************************************************************************)
EXTENDS OutboxStore, TLAPS

Ends == {"delivered", "dead", "reaped"}

\* The conjuncts of the inductive invariant for one row r and its claims h.

\* Types; a token names a claim that was granted.
RowTyped(r, h) ==
    /\ r \in Row
    /\ h \in Seq(Claim)
    /\ r.token \in 0 .. Len(h)

\* The claims carry consecutive attempts and the newest carries attempt_count.
RowCounts(r, h) ==
    \A i \in 1 .. Len(h) : h[i].attempt = r.attempts - (Len(h) - i)

\* The limit is pinned by the first claim and bounds the attempts.
RowBudget(r, h) ==
    /\ Len(h) # 0 <=> r.limit # Null
    /\ r.limit # Null => r.attempts <= r.limit

\* Only the newest claim has ended the event, as the row says.
RowEnd(r, h) ==
    /\ \A i \in 1 .. Len(h) :
          h[i].result \in Ends => i = Len(h) /\ r.state # "open"
    /\ r.state = "delivered" => Len(h) # 0 /\ h[Len(h)].result = "delivered"
    /\ r.state = "dead" => Len(h) # 0 /\ h[Len(h)].result \in {"dead", "reaped"}

\* A lease is on the newest claim, which nothing has resolved.
RowLease(r, h) ==
    r.token # Null => /\ r.state = "open"
                      /\ r.token = Len(h)
                      /\ h[r.token].result = "open"

\* The last claim of an open row without attempts left has no result, and a
\* reaped claim was the last its row allowed.
RowUnknown(r, h) ==
    Len(h) # 0 =>
        /\ r.state = "open" /\ r.attempts >= r.limit => h[Len(h)].result = "open"
        /\ h[Len(h)].result = "reaped"
             => r.attempts >= r.limit /\ r.error = "unknown_at_limit"

RowInv(r, h) ==
    /\ RowTyped(r, h)
    /\ RowCounts(r, h)
    /\ RowBudget(r, h)
    /\ RowEnd(r, h)
    /\ RowLease(r, h)
    /\ RowUnknown(r, h)

IInv ==
    /\ row \in [Events -> Row]
    /\ hist \in [Events -> Seq(Claim)]
    /\ policy \in Policy
    /\ expected \in [Workers -> Policy]
    /\ \A e \in Events : RowInv(row[e], hist[e])

-----------------------------------------------------------------------------
(* What the statements do to one row.                                        *)

\* A claim keeps the row invariant: it is the next attempt, within the limit.
LEMMA ClaimKeepsRow ==
    ASSUME NEW r, NEW h, RowInv(r, h), r.state = "open",
           NEW lim \in Nat \ {0}, r.limit # Null => lim = r.limit,
           r.attempts < lim, NEW left \in Elapsed .. Lease
    PROVE  RowInv([r EXCEPT !.attempts = @ + 1, !.limit = lim,
                            !.token = Len(h) + 1, !.left = left],
                  Append(h, [attempt |-> r.attempts + 1, result |-> "open"]))
<1> DEFINE c == [attempt |-> r.attempts + 1, result |-> "open"]
           q == [r EXCEPT !.attempts = @ + 1, !.limit = lim,
                          !.token = Len(h) + 1, !.left = left]
           g == Append(h, c)
<1>1. /\ r \in Row /\ h \in Seq(Claim) /\ Len(h) \in Nat
      /\ r.attempts \in Nat /\ c \in Claim
  BY DEF RowInv, RowTyped, Row, Claim, Results
<1>2. /\ g \in Seq(Claim) /\ Len(g) = Len(h) + 1
      /\ \A i \in 1 .. Len(h) : g[i] = h[i]
      /\ g[Len(g)] = c
  BY <1>1
<1>3. /\ q \in Row /\ q.attempts = r.attempts + 1 /\ q.limit = lim
      /\ q.token = Len(g) /\ q.state = "open"
  <2> HIDE DEF g, c
  <2>1. r.attempts + 1 \in Nat /\ lim \in Nat /\ Len(h) + 1 \in Nat
    BY <1>1
  <2> QED
    BY <1>1, <1>2, <2>1, Zenon DEF Row
<1>4. c.attempt = q.attempts /\ c.result = "open"
  BY <1>3
<1> HIDE DEF c, q, g
<1>5. RowTyped(q, g)
  BY <1>1, <1>2, <1>3 DEF RowTyped
<1>6. RowCounts(q, g)
  <2> SUFFICES ASSUME NEW i \in 1 .. Len(g)
               PROVE  g[i].attempt = q.attempts - (Len(g) - i)
    BY DEF RowCounts
  <2>1. CASE i = Len(g)
    BY <1>1, <1>2, <1>3, <1>4, <2>1
  <2>2. CASE i # Len(g)
    <3>1. i \in 1 .. Len(h) /\ g[i] = h[i]
      BY <1>1, <1>2, <2>2
    <3>2. h[i].attempt = r.attempts - (Len(h) - i)
      BY <3>1 DEF RowCounts, RowInv
    <3>3. \A a, m, j \in Int : (a + 1) - ((m + 1) - j) = a - (m - j)
      OBVIOUS
    <3>4. q.attempts - (Len(g) - i) = r.attempts - (Len(h) - i)
      <4>1. r.attempts \in Int /\ Len(h) \in Int /\ i \in Int
        BY <1>1
      <4>2. (r.attempts + 1) - ((Len(h) + 1) - i) = r.attempts - (Len(h) - i)
        BY <3>3, <4>1
      <4> QED
        BY <4>2, <1>2, <1>3
    <3> QED
      BY <3>1, <3>2, <3>4
  <2> QED
    BY <2>1, <2>2
<1>7. RowBudget(q, g)
  BY <1>1, <1>2, <1>3 DEF RowBudget, Null
<1>8. \A i \in 1 .. Len(h) : h[i].result \notin Ends
  BY DEF RowInv, RowEnd
<1>9. RowEnd(q, g)
  BY <1>1, <1>2, <1>3, <1>4, <1>8 DEF RowEnd, Ends
<1>10. RowLease(q, g)
  BY <1>2, <1>3, <1>4 DEF RowLease
<1>11. RowUnknown(q, g)
  BY <1>2, <1>4 DEF RowUnknown
<1> QED
  BY <1>5, <1>6, <1>7, <1>9, <1>10, <1>11 DEF RowInv, c, q, g

\* What is used of histories as sequences: their length and their entries,
LEMMA SeqFacts ==
    ASSUME NEW S, NEW s \in Seq(S)
    PROVE  /\ Len(s) \in Nat /\ DOMAIN s = 1 .. Len(s)
           /\ \A i \in 1 .. Len(s) : s[i] \in S
OBVIOUS

\* that an event starts without claims,
LEMMA NoClaims == ASSUME NEW S PROVE << >> \in Seq(S) /\ Len(<< >>) = 0
OBVIOUS

\* and what it is to change one of them.
LEMMA SeqExcept ==
    ASSUME NEW S, NEW s \in Seq(S), NEW i \in 1 .. Len(s), NEW x \in S
    PROVE  /\ [s EXCEPT ![i] = x] \in Seq(S) /\ Len([s EXCEPT ![i] = x]) = Len(s)
           /\ \A j \in 1 .. Len(s) : [s EXCEPT ![i] = x][j] = IF j = i THEN x ELSE s[j]
OBVIOUS

\* Changing the result of the newest claim changes nothing else in the history.
LEMMA ResultOfNewest ==
    ASSUME NEW h \in Seq(Claim), Len(h) # 0, NEW res \in Results
    PROVE  LET g == [h EXCEPT ![Len(h)].result = res] IN
           /\ g \in Seq(Claim) /\ Len(g) = Len(h)
           /\ \A i \in 1 .. Len(h) : /\ g[i].attempt = h[i].attempt
                                     /\ i # Len(h) => g[i] = h[i]
           /\ g[Len(h)].result = res
<1> DEFINE n == Len(h)
           c == [h[n] EXCEPT !.result = res]
           g == [h EXCEPT ![n].result = res]
<1>1. n \in 1 .. Len(h) /\ h[n] \in Claim
  BY SeqFacts
<1>2. c \in Claim /\ c.attempt = h[n].attempt /\ c.result = res
  BY <1>1 DEF Claim
<1>3. g = [h EXCEPT ![n] = c]
  OBVIOUS
<1>4. /\ g \in Seq(Claim) /\ Len(g) = Len(h)
      /\ \A i \in 1 .. Len(h) : g[i] = IF i = n THEN c ELSE h[i]
  BY <1>1, <1>2, <1>3, SeqExcept
<1> QED
  BY <1>1, <1>2, <1>4

\* Ending an open row by its newest claim keeps the row invariant.
LEMMA EndKeepsRow ==
    ASSUME NEW r, NEW h, RowInv(r, h), r.state = "open", Len(h) # 0,
           NEW res \in Ends,
           NEW q \in Row,
           q.state = IF res = "delivered" THEN "delivered" ELSE "dead",
           q.attempts = r.attempts, q.limit = r.limit, q.token = Null,
           res = "reaped" => r.attempts >= r.limit /\ q.error = "unknown_at_limit"
    PROVE  RowInv(q, [h EXCEPT ![Len(h)].result = res])
<1> DEFINE g == [h EXCEPT ![Len(h)].result = res]
<1>1. r \in Row /\ h \in Seq(Claim) /\ Len(h) \in Nat \ {0} /\ res \in Results
  BY SeqFacts DEF RowInv, RowTyped, Ends, Results
<1>2. /\ g \in Seq(Claim) /\ Len(g) = Len(h)
      /\ \A i \in 1 .. Len(h) : /\ g[i].attempt = h[i].attempt
                                /\ i # Len(h) => g[i] = h[i]
      /\ g[Len(h)].result = res
  BY <1>1, ResultOfNewest
<1> HIDE DEF g
<1>3. RowTyped(q, g)
  BY <1>1, <1>2 DEF RowTyped, Null
<1>4. RowCounts(q, g)
  BY <1>1, <1>2 DEF RowCounts, RowInv
<1>5. RowBudget(q, g)
  BY <1>1, <1>2 DEF RowBudget, RowInv
<1>6. q.state # "open"
  OBVIOUS
<1>7. RowEnd(q, g)
  BY <1>1, <1>2, <1>6 DEF RowEnd, RowInv, Ends
<1>8. RowLease(q, g) /\ RowUnknown(q, g)
  BY <1>1, <1>2, <1>6 DEF RowLease, RowUnknown
<1> QED
  BY <1>3, <1>4, <1>5, <1>7, <1>8 DEF RowInv, g

\* Granting a retry while an attempt is left keeps the row invariant.
LEMMA RetryKeepsRow ==
    ASSUME NEW r, NEW h, RowInv(r, h), r.state = "open", Len(h) # 0,
           r.attempts < r.limit,
           NEW q \in Row, q.state = "open",
           q.attempts = r.attempts, q.limit = r.limit, q.token = Null
    PROVE  RowInv(q, [h EXCEPT ![Len(h)].result = "retry"])
<1> DEFINE g == [h EXCEPT ![Len(h)].result = "retry"]
<1>1. /\ r \in Row /\ h \in Seq(Claim) /\ Len(h) \in Nat \ {0}
      /\ "retry" \in Results
      /\ r.attempts \in Nat /\ r.limit \in Nat
  BY SeqFacts DEF RowInv, RowTyped, Results, Row
<1>2. /\ g \in Seq(Claim) /\ Len(g) = Len(h)
      /\ \A i \in 1 .. Len(h) : /\ g[i].attempt = h[i].attempt
                                /\ i # Len(h) => g[i] = h[i]
      /\ g[Len(h)].result = "retry"
  BY <1>1, ResultOfNewest
<1> HIDE DEF g
<1>3. RowTyped(q, g)
  BY <1>1, <1>2 DEF RowTyped, Null
<1>4. RowCounts(q, g)
  BY <1>1, <1>2 DEF RowCounts, RowInv
<1>5. RowBudget(q, g)
  BY <1>1, <1>2 DEF RowBudget, RowInv
<1>6. RowEnd(q, g)
  BY <1>1, <1>2 DEF RowEnd, RowInv, Ends
<1>7. RowLease(q, g) /\ RowUnknown(q, g)
  BY <1>1, <1>2 DEF RowLease, RowUnknown
<1> QED
  BY <1>3, <1>4, <1>5, <1>6, <1>7 DEF RowInv, g

\* Deadlines are no part of the row invariant beyond their types.
LEMMA DeadlinesKeepRow ==
    ASSUME NEW r, NEW h, RowInv(r, h), NEW q \in Row,
           q.state = r.state, q.attempts = r.attempts, q.limit = r.limit,
           q.token = r.token, q.error = r.error
    PROVE  RowInv(q, h)
BY DEF RowInv, RowTyped, RowCounts, RowBudget, RowEnd, RowLease, RowUnknown

-----------------------------------------------------------------------------
(* The inductive step.                                                       *)

\* The six invariants of OutboxStore are what IInv says event by event.
LEMMA IInvImplies ==
    IInv => /\ TypeOK /\ AttemptsCountClaims /\ AttemptBudget
            /\ NewestClaimEnds /\ LeaseOnNewestClaim /\ ExhaustedIsUnknown
<1> SUFFICES ASSUME IInv
             PROVE  /\ TypeOK /\ AttemptsCountClaims /\ AttemptBudget
                    /\ NewestClaimEnds /\ LeaseOnNewestClaim /\ ExhaustedIsUnknown
  OBVIOUS
<1>1. \A e \in Events : RowInv(row[e], hist[e]) /\ row[e] \in Row
                        /\ hist[e] \in Seq(Claim)
  BY DEF IInv
<1>2. \A e \in Events : hist[e] # <<>> <=> Len(hist[e]) # 0
  BY <1>1, NoClaims
<1>3. TypeOK
  BY <1>1 DEF IInv, TypeOK, RowInv, RowTyped
<1>4. AttemptsCountClaims
  BY <1>1 DEF AttemptsCountClaims, RowInv, RowCounts
<1>5. AttemptBudget
  BY <1>1, <1>2 DEF AttemptBudget, RowInv, RowBudget
<1>6. NewestClaimEnds
  BY <1>1, <1>2 DEF NewestClaimEnds, RowInv, RowEnd, Ends, Row
<1>7. LeaseOnNewestClaim
  BY <1>1 DEF LeaseOnNewestClaim, RowInv, RowLease
<1>8. ExhaustedIsUnknown
  BY <1>1, <1>2 DEF ExhaustedIsUnknown, RowInv, RowUnknown
<1> QED
  BY <1>3, <1>4, <1>5, <1>6, <1>7, <1>8

\* Rows start unleased, unpinned and never claimed.
LEMMA InitIInv == Init => IInv
<1> SUFFICES ASSUME Init PROVE IInv
  OBVIOUS
<1>1. Elapsed \in Int /\ Elapsed \in Elapsed .. Lease
  BY StoreAssumption DEF Elapsed
<1>2. ASSUME NEW e \in Events
      PROVE  /\ row[e] \in Row /\ hist[e] = <<>> /\ row[e].state = "open"
             /\ row[e].limit = Null /\ row[e].token = Null
             /\ row[e].error = "none"
  <2>1. PICK a \in LegacyAttempts :
          row[e] = [state |-> "open", attempts |-> a, limit |-> Null,
                    token |-> Null, left |-> Elapsed, wait |-> Elapsed,
                    error |-> "none"]
    BY DEF Init
  <2>2. a \in Nat /\ Null \in Nat
    BY StoreAssumption DEF Null
  <2> QED
    BY <1>1, <2>1, <2>2 DEF Init, Row
<1>3. <<>> \in Seq(Claim) /\ Len(<<>>) = 0
  BY NoClaims
<1>4. ASSUME NEW e \in Events PROVE RowInv(row[e], hist[e])
  <2>1. /\ row[e] \in Row /\ hist[e] \in Seq(Claim) /\ Len(hist[e]) = 0
        /\ row[e].state = "open" /\ row[e].limit = Null /\ row[e].token = Null
        /\ row[e].error = "none"
    BY <1>2, <1>3, Zenon
  <2>2. RowTyped(row[e], hist[e])
    BY <2>1 DEF RowTyped, Null
  <2>3. RowCounts(row[e], hist[e]) /\ RowBudget(row[e], hist[e])
    BY <2>1 DEF RowCounts, RowBudget
  <2>4. RowEnd(row[e], hist[e]) /\ RowLease(row[e], hist[e])
    BY <2>1 DEF RowEnd, RowLease
  <2>5. RowUnknown(row[e], hist[e])
    BY <2>1 DEF RowUnknown
  <2> QED
    BY <2>2, <2>3, <2>4, <2>5 DEF RowInv
<1>5. row \in [Events -> Row] /\ hist \in [Events -> Seq(Claim)]
  <2>1. row = [e \in Events |-> row[e]] /\ hist = [e \in Events |-> <<>>]
    BY DEF Init
  <2> QED
    BY <1>2, <1>3, <2>1
<1>6. policy \in Policy /\ expected \in [Workers -> Policy]
  BY DEF Init, Policy
<1> QED
  BY <1>4, <1>5, <1>6 DEF IInv

\* A step that gives every event a row and a history satisfying RowInv, and
\* the policy and the deployments their types, keeps the invariant.
LEMMA PointwiseIInv ==
    ASSUME DOMAIN row' = Events, DOMAIN hist' = Events,
           row' = [e \in Events |-> row'[e]],
           hist' = [e \in Events |-> hist'[e]],
           policy' \in Policy, expected' \in [Workers -> Policy],
           \A e \in Events : RowInv(row'[e], hist'[e])
    PROVE  IInv'
<1>1. \A e \in Events : row'[e] \in Row /\ hist'[e] \in Seq(Claim)
  BY DEF RowInv, RowTyped
<1>2. row' \in [Events -> Row] /\ hist' \in [Events -> Seq(Claim)]
  BY <1>1
<1> QED
  BY <1>2 DEF IInv

\* Facts about the row a fenced call finds: its token is that of the newest
\* claim, which is still open.
LEMMA FencedFacts ==
    ASSUME IInv, NEW e \in Events, NEW token \in 1 .. Len(hist[e]),
           NEW lag \in Lags, Fenced(e, token, lag)
    PROVE  /\ row[e] \in Row /\ hist[e] \in Seq(Claim)
           /\ RowInv(row[e], hist[e])
           /\ row[e].state = "open" /\ token = Len(hist[e]) /\ Len(hist[e]) # 0
<1>1. row[e] \in Row /\ hist[e] \in Seq(Claim) /\ RowInv(row[e], hist[e])
  BY DEF IInv
<1>2. row[e].token = token /\ token # Null /\ Len(hist[e]) \in Nat
  BY <1>1, SeqFacts DEF Fenced, Null
<1> QED
  BY <1>1, <1>2 DEF Fenced, RowInv, RowLease

\* claim: the rows taken are claimed once more, the others are untouched.
LEMMA ClaimStep ==
    ASSUME IInv, NEW w \in Workers, NEW S \in SUBSET Events, NEW lag \in Lags,
           claim(w, S, lag)
    PROVE  IInv'
<1>1. ASSUME NEW e \in Events PROVE RowInv(row'[e], hist'[e])
  <2>1. RowInv(row[e], hist[e]) /\ row[e] \in Row /\ policy \in Policy
    BY DEF IInv
  <2>2. CASE e \notin S
    BY <2>1, <2>2 DEF claim
  <2>3. CASE e \in S
    <3> DEFINE lim == AttemptLimit(row[e], policy.max)
    <3>1. /\ row[e].state = "open" /\ row[e].attempts < lim
          /\ row'[e] = ClaimedRow(e, lag)
          /\ hist'[e] = Append(hist[e], NewClaim(e))
      BY <2>3 DEF claim, Claimable
    <3>2. lim \in Nat \ {0} /\ (row[e].limit # Null => lim = row[e].limit)
      BY <2>1, StoreAssumption, Zenon DEF AttemptLimit, Row, Policy, Null
    <3>3. Lease - lag \in Elapsed .. Lease
      BY StoreAssumption DEF Lags, Elapsed
    <3>4. RowInv([row[e] EXCEPT !.attempts = @ + 1, !.limit = lim,
                                !.token = Len(hist[e]) + 1, !.left = Lease - lag],
                 Append(hist[e], [attempt |-> row[e].attempts + 1, result |-> "open"]))
      <4> HIDE DEF lim
      <4> QED
        BY <2>1, <3>1, <3>2, <3>3, ClaimKeepsRow, Zenon
    <3> QED
      BY <3>1, <3>4 DEF ClaimedRow, NewClaim
  <2> QED
    BY <2>2, <2>3
<1>2. /\ DOMAIN row' = Events /\ row' = [e \in Events |-> row'[e]]
      /\ DOMAIN hist' = Events /\ hist' = [e \in Events |-> hist'[e]]
  BY DEF claim
<1>3. policy' \in Policy /\ expected' \in [Workers -> Policy]
  BY DEF claim, IInv
<1> QED
  BY <1>1, <1>2, <1>3, PointwiseIInv

\* reap_exhausted: every row taken ends with an unknown last attempt.
LEMMA ReapStep ==
    ASSUME IInv, NEW w \in Workers, NEW S \in SUBSET Events, NEW lag \in Lags,
           reap_exhausted(w, S, lag)
    PROVE  IInv'
<1>1. ASSUME NEW e \in Events PROVE RowInv(row'[e], hist'[e])
  <2>1. RowInv(row[e], hist[e]) /\ row[e] \in Row
    BY Zenon DEF IInv
  <2>2. CASE e \notin S
    BY <2>1, <2>2, Zenon DEF reap_exhausted
  <2>3. CASE e \in S
    <3> DEFINE q == [row[e] EXCEPT !.state = "dead", !.token = Null,
                                   !.left = Elapsed, !.error = "unknown_at_limit"]
    <3>1. /\ row[e].state = "open" /\ row[e].limit # Null
          /\ row[e].attempts >= row[e].limit
          /\ row'[e] = q
          /\ hist'[e] = [hist[e] EXCEPT ![Len(hist[e])].result = "reaped"]
      BY <2>3, Zenon DEF reap_exhausted, Reapable, LastAttempt
    <3>2. Len(hist[e]) # 0
      BY <2>1, <3>1 DEF RowInv, RowBudget
    <3>3. Elapsed \in Elapsed .. Lease
      BY StoreAssumption DEF Elapsed
    <3>4. /\ q \in Row /\ q.state = "dead" /\ q.attempts = row[e].attempts
          /\ q.limit = row[e].limit /\ q.token = Null
          /\ q.error = "unknown_at_limit"
      BY <2>1, <3>3, StoreAssumption, ZenonT(30) DEF Row, Null
    <3> HIDE DEF q
    <3>5. RowInv(q, [hist[e] EXCEPT ![Len(hist[e])].result = "reaped"])
      <4>1. "reaped" \in Ends /\ "reaped" # "delivered"
        BY DEF Ends
      <4> QED
        BY <2>1, <3>1, <3>2, <3>4, <4>1, EndKeepsRow
    <3> QED
      BY <3>1, <3>5, Zenon
  <2> QED
    BY <2>2, <2>3
<1>2. /\ DOMAIN row' = Events /\ row' = [e \in Events |-> row'[e]]
      /\ DOMAIN hist' = Events /\ hist' = [e \in Events |-> hist'[e]]
  BY Zenon DEF reap_exhausted
<1>3. policy' \in Policy /\ expected' \in [Workers -> Policy]
  BY Zenon DEF reap_exhausted, IInv
<1> QED
  BY <1>1, <1>2, <1>3, PointwiseIInv

\* A statement on one row keeps the invariant if it keeps that row's.
LEMMA OneRowStep ==
    ASSUME IInv, NEW e \in Events, NEW q, NEW g,
           row' = [row EXCEPT ![e] = q], hist' = [hist EXCEPT ![e] = g],
           UNCHANGED <<policy, expected>>, RowInv(q, g)
    PROVE  IInv'
<1>1. DOMAIN row = Events /\ DOMAIN hist = Events
  BY DEF IInv
<1>2. \A x \in Events : RowInv(row'[x], hist'[x])
  BY <1>1 DEF IInv
<1>3. /\ DOMAIN row' = Events /\ row' = [x \in Events |-> row'[x]]
      /\ DOMAIN hist' = Events /\ hist' = [x \in Events |-> hist'[x]]
  BY <1>1, Zenon
<1>4. policy' \in Policy /\ expected' \in [Workers -> Policy]
  BY DEF IInv
<1> QED
  BY <1>2, <1>3, <1>4, PointwiseIInv

\* renew: only the deadline of the fenced row moves.
LEMMA RenewStep ==
    ASSUME IInv, NEW e \in Events, NEW token \in 1 .. Len(hist[e]),
           NEW lag \in Lags, renew(e, token, lag)
    PROVE  IInv'
<1> DEFINE q == [row[e] EXCEPT !.left = Lease - lag]
<1>1. RowInv(row[e], hist[e]) /\ row[e] \in Row
  BY DEF IInv
<1>2. Lease - lag \in Elapsed .. Lease
  BY StoreAssumption DEF Lags, Elapsed
<1>3. /\ q \in Row /\ q.state = row[e].state /\ q.attempts = row[e].attempts
      /\ q.limit = row[e].limit /\ q.token = row[e].token
      /\ q.error = row[e].error
  BY <1>1, <1>2, SMTT(30) DEF Row
<1>4. row' = [row EXCEPT ![e] = q] /\ hist' = [hist EXCEPT ![e] = hist[e]]
  BY DEF renew, IInv
<1> HIDE DEF q
<1>5. RowInv(q, hist[e])
  BY <1>1, <1>3, DeadlinesKeepRow
<1> QED
  BY <1>4, <1>5, OneRowStep, Zenon DEF renew

\* settle_success: the fenced claim, the newest one, ends its event.
LEMMA SettleSuccessStep ==
    ASSUME IInv, NEW e \in Events, NEW token \in 1 .. Len(hist[e]),
           NEW lag \in Lags, settle_success(e, token, lag)
    PROVE  IInv'
<1> DEFINE q == [row[e] EXCEPT !.state = "delivered", !.token = Null,
                               !.left = Elapsed]
           g == [hist[e] EXCEPT ![Len(hist[e])].result = "delivered"]
<1>1. /\ row[e] \in Row /\ hist[e] \in Seq(Claim) /\ RowInv(row[e], hist[e])
      /\ row[e].state = "open" /\ token = Len(hist[e]) /\ Len(hist[e]) # 0
  BY FencedFacts DEF settle_success
<1>2. Elapsed \in Elapsed .. Lease
  BY StoreAssumption DEF Elapsed
<1>3. /\ q \in Row /\ q.state = "delivered" /\ q.attempts = row[e].attempts
      /\ q.limit = row[e].limit /\ q.token = Null
  BY <1>1, <1>2, Zenon DEF Row, Null
<1>4. row' = [row EXCEPT ![e] = q] /\ hist' = [hist EXCEPT ![e] = g]
  BY <1>1, Zenon DEF settle_success
<1> HIDE DEF q
<1>5. RowInv(q, g)
  <2>1. "delivered" \in Ends /\ "delivered" # "reaped"
    BY DEF Ends
  <2> QED
    BY <1>1, <1>3, <2>1, EndKeepsRow
<1> HIDE DEF g
<1> QED
  BY <1>4, <1>5, OneRowStep, Zenon DEF settle_success

\* settle_failure: the fenced claim waits for a retry or, at the limit, ends its event.
LEMMA SettleFailureStep ==
    ASSUME IInv, NEW e \in Events, NEW token \in 1 .. Len(hist[e]),
           NEW code \in ErrorCodes, NEW terminal \in BOOLEAN, NEW backoff \in Backoffs,
           NEW lag \in Lags, settle_failure(e, token, code, terminal, backoff, lag)
    PROVE  IInv'
<1> DEFINE final == terminal \/ LastAttempt(e)
           q == [row[e] EXCEPT !.state = IF final THEN "dead" ELSE "open",
                               !.wait = IF final THEN @ ELSE backoff - lag,
                               !.error = code,
                               !.token = Null, !.left = Elapsed]
           g == [hist[e] EXCEPT ![Len(hist[e])].result =
                                  IF final THEN "dead" ELSE "retry"]
<1>1. /\ row[e] \in Row /\ hist[e] \in Seq(Claim) /\ RowInv(row[e], hist[e])
      /\ row[e].state = "open" /\ token = Len(hist[e]) /\ Len(hist[e]) # 0
  BY FencedFacts DEF settle_failure
<1>2. /\ Elapsed \in Elapsed .. Lease
      /\ backoff - lag \in {n \in Int : n >= Elapsed}
  BY StoreAssumption DEF Elapsed, Lags
<1>3. row' = [row EXCEPT ![e] = q] /\ hist' = [hist EXCEPT ![e] = g]
  BY <1>1, ZenonT(30) DEF settle_failure
<1>4. /\ q \in Row /\ q.attempts = row[e].attempts /\ q.limit = row[e].limit
      /\ q.token = Null
      /\ q.state = IF final THEN "dead" ELSE "open"
  <2> HIDE DEF final
  <2> QED
    BY <1>1, <1>2, Zenon DEF Row, Null
<1> HIDE DEF q
<1>5. RowInv(q, g)
  <2>1. CASE final
    <3>1. g = [hist[e] EXCEPT ![Len(hist[e])].result = "dead"]
      BY <2>1, Zenon
    <3>2. "dead" \in Ends /\ "dead" # "delivered" /\ "dead" # "reaped"
      BY DEF Ends
    <3>3. q.state = "dead"
      BY <1>4, <2>1
    <3> HIDE DEF final, g
    <3>4. RowInv(q, [hist[e] EXCEPT ![Len(hist[e])].result = "dead"])
      BY <1>1, <1>4, <3>2, <3>3, EndKeepsRow, Zenon
    <3> QED
      BY <3>1, <3>4
  <2>2. CASE ~final
    <3>1. g = [hist[e] EXCEPT ![Len(hist[e])].result = "retry"]
      BY <2>2
    <3>2. row[e].attempts < row[e].limit
      BY <1>1, <2>2 DEF LastAttempt, Row
    <3>3. q.state = "open"
      BY <1>4, <2>2
    <3> HIDE DEF final, g
    <3>4. RowInv(q, [hist[e] EXCEPT ![Len(hist[e])].result = "retry"])
      BY <1>1, <1>4, <3>2, <3>3, RetryKeepsRow
    <3> QED
      BY <3>1, <3>4
  <2> QED
    BY <2>1, <2>2
<1> HIDE DEF g
<1> QED
  BY <1>3, <1>5, OneRowStep, Zenon DEF settle_failure

\* The passing of time: deadlines come nearer and nothing else changes.
LEMMA TickStep == ASSUME IInv, Tick PROVE IInv'
<1>1. ASSUME NEW e \in Events PROVE RowInv(row'[e], hist'[e])
  <2> DEFINE q == [row[e] EXCEPT !.left = CountDown(@), !.wait = CountDown(@)]
  <2>1. RowInv(row[e], hist[e]) /\ row[e] \in Row
    BY DEF IInv
  <2>2. Elapsed \in Int /\ Lease \in Int
    BY StoreAssumption DEF Elapsed
  <2>3. /\ CountDown(row[e].left) \in Elapsed .. Lease
        /\ CountDown(row[e].wait) \in {n \in Int : n >= Elapsed}
    BY <2>1, <2>2 DEF CountDown, Row
  <2>4. /\ q \in Row /\ q.state = row[e].state /\ q.attempts = row[e].attempts
        /\ q.limit = row[e].limit /\ q.token = row[e].token
        /\ q.error = row[e].error
    BY <2>1, <2>3, ZenonT(30) DEF Row
  <2>5. row'[e] = q /\ hist'[e] = hist[e]
    BY Zenon DEF Tick
  <2> HIDE DEF q
  <2> QED
    BY <2>1, <2>4, <2>5, DeadlinesKeepRow
<1>2. /\ DOMAIN row' = Events /\ row' = [e \in Events |-> row'[e]]
      /\ DOMAIN hist' = Events /\ hist' = [e \in Events |-> hist'[e]]
  BY ZenonT(30) DEF Tick, IInv
<1>3. policy' \in Policy /\ expected' \in [Workers -> Policy]
  BY Zenon DEF Tick, IInv
<1> QED
  BY <1>1, <1>2, <1>3, PointwiseIInv

\* Every step of the specification keeps the inductive invariant.
LEMMA NextIInv == IInv /\ [Next]_vars => IInv'
<1> SUFFICES ASSUME IInv, [Next]_vars PROVE IInv'
  OBVIOUS
<1>1. ASSUME NEW max \in MaxAttempts, Rollout(max) PROVE IInv'
  <2>1. policy.revision \in Nat
    BY DEF IInv, Policy
  <2> QED
    BY <1>1, <2>1 DEF Rollout, IInv, Policy
<1>2. ASSUME NEW w \in Workers, Redeploy(w) PROVE IInv'
  BY <1>2 DEF Redeploy, IInv
<1>3. CASE UNCHANGED vars
  BY <1>3 DEF vars, IInv
<1> QED
  BY <1>1, <1>2, <1>3, ClaimStep, ReapStep, RenewStep, SettleSuccessStep,
     SettleFailureStep, TickStep DEF Next

-----------------------------------------------------------------------------
(* The theorems.                                                             *)

\* The inductive invariant holds in every reachable state.
THEOREM Inductive == Spec => []IInv
BY InitIInv, NextIInv, PTL DEF Spec

\* The delivery columns always have their types and a lease token is always
\* one that a claim of this event was given.
THEOREM TypeCorrect == Spec => []TypeOK
BY Inductive, IInvImplies, PTL

\* However calls are delayed, repeated or lost, only the newest claim of an
\* event ends it, and it does so once.
THEOREM OneEnd == Spec => []NewestClaimEnds
BY Inductive, IInvImplies, PTL

\* Every claim costs exactly one attempt, and the attempts stay within the
\* limit pinned by the first claim.
THEOREM Budget == Spec => [](AttemptsCountClaims /\ AttemptBudget)
BY Inductive, IInvImplies, PTL

\* Only the newest claim can hold the lease, and the last claim of an open event
\* out of attempts has no result: whatever codes handlers report, reap_exhausted
\* never ends an event whose last result is on record.
THEOREM LeaseAndReap == Spec => [](LeaseOnNewestClaim /\ ExhaustedIsUnknown)
BY Inductive, IInvImplies, PTL

\* renew, settle_success and settle_failure write the row of the event they fence and
\* no other.
LEMMA OtherRowsStay ==
    ASSUME IInv, NEW x \in Events, NEW e \in Events, x # e,
           NEW lag \in Lags, NEW token \in 1 .. Len(hist[x]),
           \/ renew(x, token, lag)
           \/ settle_success(x, token, lag)
           \/ \E code \in ErrorCodes, terminal \in BOOLEAN, backoff \in Backoffs :
                 settle_failure(x, token, code, terminal, backoff, lag)
    PROVE  row'[e] = row[e] /\ hist'[e] = hist[e]
<1>1. DOMAIN row = Events /\ DOMAIN hist = Events
  BY Zenon DEF IInv
<1>2. CASE renew(x, token, lag)
  <2>1. hist' = hist /\ \E q : row' = [row EXCEPT ![x] = q]
    BY <1>2, Zenon DEF renew
  <2> QED
    BY <1>1, <2>1, Zenon
<1>3. CASE settle_success(x, token, lag)
  <2>1. \E q, g : row' = [row EXCEPT ![x] = q] /\ hist' = [hist EXCEPT ![x] = g]
    BY <1>3, Zenon DEF settle_success
  <2> QED
    BY <1>1, <2>1, Zenon
<1>4. ASSUME NEW code \in ErrorCodes, NEW terminal \in BOOLEAN, NEW backoff \in Backoffs,
             settle_failure(x, token, code, terminal, backoff, lag)
      PROVE  row'[e] = row[e] /\ hist'[e] = hist[e]
  <2>1. row'[e] = row[e]
    BY <1>1, <1>4, ZenonT(30) DEF settle_failure
  <2>2. hist'[e] = hist[e]
    BY <1>1, <1>4, ZenonT(30) DEF settle_failure
  <2> QED
    BY <2>1, <2>2, Zenon
<1> QED
  BY <1>2, <1>3, <1>4, Zenon

\* No call, however late, touches an event that has ended: its end, attempts,
\* error and history stay what they are.
THEOREM EndStays == Spec => EndIsFinal
<1>1. ASSUME IInv, [Next]_vars, NEW e \in Events, row[e].state # "open"
      PROVE  /\ row'[e].state = row[e].state
             /\ row'[e].attempts = row[e].attempts
             /\ row'[e].error = row[e].error
             /\ hist'[e] = hist[e]
  <2> USE <1>1
  <2>1. row[e] \in Row /\ DOMAIN row = Events /\ DOMAIN hist = Events
    BY Zenon DEF IInv
  <2>2. ASSUME NEW w \in Workers, NEW S \in SUBSET Events, NEW lag \in Lags,
               claim(w, S, lag) \/ reap_exhausted(w, S, lag)
        PROVE  row'[e] = row[e] /\ hist'[e] = hist[e]
    <3>1. e \notin S
      BY <2>2, ZenonT(30) DEF claim, reap_exhausted, Claimable, Reapable
    <3> QED
      BY <2>2, <3>1, ZenonT(30) DEF claim, reap_exhausted
  <2>3. ASSUME NEW x \in Events, NEW lag \in Lags, NEW token \in 1 .. Len(hist[x]),
               \/ renew(x, token, lag)
               \/ settle_success(x, token, lag)
               \/ \E code \in ErrorCodes, terminal \in BOOLEAN, backoff \in Backoffs :
                     settle_failure(x, token, code, terminal, backoff, lag)
        PROVE  row'[e] = row[e] /\ hist'[e] = hist[e]
    <3>1. x # e
      BY <2>3, ZenonT(30) DEF renew, settle_success, settle_failure, Fenced
    <3> QED
      BY <2>3, <3>1, OtherRowsStay, Zenon
  <2>4. CASE Tick
    BY <2>1, <2>4, ZenonT(30) DEF Tick, Row
  <2>5. CASE \/ \E max \in MaxAttempts : Rollout(max)
             \/ \E w \in Workers : Redeploy(w)
             \/ UNCHANGED vars
    BY <2>5 DEF Rollout, Redeploy, vars
  <2> QED
    BY <2>2, <2>3, <2>4, <2>5 DEF Next
<1>2. IInv /\ [Next]_vars =>
        [\A e \in Events : row[e].state # "open" =>
          /\ row'[e].state = row[e].state
          /\ row'[e].attempts = row[e].attempts
          /\ row'[e].error = row[e].error
          /\ hist'[e] = hist[e]]_vars
  BY <1>1
<1> QED
  BY <1>2, Inductive, PTL DEF Spec, EndIsFinal

\* The limit pinned by an event's first claim outlives every policy rollout.
THEOREM LimitStays == Spec => LimitIsPinned
<1>1. ASSUME IInv, [Next]_vars, NEW e \in Events, row[e].limit # Null
      PROVE  row'[e].limit = row[e].limit
  <2> USE <1>1
  <2>1. row[e] \in Row /\ DOMAIN row = Events
    BY Zenon DEF IInv
  <2>2. ASSUME NEW w \in Workers, NEW S \in SUBSET Events, NEW lag \in Lags,
               claim(w, S, lag)
        PROVE  row'[e].limit = row[e].limit
    BY <2>1, <2>2, ZenonT(30) DEF claim, ClaimedRow, AttemptLimit, Row
  <2>3. ASSUME NEW w \in Workers, NEW S \in SUBSET Events, NEW lag \in Lags,
               reap_exhausted(w, S, lag)
        PROVE  row'[e].limit = row[e].limit
    BY <2>1, <2>3, ZenonT(30) DEF reap_exhausted, Row
  <2>4. ASSUME NEW x \in Events, NEW lag \in Lags, NEW token \in 1 .. Len(hist[x]),
               \/ renew(x, token, lag)
               \/ settle_success(x, token, lag)
               \/ \E code \in ErrorCodes, terminal \in BOOLEAN, backoff \in Backoffs :
                     settle_failure(x, token, code, terminal, backoff, lag)
        PROVE  row'[e].limit = row[e].limit
    <3>1. CASE x # e
      BY <2>4, <3>1, OtherRowsStay, Zenon
    <3>2. CASE x = e /\ renew(e, token, lag)
      BY <2>1, <3>2 DEF renew, Row
    <3>3. CASE x = e /\ settle_success(e, token, lag)
      BY <2>1, <3>3 DEF settle_success, Row
    <3>4. ASSUME NEW code \in ErrorCodes, NEW terminal \in BOOLEAN, NEW backoff \in Backoffs,
                 settle_failure(e, token, code, terminal, backoff, lag)
          PROVE  row'[e].limit = row[e].limit
      BY <2>1, <3>4 DEF settle_failure, Row
    <3> QED
      BY <2>4, <3>1, <3>2, <3>3, <3>4, ZenonT(30)
  <2>5. CASE Tick
    BY <2>1, <2>5, Zenon DEF Tick, Row
  <2>6. CASE \/ \E max \in MaxAttempts : Rollout(max)
             \/ \E w \in Workers : Redeploy(w)
             \/ UNCHANGED vars
    BY <2>6 DEF Rollout, Redeploy, vars
  <2> QED
    BY <2>2, <2>3, <2>4, <2>5, <2>6 DEF Next
<1>2. IInv /\ [Next]_vars =>
        [\A e \in Events : row[e].limit # Null => row'[e].limit = row[e].limit]_vars
  BY <1>1
<1> QED
  BY <1>2, Inductive, PTL DEF Spec, LimitIsPinned

\* The claims of an event are the ones it had, and none of them becomes reaped.
NoneGrantedOrReaped(e) ==
    /\ Len(hist'[e]) = Len(hist[e])
    /\ \A i \in 1 .. Len(hist[e]) :
          hist'[e][i].result = "reaped" => hist[e][i].result = "reaped"

\* A settlement gives its claim a result other than "reaped" and changes no other.
LEMMA SettlesOnly ==
    ASSUME IInv, NEW e \in Events, NEW token \in 1 .. Len(hist[e]), NEW lag \in Lags,
           Fenced(e, token, lag), NEW res \in {"delivered", "dead", "retry"},
           hist'[e] = [hist[e] EXCEPT ![token].result = res]
    PROVE  NoneGrantedOrReaped(e)
<1>1. hist[e] \in Seq(Claim) /\ token = Len(hist[e]) /\ Len(hist[e]) # 0
  BY FencedFacts
<1>2. res \in Results /\ res # "reaped"
  BY DEF Results
<1>3. /\ hist'[e] = [hist[e] EXCEPT ![Len(hist[e])].result = res]
      /\ Len(hist[e]) \in Nat
  BY <1>1, SeqFacts
<1>4. /\ Len(hist'[e]) = Len(hist[e])
      /\ \A i \in 1 .. Len(hist[e]) : i # Len(hist[e]) => hist'[e][i] = hist[e][i]
      /\ hist'[e][Len(hist[e])].result = res
  BY <1>1, <1>2, <1>3, ResultOfNewest
<1> QED
  BY <1>2, <1>4, Zenon DEF NoneGrantedOrReaped

\* While an unpinned row has used up the current maximum, guard_policy refuses
\* every claim and every reap; settlements and renewals do neither.
LEMMA LegacyHolds ==
    ASSUME IInv, [Next]_vars, NEW x \in Events, LegacyExhausted(x), NEW e \in Events
    PROVE  NoneGrantedOrReaped(e)
<1>1. DOMAIN hist = Events
  BY Zenon DEF IInv
<1>2. ~ \E w \in Workers, S \in SUBSET Events, lag \in Lags :
           claim(w, S, lag) \/ reap_exhausted(w, S, lag)
  BY Zenon DEF claim, reap_exhausted, guard_policy
<1>3. hist'[e] = hist[e] => NoneGrantedOrReaped(e)
  BY Zenon DEF NoneGrantedOrReaped
<1>4. ASSUME NEW y \in Events, NEW lag \in Lags, NEW token \in 1 .. Len(hist[y]),
             \/ renew(y, token, lag)
             \/ settle_success(y, token, lag)
             \/ \E code \in ErrorCodes, terminal \in BOOLEAN, backoff \in Backoffs :
                   settle_failure(y, token, code, terminal, backoff, lag)
      PROVE  NoneGrantedOrReaped(e)
  <2>1. CASE y # e
    BY <1>3, <1>4, <2>1, OtherRowsStay, Zenon
  <2>2. CASE y = e /\ renew(e, token, lag)
    BY <1>3, <2>2, Zenon DEF renew
  <2>3. CASE y = e /\ settle_success(e, token, lag)
    <3>1. /\ Fenced(e, token, lag)
          /\ hist'[e] = [hist[e] EXCEPT ![token].result = "delivered"]
      BY <1>1, <2>3, Zenon DEF settle_success
    <3> QED
      BY <1>4, <2>3, <3>1, SettlesOnly, Zenon
  <2>4. ASSUME y = e, NEW code \in ErrorCodes, NEW terminal \in BOOLEAN,
               NEW backoff \in Backoffs,
               settle_failure(e, token, code, terminal, backoff, lag)
        PROVE  NoneGrantedOrReaped(e)
    <3>1. PICK res \in {"dead", "retry"} :
            hist' = [hist EXCEPT ![e][token].result = res]
      BY <2>4, Zenon DEF settle_failure
    <3>2. /\ Fenced(e, token, lag)
          /\ hist'[e] = [hist[e] EXCEPT ![token].result = res]
      BY <1>1, <2>4, <3>1, Zenon DEF settle_failure
    <3> QED
      BY <1>4, <2>4, <3>2, SettlesOnly, Zenon
  <2> QED
    BY <1>4, <2>1, <2>2, <2>3, <2>4, Zenon
<1>5. CASE \/ Tick \/ UNCHANGED vars
           \/ \E max \in MaxAttempts : Rollout(max)
           \/ \E w \in Workers : Redeploy(w)
  BY <1>3, <1>5, Zenon DEF Tick, Rollout, Redeploy, vars
<1> QED
  BY <1>2, <1>4, <1>5, Zenon DEF Next

\* A row from before the limits were pinned that is exhausted stops all claims and
\* reaps, on every worker, until an operator decides (guard_policy).
THEOREM LegacyStops == Spec => LegacyHoldsDelivery
<1> DEFINE A == (\E e \in Events : LegacyExhausted(e)) =>
                    \A e \in Events :
                        /\ Len(hist'[e]) = Len(hist[e])
                        /\ \A i \in 1 .. Len(hist[e]) :
                              hist'[e][i].result = "reaped" => hist[e][i].result = "reaped"
<1>1. IInv /\ [Next]_vars => A
  BY LegacyHolds, Zenon DEF NoneGrantedOrReaped
<1>2. LegacyHoldsDelivery <=> [][A]_vars
  BY DEF LegacyHoldsDelivery
<1> HIDE DEF A
<1> QED
  BY <1>1, <1>2, Inductive, PTL DEF Spec

=============================================================================

---------------------------- MODULE JobQueueProofs ----------------------------
(***************************************************************************)
(* Proofs, for any jobs, processes, slots, tokens and bounds, of the       *)
(* safety properties of JobQueue.  One inductive invariant carries them.   *)
(***************************************************************************)
EXTENDS JobQueue, TLAPS

-----------------------------------------------------------------------------
(* The inductive invariant. *)

\* A slot that works has a job, a token and a count of attempts.
ClaimsAreComplete ==
    \A s \in Slot : Working(s) =>
        /\ slot[s].job \in Job
        /\ slot[s].token \in Token
        /\ slot[s].attempts \in 1..MaxAttempts

\* No two claims that somebody still works on have the same token.
TokensAreUnique ==
    \A s1, s2 \in Slot :
        Working(s1) /\ Working(s2) /\ slot[s1].token = slot[s2].token => s1 = s2

\* s is the last to have claimed its job, whether or not its lease still lives.
Holds(s) ==
    /\ Working(s)
    /\ row[slot[s].job].state = "RUNNING"
    /\ row[slot[s].job].token = slot[s].token

\* What the last claimant remembers is what the row says, and it is about to
\* acknowledge only what is done.
HoldersAreRight ==
    \A s \in Slot : Holds(s) =>
        /\ row[slot[s].job].attempts = slot[s].attempts
        /\ slot[s].pc = "finishing" => slot[s].job \in delivered \cup obsolete

\* A failed job that an administrator may still retry has its payload.
FailedKeepsSecret == \A j \in Job : Retryable(j) => row[j].secret

\* Slots work for the batch of a process that is running one.
WorkIsInABatch == \A s \in Slot : slot[s].pc # "off" => loop[ProcessOf[s]] = "running"

IInv ==
    /\ TypeOK
    /\ ClaimsAreComplete
    /\ TokensAreUnique
    /\ HoldersAreRight
    /\ PendingIsClaimable
    /\ SecretsFollowTheJob
    /\ FailedKeepsSecret
    /\ SuccessIsEarned
    /\ WorkIsInABatch

-----------------------------------------------------------------------------
(* Types. *)

\* The delay of a retry never exceeds the cap.
LEMMA BackoffTyped == ASSUME NEW n \in 1..MaxAttempts PROVE Backoff(n) \in 0..MaxDelay
<1> DEFINE d == IF n - 1 < 6 THEN n - 1 ELSE 6
           delay == RetryTicks * 2 ^ d
<1>1. d \in {0, 1, 2, 3, 4, 5, 6}
  BY JobQueueAssumption
<1>2. /\ 2 ^ 0 \in Nat /\ 2 ^ 1 \in Nat /\ 2 ^ 2 \in Nat /\ 2 ^ 3 \in Nat
      /\ 2 ^ 4 \in Nat /\ 2 ^ 5 \in Nat /\ 2 ^ 6 \in Nat
  OBVIOUS
<1>3. 2 ^ d \in Nat
  <2> HIDE DEF d
  <2> QED
    BY <1>1, <1>2
<1>4. delay \in Nat
  <2> HIDE DEF d
  <2> QED
    BY <1>3, JobQueueAssumption
<1>5. Backoff(n) = IF delay < MaxDelay THEN delay ELSE MaxDelay
  BY DEF Backoff
<1> HIDE DEF delay
<1> QED
  BY <1>4, <1>5, JobQueueAssumption

\* An empty row is a row, and an idle slot a slot.
LEMMA EmptyTyped == NoRow \in Row /\ Off \in SlotState
<1>1. NoRow \in Row
  BY JobQueueAssumption, SMTT(60) DEF NoRow, Row, JobState
<1>2. Off \in SlotState
  BY JobQueueAssumption DEF Off, SlotState, SlotPc
<1> QED
  BY <1>1, <1>2

\* What the claim, the renewal and the acknowledgements write is a row.
LEMMA PutTyped ==
    ASSUME TypeOK, NEW j \in Job, NEW r \in Row, Put(j, r)
    PROVE  row' \in [Job -> Row] /\ row'[j] = r /\ \A i \in Job \ {j} : row'[i] = row[i]
BY DEF Put, TypeOK

\* What a slot goes on to do is written there and nowhere else.
LEMMA SetTyped ==
    ASSUME TypeOK, NEW s \in Slot, NEW r \in SlotState, Set(s, r)
    PROVE  slot' \in [Slot -> SlotState] /\ slot'[s] = r /\ \A u \in Slot \ {s} : slot'[u] = slot[u]
BY DEF Set, TypeOK

\* Renewing a lease changes nothing else of the row.
LEMMA ExtendLeaseEffect ==
    ASSUME TypeOK, NEW j \in Job, ExtendLease(j)
    PROVE  /\ row' \in [Job -> Row]
           /\ row'[j] = [row[j] EXCEPT !.lease = LeaseTicks]
           /\ \A i \in Job \ {j} : row'[i] = row[i]
<1>1. row[j] \in Row /\ LeaseTicks \in 0..LeaseTicks
  BY JobQueueAssumption DEF TypeOK
<1>2. [row[j] EXCEPT !.lease = LeaseTicks] \in Row
  BY <1>1 DEF Row
<1> QED
  BY <1>2, PutTyped DEF ExtendLease

\* The acknowledgement of a job.
LEMMA MarkSucceededEffect ==
    ASSUME TypeOK, NEW j \in Job, MarkSucceeded(j)
    PROVE  /\ row' \in [Job -> Row]
           /\ row'[j].state = "SUCCEEDED" /\ ~row'[j].secret /\ row'[j].error = "none"
           /\ \A i \in Job \ {j} : row'[i] = row[i]
<1> DEFINE r == [row[j] EXCEPT !.state = "SUCCEEDED", !.token = NoToken, !.lease = 0,
                               !.secret = FALSE, !.error = "none"]
<1>1. row[j] \in Row
  BY DEF TypeOK
<1>2. r \in Row
  <2>1. NoToken \in Token \cup {NoToken} /\ 0 \in 0..LeaseTicks
    BY JobQueueAssumption
  <2> QED
    BY <1>1, <2>1 DEF Row, JobState
<1>3. r.state = "SUCCEEDED" /\ ~r.secret /\ r.error = "none"
  BY <1>1 DEF Row
<1>4. Put(j, r)
  BY DEF MarkSucceeded
<1> HIDE DEF r
<1> QED
  BY <1>2, <1>3, <1>4, PutTyped

\* Going on to another place keeps what the slot remembers of its claim.
LEMMA MoveEffect ==
    ASSUME TypeOK, NEW s \in Slot, NEW pc \in SlotPc, Move(s, pc) \/ LoseLease(s, pc)
    PROVE  /\ slot' \in [Slot -> SlotState]
           /\ slot'[s].pc = pc /\ slot'[s].job = slot[s].job
           /\ slot'[s].token = slot[s].token /\ slot'[s].attempts = slot[s].attempts
           /\ \A u \in Slot \ {s} : slot'[u] = slot[u]
<1>1. slot[s] \in SlotState
  BY DEF TypeOK
<1>2. CASE Move(s, pc)
  <2> DEFINE r == [slot[s] EXCEPT !.pc = pc]
  <2>1. r \in SlotState
    BY <1>1 DEF SlotState
  <2>2. r.pc = pc /\ r.job = slot[s].job /\ r.token = slot[s].token /\ r.attempts = slot[s].attempts
    BY <1>1 DEF SlotState
  <2>3. Set(s, r)
    BY <1>2 DEF Move
  <2> HIDE DEF r
  <2> QED
    BY <2>1, <2>2, <2>3, SetTyped
<1>3. CASE LoseLease(s, pc)
  <2> DEFINE r == [slot[s] EXCEPT !.pc = pc, !.lost = TRUE]
  <2>1. r \in SlotState
    BY <1>1 DEF SlotState
  <2>2. r.pc = pc /\ r.job = slot[s].job /\ r.token = slot[s].token /\ r.attempts = slot[s].attempts
    BY <1>1 DEF SlotState
  <2>3. Set(s, r)
    BY <1>3 DEF LoseLease
  <2> HIDE DEF r
  <2> QED
    BY <2>1, <2>2, <2>3, SetTyped
<1> QED
  BY <1>2, <1>3

\* A job that is queued, or queued again, waits with all its attempts.
LEMMA QueueEffect ==
    ASSUME TypeOK, NEW j \in Job, Enqueue(j) \/ Retry(j)
    PROVE  /\ row' \in [Job -> Row]
           /\ row'[j].state = "PENDING" /\ row'[j].attempts = 0
           /\ Enqueue(j) => row'[j].secret
           /\ ~Enqueue(j) => row'[j].secret = row[j].secret
           /\ \A i \in Job \ {j} : row'[i] = row[i]
<1>1. CASE Enqueue(j)
  <2>1. PICK delay \in {0, MaxDelay}, expires \in BOOLEAN :
           Put(j, [NoRow EXCEPT !.state = "PENDING", !.delay = delay, !.secret = TRUE,
                                !.expires = expires, !.ttl = IF expires THEN TimeToLive ELSE 0])
    BY <1>1 DEF Enqueue
  <2> DEFINE ttl == IF expires THEN TimeToLive ELSE 0
             r == [NoRow EXCEPT !.state = "PENDING", !.delay = delay, !.secret = TRUE,
                                !.expires = expires, !.ttl = ttl]
  <2>2. delay \in 0..MaxDelay /\ ttl \in 0..TimeToLive
    BY JobQueueAssumption
  <2>3. Put(j, r)
    BY <2>1
  <2> HIDE DEF ttl
  <2>4. r \in Row
    BY <2>2, EmptyTyped DEF Row, JobState
  <2>5. r.state = "PENDING" /\ r.attempts = 0 /\ r.secret
    BY DEF NoRow
  <2> HIDE DEF r
  <2> QED
    BY <1>1, <2>3, <2>4, <2>5, PutTyped
<1>2. CASE Retry(j) /\ ~Enqueue(j)
  <2> DEFINE r == [row[j] EXCEPT !.state = "PENDING", !.attempts = 0, !.delay = 0, !.error = "none"]
  <2>1. row[j] \in Row /\ 0 \in 0..MaxAttempts /\ 0 \in 0..MaxDelay
    BY JobQueueAssumption DEF TypeOK
  <2>2. r \in Row /\ r.state = "PENDING" /\ r.attempts = 0 /\ r.secret = row[j].secret
    BY <2>1 DEF Row, JobState
  <2>3. Put(j, r)
    BY <1>2 DEF Retry
  <2> HIDE DEF r
  <2> QED
    BY <1>2, <2>2, <2>3, PutTyped
<1> QED
  BY <1>1, <1>2

\* A job that is purged is no row any more.
LEMMA PurgeEffect ==
    ASSUME TypeOK, NEW j \in Job, Purge(j)
    PROVE  /\ row' \in [Job -> Row] /\ row'[j].state = "none"
           /\ \A i \in Job \ {j} : row'[i] = row[i]
<1>1. NoRow.state = "none"
  BY DEF NoRow
<1> QED
  BY <1>1, EmptyTyped, PutTyped DEF Purge

\* Producers and operators keep the types.
LEMMA RowStepTyped ==
    ASSUME TypeOK, NEW j \in Job, Enqueue(j) \/ Retry(j) \/ Purge(j) \/ BecomesObsolete(j)
    PROVE  TypeOK'
<1>1. CASE Enqueue(j) \/ Retry(j)
  BY <1>1, QueueEffect DEF Enqueue, Retry, TypeOK
<1>2. CASE Purge(j)
  BY <1>2, PurgeEffect DEF Purge, TypeOK
<1>3. CASE BecomesObsolete(j)
  BY <1>3 DEF BecomesObsolete, TypeOK
<1> QED
  BY <1>1, <1>2, <1>3

\* A claim: what it writes into the row and what the slot remembers of it.
LEMMA ClaimEffect ==
    ASSUME TypeOK, NEW s \in Slot, Claim(s)
    PROVE  /\ row' \in [Job -> Row] /\ slot' \in [Slot -> SlotState]
           /\ Working(s)' /\ slot'[s].pc = "handling" /\ loop[ProcessOf[s]] = loop'[ProcessOf[s]]
           /\ \E j \in Job :
                /\ Claimable(j) /\ slot'[s].job = j
                /\ slot'[s].token \in FreshTokens(j) /\ slot'[s].attempts = row[j].attempts + 1
                /\ slot'[s].attempts \in 1..MaxAttempts
                /\ row'[j].state = "RUNNING" /\ row'[j].token = slot'[s].token
                /\ row'[j].attempts = slot'[s].attempts /\ row'[j].secret = row[j].secret
                /\ \A i \in Job \ {j} : row'[i] = row[i]
           /\ \A u \in Slot \ {s} : slot'[u] = slot[u]
<1>1. PICK j \in Job : Claimable(j) /\ \E t \in FreshTokens(j) :
         /\ Put(j, [row[j] EXCEPT !.state = "RUNNING", !.token = t, !.lease = LeaseTicks,
                                  !.attempts = row[j].attempts + 1])
         /\ Set(s, [Off EXCEPT !.pc = "handling", !.job = j, !.token = t,
                               !.attempts = row[j].attempts + 1])
  BY DEF Claim
<1>2. PICK t \in FreshTokens(j) :
         /\ Put(j, [row[j] EXCEPT !.state = "RUNNING", !.token = t, !.lease = LeaseTicks,
                                  !.attempts = row[j].attempts + 1])
         /\ Set(s, [Off EXCEPT !.pc = "handling", !.job = j, !.token = t,
                               !.attempts = row[j].attempts + 1])
  BY <1>1
<1> DEFINE n == row[j].attempts + 1
           newRow == [row[j] EXCEPT !.state = "RUNNING", !.token = t, !.lease = LeaseTicks,
                                    !.attempts = n]
           newSlot == [Off EXCEPT !.pc = "handling", !.job = j, !.token = t, !.attempts = n]
<1>3. row[j] \in Row /\ row[j].attempts \in 0..MaxAttempts
  BY DEF TypeOK, Row
<1>4. n \in 1..MaxAttempts /\ n \in 0..MaxAttempts /\ LeaseTicks \in 0..LeaseTicks
  BY <1>1, <1>3, JobQueueAssumption DEF Claimable
<1>5. t \in Token
  BY DEF FreshTokens
<1>6. Put(j, newRow) /\ Set(s, newSlot)
  BY <1>2
<1> HIDE DEF n
<1>7. /\ newRow \in Row /\ newRow.state = "RUNNING" /\ newRow.token = t /\ newRow.attempts = n
      /\ newRow.secret = row[j].secret
  BY <1>3, <1>4, <1>5 DEF Row, JobState
<1>8. /\ newSlot \in SlotState /\ newSlot.pc = "handling" /\ newSlot.job = j /\ newSlot.token = t
      /\ newSlot.attempts = n
  BY <1>4, <1>5, EmptyTyped DEF SlotState, SlotPc
<1> HIDE DEF newRow, newSlot
<1>9. /\ row' \in [Job -> Row] /\ row'[j] = newRow /\ \A i \in Job \ {j} : row'[i] = row[i]
  BY <1>6, <1>7, PutTyped
<1>10. /\ slot' \in [Slot -> SlotState] /\ slot'[s] = newSlot
       /\ \A u \in Slot \ {s} : slot'[u] = slot[u]
  BY <1>6, <1>8, SetTyped
<1>11. Working(s)'
  BY <1>8, <1>10 DEF Working
<1> QED
  BY <1>1, <1>4, <1>7, <1>8, <1>9, <1>10, <1>11 DEF Claim, n

\* A failed attempt: the job waits for the next one or has failed.
LEMMA FailEffect ==
    ASSUME TypeOK, ClaimsAreComplete, NEW s \in Slot, Fail(s), NEW j, j = slot[s].job
    PROVE  /\ j \in Job
           /\ row' \in [Job -> Row] /\ slot' \in [Slot -> SlotState] /\ slot'[s] = Off
           /\ \A u \in Slot \ {s} : slot'[u] = slot[u]
           /\ \/ UNCHANGED row
              \/ /\ Owns(s)
                 /\ row'[j].state = IF Exhausted(s) THEN "FAILED" ELSE "PENDING"
                 /\ row'[j].attempts = row[j].attempts /\ row'[j].secret = row[j].secret
                 /\ \A i \in Job \ {j} : row'[i] = row[i]
<1>1. j \in Job /\ slot[s].attempts \in 1..MaxAttempts
  BY DEF Fail, ClaimsAreComplete, Working
<1>2. /\ slot' \in [Slot -> SlotState] /\ slot'[s] = Off /\ \A u \in Slot \ {s} : slot'[u] = slot[u]
  BY EmptyTyped, SetTyped DEF Fail, TurnOff
<1>3. CASE UNCHANGED row
  BY <1>1, <1>2, <1>3 DEF TypeOK
<1>4. CASE ~UNCHANGED row
  <2> DEFINE st == IF Exhausted(s) THEN "FAILED" ELSE "PENDING"
             d == Backoff(slot[s].attempts)
             r == [row[j] EXCEPT !.state = st, !.delay = d, !.token = NoToken, !.lease = 0,
                                 !.error = "code"]
  <2>1. Owns(s) /\ Put(j, r)
    BY <1>4 DEF Fail
  <2>2. st \in JobState /\ d \in 0..MaxDelay /\ NoToken \in Token \cup {NoToken} /\ 0 \in 0..LeaseTicks
    BY <1>1, BackoffTyped, JobQueueAssumption DEF JobState
  <2>3. row[j] \in Row
    BY <1>1 DEF TypeOK
  <2> HIDE DEF st, d
  <2>4. r \in Row /\ r.state = st /\ r.attempts = row[j].attempts /\ r.secret = row[j].secret
    BY <2>2, <2>3 DEF Row
  <2> HIDE DEF r
  <2>5. row' \in [Job -> Row] /\ row'[j] = r /\ \A i \in Job \ {j} : row'[i] = row[i]
    BY <1>1, <2>1, <2>4, PutTyped
  <2> QED
    BY <1>1, <1>2, <2>1, <2>4, <2>5 DEF st
<1> QED
  BY <1>3, <1>4

\* What a slot does keeps the types.
LEMMA SlotStepTyped ==
    ASSUME TypeOK, ClaimsAreComplete, NEW s \in Slot,
           SlotStep(s) \/ RenewTimer(s) \/ StatementFails(s)
    PROVE  TypeOK'
<1>0. Working(s) => slot[s].job \in Job
  BY DEF ClaimsAreComplete
<1> USE DEF SlotPc
<1>1. CASE Claim(s)
  BY <1>1, ClaimEffect DEF Claim, TypeOK
<1>2. CASE ClaimNothing(s)
  <2>1. slot' \in [Slot -> SlotState]
    BY <1>2, EmptyTyped, SetTyped DEF ClaimNothing, TurnOff
  <2> QED
    BY <1>2, <2>1 DEF ClaimNothing, TypeOK
<1>3. CASE NothingToDo(s)
  <2>1. slot' \in [Slot -> SlotState]
    BY <1>3, MoveEffect DEF NothingToDo
  <2> QED
    BY <1>3, <2>1 DEF NothingToDo, TypeOK
<1>4. CASE Refuse(s)
  <2>1. PICK permanent \in BOOLEAN :
          Set(s, [slot[s] EXCEPT !.pc = "failing", !.permanent = permanent])
    BY <1>4 DEF Refuse
  <2>2. slot[s] \in SlotState
    BY DEF TypeOK
  <2>3. [slot[s] EXCEPT !.pc = "failing", !.permanent = permanent] \in SlotState
    BY <2>2 DEF SlotState
  <2>4. slot' \in [Slot -> SlotState]
    BY <2>1, <2>3, SetTyped
  <2> QED
    BY <1>4, <2>4 DEF Refuse, TypeOK
<1>5. CASE BeforeSideEffect(s)
  <2>1. slot[s].job \in Job
    BY <1>0, <1>5 DEF BeforeSideEffect, Working
  <2>2. row' \in [Job -> Row]
    BY <1>5, <2>1, ExtendLeaseEffect DEF BeforeSideEffect, TypeOK
  <2>3. slot' \in [Slot -> SlotState]
    BY <1>5, MoveEffect DEF BeforeSideEffect
  <2> QED
    BY <1>5, <2>2, <2>3 DEF BeforeSideEffect, TypeOK
<1>6. CASE SideEffect(s)
  <2>1. slot[s].job \in Job
    BY <1>0, <1>6 DEF SideEffect, Working
  <2>2. slot' \in [Slot -> SlotState]
    BY <1>6, MoveEffect DEF SideEffect
  <2> QED
    BY <1>6, <2>1, <2>2 DEF SideEffect, TypeOK
<1>7. CASE Complete(s)
  <2>1. slot[s].job \in Job
    BY <1>0, <1>7 DEF Complete, Working
  <2>2. row' \in [Job -> Row]
    BY <1>7, <2>1, MarkSucceededEffect DEF Complete, TypeOK
  <2>3. slot' \in [Slot -> SlotState]
    BY <1>7, EmptyTyped, SetTyped DEF Complete, TurnOff
  <2> QED
    BY <1>7, <2>2, <2>3 DEF Complete, TypeOK
<1>8. CASE Fail(s)
  BY <1>8, FailEffect DEF Fail, TypeOK
<1>9. CASE RenewTimer(s)
  <2>1. slot[s].job \in Job /\ slot[s].pc \in SlotPc
    BY <1>0, <1>9 DEF RenewTimer, Working
  <2>2. row' \in [Job -> Row]
    BY <1>9, <2>1, ExtendLeaseEffect DEF RenewTimer, TypeOK
  <2>3. slot' \in [Slot -> SlotState]
    BY <1>9, <2>1, MoveEffect DEF RenewTimer, TypeOK
  <2> QED
    BY <1>9, <2>2, <2>3 DEF RenewTimer, TypeOK
<1>10. CASE StatementFails(s)
  <2>1. faults' \in 0..MaxFaults
    BY <1>10, JobQueueAssumption DEF StatementFails, TypeOK
  <2>2. slot[s].pc = "finishing" => slot[s].job \in Job
    BY <1>0 DEF Working
  <2>3. row' \in [Job -> Row]
    BY <1>10, <2>2, MarkSucceededEffect DEF StatementFails, TypeOK
  <2>4. slot[s].pc \in SlotPc
    BY DEF TypeOK, SlotState
  <2>5. slot' \in [Slot -> SlotState]
    BY <1>10, <2>4, EmptyTyped, SetTyped, MoveEffect DEF StatementFails, TurnOff
  <2> QED
    BY <1>10, <2>1, <2>3, <2>5 DEF StatementFails, TypeOK
<1> QED
  BY <1>1, <1>2, <1>3, <1>4, <1>5, <1>6, <1>7, <1>8, <1>9, <1>10 DEF SlotStep

\* What one statement of recover() does to a row.
Recovered(j) ==
    \/ row'[j] = row[j]
    \/ /\ row[j].state = "RUNNING" /\ row'[j].state = "FAILED"
       /\ row'[j].secret = row[j].secret
    \/ /\ row'[j].state = "SUCCEEDED" /\ row'[j].error = "EXPIRED" /\ ~row'[j].secret
    \/ row[j].state = "FAILED" /\ row'[j].state = "FAILED" /\ Expired(j) /\ Expired(j)'

LEMMA RecoverEffect ==
    ASSUME TypeOK, NEW p \in Process, RecoverExhausted(p) \/ RecoverExpired(p) \/ ForgetSecrets(p)
    PROVE  row' \in [Job -> Row] /\ \A j \in Job : Recovered(j)
<1>0. row \in [Job -> Row] /\ NoToken \in Token \cup {NoToken}
  BY DEF TypeOK
<1>1. CASE RecoverExhausted(p)
  <2>1. \A j \in Job :
          LET r == [row[j] EXCEPT !.state = "FAILED", !.token = NoToken,
                                  !.error = "LEASE_RETRIES_EXHAUSTED"]
          IN  r \in Row /\ r.state = "FAILED" /\ r.secret = row[j].secret
    BY <1>0 DEF Row, JobState
  <2> QED
    BY <1>0, <1>1, <2>1 DEF RecoverExhausted, Recovered, OutOfAttempts, Abandoned
<1>2. CASE RecoverExpired(p)
  <2>1. \A j \in Job :
          LET r == [row[j] EXCEPT !.state = "SUCCEEDED", !.token = NoToken, !.secret = FALSE,
                                  !.error = "EXPIRED"]
          IN  r \in Row /\ r.state = "SUCCEEDED" /\ ~r.secret /\ r.error = "EXPIRED"
    BY <1>0 DEF Row, JobState
  <2> QED
    BY <1>0, <1>2, <2>1 DEF RecoverExpired, Recovered
<1>3. CASE ForgetSecrets(p)
  <2>1. \A j \in Job :
          LET r == [row[j] EXCEPT !.secret = FALSE]
          IN  r \in Row /\ r.state = row[j].state /\ r.expires = row[j].expires /\ r.ttl = row[j].ttl
    BY <1>0 DEF Row
  <2>2. row' \in [Job -> Row]
    BY <1>0, <1>3, <2>1 DEF ForgetSecrets
  <2>3. ASSUME NEW j \in Job PROVE Recovered(j)
    <3>1. CASE Forgettable(j)
      <4>1. row'[j] = [row[j] EXCEPT !.secret = FALSE]
        BY <1>3, <3>1 DEF ForgetSecrets
      <4>2. /\ row'[j].state = row[j].state /\ row'[j].expires = row[j].expires
            /\ row'[j].ttl = row[j].ttl
        BY <2>1, <4>1
      <4> QED
        BY <3>1, <4>2 DEF Forgettable, Expired, Recovered
    <3>2. CASE ~Forgettable(j)
      BY <1>3, <3>2 DEF ForgetSecrets, Recovered
    <3> QED
      BY <3>1, <3>2
  <2> QED
    BY <2>2, <2>3
<1> QED
  BY <1>1, <1>2, <1>3

\* Time changes no state, and what has expired stays expired.
LEMMA TickEffect ==
    ASSUME TypeOK, Tick
    PROVE  /\ row' \in [Job -> Row]
           /\ \A j \in Job :
                /\ row'[j].state = row[j].state /\ row'[j].token = row[j].token
                /\ row'[j].attempts = row[j].attempts /\ row'[j].secret = row[j].secret
                /\ row'[j].error = row[j].error /\ (Expired(j) => Expired(j)')
<1>1. ASSUME NEW j \in Job
      PROVE  /\ row'[j] \in Row
             /\ row'[j].state = row[j].state /\ row'[j].token = row[j].token
             /\ row'[j].attempts = row[j].attempts /\ row'[j].secret = row[j].secret
             /\ row'[j].error = row[j].error /\ (Expired(j) => Expired(j)')
  <2> DEFINE d == Less(row[j].delay)
             l == Less(row[j].lease)
             t == Less(row[j].ttl)
  <2>1. row'[j] = [row[j] EXCEPT !.delay = d, !.lease = l, !.ttl = t]
    BY DEF Tick
  <2>2. row[j] \in Row
    BY DEF TypeOK
  <2>3. row[j].delay \in 0..MaxDelay /\ row[j].lease \in 0..LeaseTicks /\ row[j].ttl \in 0..TimeToLive
    BY <2>2 DEF Row
  <2>4. /\ d \in 0..MaxDelay /\ l \in 0..LeaseTicks /\ t \in 0..TimeToLive
        /\ row[j].ttl = 0 => t = 0
    BY <2>3, JobQueueAssumption DEF Less
  <2> HIDE DEF d, l, t
  <2>5. row'[j] \in Row
    BY <2>1, <2>2, <2>4 DEF Row
  <2>6. /\ row'[j].state = row[j].state /\ row'[j].token = row[j].token
        /\ row'[j].attempts = row[j].attempts /\ row'[j].secret = row[j].secret
        /\ row'[j].error = row[j].error
        /\ row'[j].expires = row[j].expires /\ row'[j].ttl = t
    BY <2>1, <2>2 DEF Row
  <2> QED
    BY <2>4, <2>5, <2>6 DEF Expired
<1>2. row' = [j \in Job |-> row'[j]]
  BY DEF Tick
<1> QED
  BY <1>1, <1>2

\* What a process does keeps the types.
LEMMA LoopStepTyped ==
    ASSUME TypeOK, NEW p \in Process,
           LoopStep(p) \/ StartWorker(p) \/ StopWorker(p) \/ MaintenanceFails(p) \/ Crash(p)
    PROVE  TypeOK'
<1> USE DEF Goto, Resume, LoopPc
<1>1. CASE RecoverExhausted(p) \/ RecoverExpired(p) \/ ForgetSecrets(p)
  BY <1>1, RecoverEffect DEF RecoverExhausted, RecoverExpired, ForgetSecrets, TypeOK
<1>2. CASE StartBatch(p)
  <2>1. [Off EXCEPT !.pc = "claiming"] \in SlotState
    BY EmptyTyped DEF SlotState, SlotPc
  <2> QED
    BY <1>2, <2>1 DEF StartBatch, TypeOK
<1>3. CASE EndBatch(p) \/ Wake(p) \/ StartWorker(p) \/ StopWorker(p)
  BY <1>3 DEF EndBatch, Wake, StartWorker, StopWorker, TypeOK
<1>4. CASE MaintenanceFails(p)
  BY <1>4, JobQueueAssumption DEF MaintenanceFails, TypeOK
<1>5. CASE Crash(p)
  BY <1>5, EmptyTyped, JobQueueAssumption DEF Crash, TypeOK
<1> QED
  BY <1>1, <1>2, <1>3, <1>4, <1>5 DEF LoopStep

\* Every step keeps the types.
LEMMA StepTyped == ASSUME TypeOK, ClaimsAreComplete, [Next]_vars PROVE TypeOK'
<1>1. CASE UNCHANGED vars
  BY <1>1 DEF vars, TypeOK
<1>2. CASE Tick
  BY <1>2, TickEffect DEF Tick, TypeOK
<1> QED
  BY <1>1, <1>2, RowStepTyped, SlotStepTyped, LoopStepTyped DEF Next

-----------------------------------------------------------------------------
(* The steps keep the invariant. *)

ClaimsInv == ClaimsAreComplete /\ TokensAreUnique /\ HoldersAreRight

\* A step that claims nothing keeps the claims, if slots only go on or end, and
\* whoever still holds its job after it is right about it.
LEMMA ClaimsKept ==
    ASSUME IInv,
           \A s \in Slot : Working(s)' =>
               /\ Working(s)
               /\ slot'[s].job = slot[s].job
               /\ slot'[s].token = slot[s].token
               /\ slot'[s].attempts = slot[s].attempts,
           \A s \in Slot : Holds(s)' =>
               /\ row[slot[s].job].state = "RUNNING"
               /\ row[slot[s].job].token = row'[slot[s].job].token
               /\ row[slot[s].job].attempts = row'[slot[s].job].attempts
               /\ slot'[s].pc = "finishing" => slot[s].job \in delivered' \cup obsolete'
    PROVE  ClaimsInv'
<1>1. ClaimsAreComplete' /\ TokensAreUnique'
  BY DEF IInv, ClaimsAreComplete, TokensAreUnique
<1>2. \A s \in Slot : Holds(s)' => Holds(s)
  BY DEF Holds
<1>3. HoldersAreRight'
  BY <1>2 DEF IInv, HoldersAreRight, Holds
<1> QED
  BY <1>1, <1>3 DEF ClaimsInv

\* What the invariant says of one row.
JobInv(j) ==
    /\ row[j].state = "PENDING" => row[j].attempts < MaxAttempts
    /\ row[j].state \in {"PENDING", "RUNNING"} => row[j].secret
    /\ row[j].state = "SUCCEEDED" => ~row[j].secret
    /\ Retryable(j) => row[j].secret
    /\ row[j].state = "SUCCEEDED" /\ row[j].error # "EXPIRED" => j \in delivered \cup obsolete

\* The invariant, row by row, in the state before a step and in the one after it.
LEMMA RowsInv ==
    /\ IInv => ClaimsInv /\ \A j \in Job : JobInv(j)
    /\ TypeOK' /\ ClaimsInv' /\ WorkIsInABatch' /\ (\A j \in Job : JobInv(j)') => IInv'
BY DEF IInv, ClaimsInv, JobInv, PendingIsClaimable, SecretsFollowTheJob, FailedKeepsSecret,
       SuccessIsEarned

\* A row that is left alone stays in order, if what is done stays done.
LEMMA UntouchedRow ==
    ASSUME NEW j \in Job, JobInv(j), row'[j] = row[j],
           j \in delivered \cup obsolete => j \in delivered' \cup obsolete'
    PROVE  JobInv(j)'
BY DEF JobInv, Retryable, Expired

\* Queueing, retrying and deleting jobs, and whatever makes them obsolete.
LEMMA RowStepKeeps ==
    ASSUME IInv, TypeOK', NEW j \in Job, Enqueue(j) \/ Retry(j) \/ Purge(j) \/ BecomesObsolete(j)
    PROVE  IInv'
<1> USE RowsInv
<1>1. UNCHANGED <<slot, loop>>
  BY DEF Enqueue, Retry, Purge, BecomesObsolete
<1>2. WorkIsInABatch'
  BY <1>1 DEF IInv, WorkIsInABatch
<1>3. \A i \in Job \ {j} : /\ row'[i] = row[i]
                           /\ i \in delivered \cup obsolete => i \in delivered' \cup obsolete'
  BY QueueEffect, PurgeEffect DEF Enqueue, Retry, Purge, BecomesObsolete, IInv
<1>4. \A s \in Slot : Working(s)' => Working(s) /\ slot[s].job \in Job
  BY <1>1 DEF Working, IInv, ClaimsAreComplete
<1>5. CASE BecomesObsolete(j)
  <2>1. UNCHANGED row /\ obsolete \subseteq obsolete' /\ delivered' = delivered
    BY <1>5 DEF BecomesObsolete
  <2>2. ClaimsInv'
    BY <1>1, <2>1, <1>4, ClaimsKept DEF IInv, HoldersAreRight, Holds, Working
  <2> QED
    BY <1>2, <2>1, <2>2, UntouchedRow
<1>6. CASE Enqueue(j) \/ Retry(j) \/ Purge(j)
  <2>1. row'[j].state # "RUNNING"
    BY <1>6, QueueEffect, PurgeEffect DEF IInv
  <2>2. ASSUME NEW s \in Slot, Holds(s)' PROVE slot[s].job \in Job \ {j}
    BY <1>1, <1>4, <2>1, <2>2 DEF Holds
  <2>3. ClaimsInv'
    BY <1>1, <1>3, <1>4, <2>2, ClaimsKept DEF IInv, HoldersAreRight, Holds, Working
  <2>4. JobInv(j)'
    <3>1. CASE Enqueue(j) \/ Retry(j)
      <4>1. row'[j].state = "PENDING" /\ row'[j].attempts < MaxAttempts
        BY <3>1, QueueEffect, JobQueueAssumption DEF IInv
      <4>2. row'[j].secret
        <5>1. CASE Enqueue(j)
          BY <5>1, QueueEffect DEF IInv
        <5>2. CASE ~Enqueue(j)
          <6>1. Retryable(j) /\ row'[j].secret = row[j].secret
            BY <3>1, <5>2, QueueEffect DEF IInv, Retry
          <6> QED
            BY <6>1 DEF IInv, FailedKeepsSecret
        <5> QED
          BY <5>1, <5>2
      <4> QED
        BY <4>1, <4>2 DEF JobInv, Retryable
    <3>2. CASE Purge(j)
      BY <3>2, PurgeEffect DEF IInv, JobInv, Retryable
    <3> QED
      BY <1>6, <3>1, <3>2
  <2> QED
    BY <1>2, <1>3, <2>3, <2>4, UntouchedRow
<1> QED
  BY <1>5, <1>6

\* A claim: its token is new, so nobody else holds the job any more.
LEMMA ClaimKeeps ==
    ASSUME IInv, TypeOK', NEW s \in Slot, Claim(s)
    PROVE  IInv'
<1> USE RowsInv
<1>1. PICK j \in Job :
        /\ Claimable(j) /\ slot'[s].job = j
        /\ slot'[s].token \in FreshTokens(j) /\ slot'[s].attempts = row[j].attempts + 1
        /\ slot'[s].attempts \in 1..MaxAttempts
        /\ row'[j].state = "RUNNING" /\ row'[j].token = slot'[s].token
        /\ row'[j].attempts = slot'[s].attempts /\ row'[j].secret = row[j].secret
        /\ \A i \in Job \ {j} : row'[i] = row[i]
  BY ClaimEffect DEF IInv
<1>2. /\ Working(s)' /\ slot'[s].pc = "handling"
      /\ \A u \in Slot \ {s} : slot'[u] = slot[u]
  BY ClaimEffect DEF IInv
<1>3. /\ UNCHANGED <<loop, delivered, obsolete>> /\ slot[s].pc = "claiming" /\ ~Working(s)
  BY DEF Claim, Working
<1>4. \A u \in Slot \ {s} : Working(u)' <=> Working(u)
  BY <1>2 DEF Working
<1>5. /\ slot'[s].token \in Token
      /\ \A i \in Job : row[i].token # slot'[s].token
      /\ \A u \in Slot : slot[u].token # slot'[s].token
  BY <1>1 DEF FreshTokens
<1>6. ClaimsAreComplete'
  BY <1>1, <1>2, <1>4, <1>5 DEF IInv, ClaimsAreComplete
<1>7. TokensAreUnique'
  BY <1>2, <1>4, <1>5 DEF IInv, TokensAreUnique
<1>8. ASSUME NEW u \in Slot, Holds(u)', u # s PROVE Holds(u) /\ slot[u].job # j
  BY <1>1, <1>2, <1>4, <1>5, <1>8 DEF Holds, IInv, ClaimsAreComplete
<1>9. HoldersAreRight'
  BY <1>1, <1>2, <1>3, <1>4, <1>8 DEF IInv, HoldersAreRight, Holds, ClaimsAreComplete
<1>10. WorkIsInABatch'
  BY <1>2, <1>3 DEF IInv, WorkIsInABatch
<1>11. JobInv(j)'
  <2>1. row[j].secret
    BY <1>1 DEF Claimable, Abandoned, IInv, SecretsFollowTheJob
  <2> QED
    BY <1>1, <2>1 DEF JobInv, Retryable
<1> QED
  BY <1>1, <1>3, <1>6, <1>7, <1>9, <1>10, <1>11, UntouchedRow DEF ClaimsInv

\* Everything a slot or its timer does, apart from claiming a job.
GoesOn(s) ==
    \/ ClaimNothing(s) \/ NothingToDo(s) \/ Refuse(s) \/ BeforeSideEffect(s) \/ SideEffect(s)
    \/ Complete(s) \/ Fail(s) \/ RenewTimer(s) \/ StatementFails(s)

\* A slot goes on with the job it has claimed, or gives it up; it is about to
\* acknowledge only what is done.
LEMMA GoesOnSlot ==
    ASSUME TypeOK, ClaimsAreComplete, NEW s \in Slot, GoesOn(s)
    PROVE  /\ \A u \in Slot \ {s} : slot'[u] = slot[u]
           /\ \/ slot'[s] = Off
              \/ /\ Working(s) /\ Working(s)'
                 /\ slot'[s].job = slot[s].job
                 /\ slot'[s].token = slot[s].token
                 /\ slot'[s].attempts = slot[s].attempts
                 /\ \/ slot'[s].pc # "finishing"
                    \/ slot[s].job \in delivered' \cup obsolete'
<1> USE DEF SlotPc, Working
<1>1. ASSUME TurnOff(s) PROVE slot'[s] = Off /\ \A u \in Slot \ {s} : slot'[u] = slot[u]
  BY <1>1, EmptyTyped, SetTyped DEF TurnOff
<1>2. CASE ClaimNothing(s) \/ Complete(s) \/ Fail(s)
  BY <1>1, <1>2 DEF ClaimNothing, Complete, Fail
<1>3. CASE NothingToDo(s)
  BY <1>3, MoveEffect DEF NothingToDo
<1>4. CASE Refuse(s)
  <2>1. PICK permanent \in BOOLEAN :
          Set(s, [slot[s] EXCEPT !.pc = "failing", !.permanent = permanent])
    BY <1>4 DEF Refuse
  <2> DEFINE r == [slot[s] EXCEPT !.pc = "failing", !.permanent = permanent]
  <2>2. slot[s] \in SlotState
    BY DEF TypeOK
  <2>3. /\ r \in SlotState /\ r.pc = "failing" /\ r.job = slot[s].job
        /\ r.token = slot[s].token /\ r.attempts = slot[s].attempts
    BY <2>2 DEF SlotState
  <2>4. Set(s, r)
    BY <2>1
  <2> HIDE DEF r
  <2>5. slot'[s] = r /\ \A u \in Slot \ {s} : slot'[u] = slot[u]
    BY <2>3, <2>4, SetTyped
  <2> QED
    BY <1>4, <2>3, <2>5 DEF Refuse
<1>5. CASE BeforeSideEffect(s)
  BY <1>5, MoveEffect DEF BeforeSideEffect
<1>6. CASE SideEffect(s)
  <2>1. CASE delivered' = delivered \cup {slot[s].job} /\ Move(s, "finishing")
    BY <1>6, <2>1, MoveEffect DEF SideEffect
  <2>2. CASE Move(s, "failing")
    BY <1>6, <2>2, MoveEffect DEF SideEffect
  <2> QED
    BY <1>6, <2>1, <2>2 DEF SideEffect
<1>7. CASE RenewTimer(s)
  <2>1. CASE UNCHANGED slot
    BY <1>7, <2>1 DEF RenewTimer
  <2>2. CASE LoseLease(s, slot[s].pc)
    BY <1>7, <2>2, MoveEffect DEF RenewTimer
  <2> QED
    BY <1>7, <2>1, <2>2 DEF RenewTimer
<1>8. CASE StatementFails(s)
  <2>1. CASE TurnOff(s)
    BY <1>1, <2>1
  <2>2. CASE slot[s].pc \in {"handling", "effect"} /\ LoseLease(s, slot[s].pc)
    BY <2>2, MoveEffect
  <2>3. CASE slot[s].pc \in {"handling", "finishing"} /\ Move(s, "failing")
    BY <2>3, MoveEffect
  <2> QED
    BY <1>8, <2>1, <2>2, <2>3 DEF StatementFails
<1> QED
  BY <1>2, <1>3, <1>4, <1>5, <1>6, <1>7, <1>8 DEF GoesOn

\* Only the holder of a live lease changes a row, and only its own job's.
LEMMA GoesOnRow ==
    ASSUME TypeOK, ClaimsAreComplete, NEW s \in Slot, GoesOn(s), NEW j, j = slot[s].job,
           ~UNCHANGED row
    PROVE  /\ j \in Job /\ Working(s) /\ Owns(s)
           /\ \A i \in Job \ {j} : row'[i] = row[i]
           /\ \/ row'[j] = [row[j] EXCEPT !.lease = LeaseTicks]
              \/ /\ slot[s].pc = "finishing"
                 /\ row'[j].state = "SUCCEEDED" /\ ~row'[j].secret /\ row'[j].error = "none"
                 /\ slot'[s] # slot[s]
              \/ /\ row'[j].state = IF Exhausted(s) THEN "FAILED" ELSE "PENDING"
                 /\ row'[j].attempts = row[j].attempts /\ row'[j].secret = row[j].secret
                 /\ slot'[s] # slot[s]
<1> USE DEF Working, SlotPc
<1>0. Working(s) => j \in Job
  BY DEF ClaimsAreComplete
<1>1. CASE ClaimNothing(s) \/ NothingToDo(s) \/ Refuse(s) \/ SideEffect(s)
  BY <1>1 DEF ClaimNothing, NothingToDo, Refuse, SideEffect
<1>2. CASE BeforeSideEffect(s)
  BY <1>0, <1>2, ExtendLeaseEffect DEF BeforeSideEffect
<1>3. CASE RenewTimer(s)
  BY <1>0, <1>3, ExtendLeaseEffect DEF RenewTimer
<1>4. CASE Complete(s)
  <2>1. slot'[s].pc = "off"
    BY <1>4, EmptyTyped, SetTyped DEF Complete, TurnOff, Off
  <2> QED
    BY <1>0, <1>4, <2>1, MarkSucceededEffect DEF Complete
<1>5. CASE Fail(s)
  <2>1. slot'[s].pc = "off"
    BY <1>5, EmptyTyped, SetTyped DEF Fail, TurnOff, Off
  <2> QED
    BY <1>5, <2>1, FailEffect DEF Fail
<1>6. CASE StatementFails(s)
  BY <1>0, <1>6, MarkSucceededEffect, MoveEffect DEF StatementFails
<1> QED
  BY <1>1, <1>2, <1>3, <1>4, <1>5, <1>6 DEF GoesOn

\* Handling, acknowledging and giving up a job.
LEMMA GoesOnKeeps ==
    ASSUME IInv, TypeOK', NEW s \in Slot, GoesOn(s)
    PROVE  IInv'
<1> USE RowsInv
<1>0. PICK j : j = slot[s].job
  OBVIOUS
<1>1. /\ UNCHANGED loop /\ obsolete' = obsolete /\ delivered \subseteq delivered'
      /\ slot[s].pc # "off"
  BY DEF GoesOn, ClaimNothing, NothingToDo, Refuse, BeforeSideEffect, SideEffect, Complete,
         Fail, RenewTimer, StatementFails
<1>2. TypeOK /\ ClaimsAreComplete
  BY DEF IInv
<1>3. \A u \in Slot : Working(u)' =>
        /\ Working(u) /\ slot'[u].job = slot[u].job /\ slot'[u].token = slot[u].token
        /\ slot'[u].attempts = slot[u].attempts
        /\ slot'[u].pc = "finishing" => \/ slot[u].pc = "finishing" /\ u # s
                                        \/ slot[u].job \in delivered' \cup obsolete'
  BY <1>2, GoesOnSlot DEF Working, Off
<1>4. WorkIsInABatch'
  BY <1>1, <1>2, GoesOnSlot DEF IInv, WorkIsInABatch
<1>5. CASE UNCHANGED row
  <2>1. ClaimsInv'
    BY <1>1, <1>3, <1>5, ClaimsKept DEF IInv, HoldersAreRight, Holds
  <2> QED
    BY <1>1, <1>4, <1>5, <2>1, UntouchedRow
<1>6. CASE ~UNCHANGED row
  <2>1. /\ j \in Job /\ Working(s) /\ Owns(s)
        /\ \A i \in Job \ {j} : row'[i] = row[i]
        /\ \/ row'[j] = [row[j] EXCEPT !.lease = LeaseTicks]
           \/ /\ slot[s].pc = "finishing"
              /\ row'[j].state = "SUCCEEDED" /\ ~row'[j].secret /\ row'[j].error = "none"
           \/ /\ row'[j].state = IF Exhausted(s) THEN "FAILED" ELSE "PENDING"
              /\ row'[j].attempts = row[j].attempts /\ row'[j].secret = row[j].secret
    BY <1>0, <1>2, <1>6, GoesOnRow
  <2>2. Holds(s) /\ row[j].state = "RUNNING"
    BY <1>0, <2>1 DEF Owns, Leased, Holds
  <2>3. /\ row[j] \in Row
        /\ row[j].attempts = slot[s].attempts
        /\ row[j].attempts \in 1..MaxAttempts
        /\ slot[s].pc = "finishing" => j \in delivered \cup obsolete
        /\ row[j].secret
    BY <1>0, <1>2, <2>1, <2>2 DEF IInv, HoldersAreRight, ClaimsAreComplete, SecretsFollowTheJob, TypeOK
  <2>4. CASE row'[j] = [row[j] EXCEPT !.lease = LeaseTicks]
    <3>1. /\ row'[j].state = row[j].state /\ row'[j].token = row[j].token
          /\ row'[j].attempts = row[j].attempts /\ row'[j].secret = row[j].secret
      BY <2>3, <2>4 DEF Row
    <3>2. \A i \in Job : /\ row'[i].state = row[i].state /\ row'[i].token = row[i].token
                         /\ row'[i].attempts = row[i].attempts
      BY <2>1, <3>1
    <3>3. ClaimsInv'
      BY <1>1, <1>2, <1>3, <3>2, ClaimsKept DEF IInv, HoldersAreRight, Holds, ClaimsAreComplete
    <3>4. JobInv(j)'
      BY <2>2, <2>3, <3>1 DEF JobInv, Retryable
    <3> QED
      BY <1>1, <1>4, <2>1, <3>3, <3>4, UntouchedRow
  <2>5. CASE row'[j].state # "RUNNING"
    <3>1. \A u \in Slot : Holds(u)' => slot[u].job \in Job \ {j}
      BY <1>2, <1>3, <2>5 DEF Holds, ClaimsAreComplete
    <3>2. ClaimsInv'
      BY <1>1, <1>3, <2>1, <3>1, ClaimsKept DEF IInv, HoldersAreRight, Holds
    <3>3. JobInv(j)'
      <4>1. CASE /\ slot[s].pc = "finishing"
                 /\ row'[j].state = "SUCCEEDED" /\ ~row'[j].secret /\ row'[j].error = "none"
        BY <1>1, <2>3, <4>1 DEF JobInv, Retryable
      <4>2. CASE /\ row'[j].state = IF Exhausted(s) THEN "FAILED" ELSE "PENDING"
                 /\ row'[j].attempts = row[j].attempts /\ row'[j].secret = row[j].secret
        <5>1. row'[j].state = "PENDING" => row'[j].attempts < MaxAttempts
          BY <2>3, <4>2, JobQueueAssumption DEF Exhausted
        <5> QED
          BY <2>3, <4>2, <5>1 DEF JobInv, Retryable
      <4>3. row'[j] # [row[j] EXCEPT !.lease = LeaseTicks]
        <5>1. [row[j] EXCEPT !.lease = LeaseTicks].state = row[j].state
          BY <2>3 DEF Row
        <5> QED
          BY <2>2, <2>5, <5>1
      <4> QED
        BY <2>1, <4>1, <4>2, <4>3
    <3> QED
      BY <1>1, <1>4, <2>1, <3>2, <3>3, UntouchedRow
  <2>6. row'[j].state = "RUNNING" => row'[j] = [row[j] EXCEPT !.lease = LeaseTicks]
    BY <2>1
  <2> QED
    BY <2>4, <2>5, <2>6
<1> QED
  BY <1>5, <1>6

\* Maintenance, the batches, deployments and crashes.
LEMMA LoopKeeps ==
    ASSUME IInv, TypeOK', NEW p \in Process,
           LoopStep(p) \/ StartWorker(p) \/ StopWorker(p) \/ MaintenanceFails(p) \/ Crash(p)
    PROVE  IInv'
<1> USE RowsInv
<1>1. UNCHANGED <<delivered, obsolete>>
  BY DEF LoopStep, RecoverExhausted, RecoverExpired, ForgetSecrets, StartBatch, EndBatch, Wake,
         StartWorker, StopWorker, MaintenanceFails, Crash
<1>2. \A s \in Slot : ProcessOf[s] # p => slot'[s] = slot[s]
  BY DEF LoopStep, RecoverExhausted, RecoverExpired, ForgetSecrets, StartBatch, EndBatch, Wake,
         StartWorker, StopWorker, MaintenanceFails, Crash, IInv, TypeOK
<1>3. \A s \in Slot : ProcessOf[s] = p => slot'[s] = slot[s] \/ ~Working(s)'
  <2>1. CASE StartBatch(p)
    <3>1. [Off EXCEPT !.pc = "claiming"].pc = "claiming"
      BY DEF Off
    <3> QED
      BY <2>1, <3>1 DEF StartBatch, Working
  <2>2. CASE Crash(p)
    BY <2>2 DEF Crash, Working, Off
  <2>3. CASE UNCHANGED slot
    BY <2>3
  <2> QED
    BY <2>1, <2>2, <2>3 DEF LoopStep, RecoverExhausted, RecoverExpired, ForgetSecrets, EndBatch,
       Wake, StartWorker, StopWorker, MaintenanceFails
<1>4. \A s \in Slot : Working(s)' => slot'[s] = slot[s] /\ Working(s)
  BY <1>2, <1>3 DEF Working
<1>5. WorkIsInABatch'
  <2>1. \A q \in Process \ {p} : loop'[q] = loop[q]
    BY DEF LoopStep, RecoverExhausted, RecoverExpired, ForgetSecrets, StartBatch, EndBatch, Wake,
           StartWorker, StopWorker, MaintenanceFails, Crash, IInv, TypeOK, Goto, Resume
  <2>2. ASSUME NEW s \in Slot, ProcessOf[s] = p, slot'[s].pc # "off" PROVE loop'[p] = "running"
    <3>1. CASE StartBatch(p)
      BY <3>1 DEF StartBatch, Goto, IInv, TypeOK
    <3>2. CASE Crash(p)
      BY <2>2, <3>2 DEF Crash, Off
    <3>3. CASE EndBatch(p)
      BY <2>2, <3>3 DEF EndBatch, BatchOver, SlotsOf
    <3>4. CASE StopWorker(p)
      BY <2>2, <3>4 DEF StopWorker, IInv, WorkIsInABatch
    <3>5. CASE \/ RecoverExhausted(p) \/ RecoverExpired(p) \/ ForgetSecrets(p) \/ Wake(p)
               \/ StartWorker(p) \/ MaintenanceFails(p)
      BY <2>2, <3>5 DEF RecoverExhausted, RecoverExpired, ForgetSecrets, Wake, StartWorker,
                        MaintenanceFails, IInv, WorkIsInABatch
    <3> QED
      BY <3>1, <3>2, <3>3, <3>4, <3>5 DEF LoopStep
  <2> QED
    BY <1>2, <2>1, <2>2, JobQueueAssumption DEF IInv, WorkIsInABatch
<1>6. CASE UNCHANGED row
  <2>1. ClaimsInv'
    BY <1>1, <1>4, <1>6, ClaimsKept DEF IInv, HoldersAreRight, Holds
  <2> QED
    BY <1>1, <1>5, <1>6, <2>1, UntouchedRow
<1>7. CASE RecoverExhausted(p) \/ RecoverExpired(p) \/ ForgetSecrets(p)
  <2>1. \A j \in Job : Recovered(j)
    BY <1>7, RecoverEffect DEF IInv
  <2>2. \A j \in Job : row'[j].state = "RUNNING" => row'[j] = row[j]
    BY <2>1 DEF Recovered
  <2>3. ClaimsInv'
    BY <1>1, <1>4, <2>2, ClaimsKept DEF IInv, HoldersAreRight, Holds, ClaimsAreComplete
  <2>4. ASSUME NEW j \in Job PROVE JobInv(j)'
    <3>1. CASE row'[j] = row[j]
      BY <1>1, <3>1, UntouchedRow
    <3>2. CASE /\ row[j].state = "RUNNING" /\ row'[j].state = "FAILED"
               /\ row'[j].secret = row[j].secret
      BY <3>2 DEF JobInv, Retryable
    <3>3. CASE /\ row'[j].state = "SUCCEEDED" /\ row'[j].error = "EXPIRED" /\ ~row'[j].secret
      BY <3>3 DEF JobInv, Retryable
    <3>4. CASE row[j].state = "FAILED" /\ row'[j].state = "FAILED" /\ Expired(j) /\ Expired(j)'
      BY <3>4 DEF JobInv, Retryable
    <3> QED
      BY <2>1, <3>1, <3>2, <3>3, <3>4 DEF Recovered
  <2> QED
    BY <1>5, <2>3, <2>4
<1>8. UNCHANGED row \/ RecoverExhausted(p) \/ RecoverExpired(p) \/ ForgetSecrets(p)
  BY DEF LoopStep, StartBatch, EndBatch, Wake, StartWorker, StopWorker, MaintenanceFails, Crash
<1> QED
  BY <1>6, <1>7, <1>8

\* The clock.
LEMMA TickKeeps == ASSUME IInv, TypeOK', Tick PROVE IInv'
<1> USE RowsInv
<1>1. UNCHANGED <<slot, loop, delivered, obsolete>>
  BY DEF Tick
<1>2. \A j \in Job :
        /\ row'[j].state = row[j].state /\ row'[j].token = row[j].token
        /\ row'[j].attempts = row[j].attempts /\ row'[j].secret = row[j].secret
        /\ row'[j].error = row[j].error /\ (Expired(j) => Expired(j)')
  BY TickEffect DEF IInv
<1>3. ClaimsInv'
  BY <1>1, <1>2, ClaimsKept DEF IInv, HoldersAreRight, Holds, ClaimsAreComplete, Working
<1>4. WorkIsInABatch'
  BY <1>1 DEF IInv, WorkIsInABatch
<1>5. \A j \in Job : JobInv(j)'
  <2>1. ASSUME NEW j \in Job PROVE JobInv(j)'
    <3>1. Retryable(j)' => Retryable(j)
      BY <1>2 DEF Retryable
    <3> QED
      BY <1>1, <1>2, <3>1 DEF JobInv
  <2> QED
    BY <2>1
<1> QED
  BY <1>3, <1>4, <1>5

LEMMA InitInv == ASSUME Init PROVE IInv
<1>1. TypeOK
  BY EmptyTyped, JobQueueAssumption DEF Init, TypeOK, LoopPc
<1>2. \A s \in Slot : slot[s].pc = "off"
  BY DEF Init, Off
<1>3. \A j \in Job : row[j].state = "none"
  BY DEF Init, NoRow
<1> QED
  BY <1>1, <1>2, <1>3 DEF IInv, ClaimsAreComplete, TokensAreUnique, HoldersAreRight, Holds, Working,
     PendingIsClaimable, SecretsFollowTheJob, FailedKeepsSecret, Retryable, SuccessIsEarned,
     WorkIsInABatch

LEMMA StepInv == ASSUME IInv, [Next]_vars PROVE IInv'
<1>1. TypeOK'
  BY StepTyped DEF IInv
<1>2. CASE UNCHANGED vars
  BY <1>2 DEF vars, IInv, TypeOK, ClaimsAreComplete, TokensAreUnique, HoldersAreRight, Holds,
     Working, PendingIsClaimable, SecretsFollowTheJob, FailedKeepsSecret, Retryable, Expired,
     SuccessIsEarned, WorkIsInABatch
<1>3. ASSUME NEW s \in Slot, SlotStep(s) \/ RenewTimer(s) \/ StatementFails(s) PROVE IInv'
  BY <1>1, <1>3, ClaimKeeps, GoesOnKeeps DEF SlotStep, GoesOn
<1> QED
  BY <1>1, <1>2, <1>3, RowStepKeeps, LoopKeeps, TickKeeps DEF Next

-----------------------------------------------------------------------------
(* The theorems. *)

\* The inductive invariant holds in every reachable state.
THEOREM Invariance == Spec => []IInv
<1>1. Init => IInv
  BY InitInv
<1>2. IInv /\ [Next]_vars => IInv'
  BY StepInv
<1> QED
  BY <1>1, <1>2, PTL DEF Spec

\* Rows, slots and loops keep their types; no delay exceeds the cap of fail().
THEOREM TypeCorrect == Spec => []TypeOK
<1>1. IInv => TypeOK
  BY DEF IInv
<1> QED
  BY <1>1, Invariance, PTL

\* No two slots can acknowledge the same job: tokens in use are all different.
THEOREM OneOwnerAtATime == Spec => []OneOwner
<1>1. IInv => OneOwner
  BY DEF IInv, TokensAreUnique, OneOwner, Owns
<1> QED
  BY <1>1, Invariance, PTL

\* A waiting job always has an attempt left, and a job has its private payload
\* exactly as long as it may still need it.
THEOREM JobsStayRunnable == Spec => [](PendingIsClaimable /\ SecretsFollowTheJob)
<1>1. IInv => PendingIsClaimable /\ SecretsFollowTheJob
  BY DEF IInv
<1> QED
  BY <1>1, Invariance, PTL

\* A job that succeeded was done, or there was nothing left to do.
THEOREM SuccessMeansDone == Spec => []SuccessIsEarned
<1>1. IInv => SuccessIsEarned
  BY DEF IInv
<1> QED
  BY <1>1, Invariance, PTL

\* A stopped worker has drained its batch.
THEOREM StoppedIsDrained == Spec => []ShutdownDrains
<1>1. IInv => ShutdownDrains
  BY DEF IInv, WorkIsInABatch, ShutdownDrains, SlotsOf
<1> QED
  BY <1>1, Invariance, PTL

\* While a lease lives, only the slot that holds it ends or takes the job.
THEOREM LeasesFence == Spec => LeaseIsFenced
<1> DEFINE Fenced ==
      \A j \in Job : Leased(j) /\ (row'[j].state # "RUNNING" \/ row'[j].token # row[j].token) =>
         \E s \in Slot : Working(s) /\ slot[s].job = j /\ slot[s].token = row[j].token
                         /\ slot'[s] # slot[s]
<1>1. ASSUME IInv, [Next]_vars PROVE [Fenced]_vars
  <2>1. SUFFICES ASSUME NEW j \in Job, Leased(j),
                        row'[j].state # "RUNNING" \/ row'[j].token # row[j].token
                 PROVE  \E s \in Slot : Working(s) /\ slot[s].job = j
                                        /\ slot[s].token = row[j].token /\ slot'[s] # slot[s]
    OBVIOUS
  <2>2. row[j] \in Row /\ row[j].state = "RUNNING" /\ row[j].lease \in Nat /\ row[j].lease > 0
    BY <1>1, <2>1, JobQueueAssumption DEF IInv, TypeOK, Row, Leased
  <2>3. row'[j] # row[j]
    BY <2>1, <2>2
  <2>4. CASE UNCHANGED vars
    BY <2>3, <2>4 DEF vars
  <2>5. ASSUME NEW i \in Job, Enqueue(i) \/ Retry(i) \/ Purge(i) \/ BecomesObsolete(i) PROVE FALSE
    <3>1. row[i].state # "RUNNING" \/ UNCHANGED row
      BY <2>5 DEF Enqueue, Retry, Retryable, Purge, BecomesObsolete
    <3>2. i # j
      BY <2>2, <2>3, <3>1
    <3> QED
      BY <1>1, <2>3, <2>5, <3>2, QueueEffect, PurgeEffect DEF BecomesObsolete, IInv
  <2>6. ASSUME NEW s \in Slot, Claim(s) PROVE FALSE
    <3>1. PICK i \in Job : Claimable(i) /\ \A k \in Job \ {i} : row'[k] = row[k]
      BY <1>1, <2>6, ClaimEffect DEF IInv
    <3>2. i # j
      BY <2>2, <3>1 DEF Claimable, Abandoned
    <3> QED
      BY <2>3, <3>1, <3>2
  <2>7. ASSUME NEW s \in Slot, GoesOn(s)
        PROVE  Working(s) /\ slot[s].job = j /\ slot[s].token = row[j].token /\ slot'[s] # slot[s]
    <3>1. PICK i : i = slot[s].job
      OBVIOUS
    <3>2. /\ i \in Job /\ Working(s) /\ Owns(s)
          /\ \A k \in Job \ {i} : row'[k] = row[k]
          /\ row'[i] = [row[i] EXCEPT !.lease = LeaseTicks] \/ slot'[s] # slot[s]
      BY <1>1, <2>3, <2>7, <3>1, GoesOnRow DEF IInv
    <3>3. i = j
      BY <2>3, <3>2
    <3>4. row'[j] # [row[j] EXCEPT !.lease = LeaseTicks]
      <4>1. /\ [row[j] EXCEPT !.lease = LeaseTicks].state = row[j].state
            /\ [row[j] EXCEPT !.lease = LeaseTicks].token = row[j].token
        BY <2>2 DEF Row
      <4> QED
        BY <2>1, <2>2, <4>1
    <3> QED
      BY <3>1, <3>2, <3>3, <3>4 DEF Owns
  <2>8. ASSUME NEW p \in Process, LoopStep(p) \/ StartWorker(p) \/ StopWorker(p)
                                  \/ MaintenanceFails(p) \/ Crash(p)
        PROVE  FALSE
    <3>1. CASE UNCHANGED row
      BY <2>3, <3>1
    <3>2. CASE RecoverExhausted(p)
      <4>1. ~OutOfAttempts(j)
        BY <2>2 DEF OutOfAttempts, Abandoned
      <4>2. row'[j] = row[j]
        BY <3>2, <4>1 DEF RecoverExhausted
      <4> QED
        BY <2>3, <4>2
    <3>3. CASE RecoverExpired(p)
      <4>1. row[j].state # "PENDING" /\ ~Abandoned(j)
        BY <2>2 DEF Abandoned
      <4>2. row'[j] = row[j]
        BY <3>3, <4>1 DEF RecoverExpired
      <4> QED
        BY <2>3, <4>2
    <3>4. CASE ForgetSecrets(p)
      <4>1. ~Forgettable(j)
        BY <2>2 DEF Forgettable
      <4>2. row'[j] = row[j]
        BY <3>4, <4>1 DEF ForgetSecrets
      <4> QED
        BY <2>3, <4>2
    <3> QED
      BY <2>8, <3>1, <3>2, <3>3, <3>4 DEF LoopStep, StartBatch, EndBatch, Wake, StartWorker,
         StopWorker, MaintenanceFails, Crash
  <2>9. CASE Tick
    BY <1>1, <2>1, <2>2, <2>9, TickEffect DEF IInv
  <2> QED
    BY <1>1, <2>4, <2>5, <2>6, <2>7, <2>8, <2>9 DEF Next, SlotStep, GoesOn
<1>2. IInv /\ [Next]_vars => [Fenced]_vars
  BY <1>1
<1> QED
  BY <1>2, Invariance, PTL DEF Spec, LeaseIsFenced
=============================================================================

------------------------------- MODULE JobQueue -------------------------------
(***************************************************************************)
(* The durable job queue and its workers: job-queue.service.ts,            *)
(* background-worker.service.ts and the shape every handler of             *)
(* job-handler.service.ts has.  Each statement on the BackgroundJob table  *)
(* is one atomic step; everything between two statements is not.           *)
(*                                                                         *)
(* Time is relative: runAt, lockedUntil and expiresAt are the ticks left   *)
(* until they pass, so the model needs no clock and no bound on it.        *)
(***************************************************************************)
EXTENDS Naturals, FiniteSets

CONSTANTS
    Job,          \* job keys
    Process,      \* worker processes
    Slot,         \* places in their batches (WORKER_CONCURRENCY of each)
    ProcessOf,    \* the process of each slot
    Token,        \* lease tokens; a fresh one is one nobody holds any more
    NoToken,
    NoJob,
    MaxAttempts,  \* BackgroundJob.maxAttempts
    LeaseTicks,   \* WORKER_LEASE_MS
    RetryTicks,   \* the 30 seconds before the first retry
    MaxDelay,     \* the 30 minutes no delay exceeds
    TimeToLive,   \* expiresAt when a job is queued
    MaxFaults     \* bound: crashes and failed statements

ASSUME JobQueueAssumption ==
    /\ ProcessOf \in [Slot -> Process]
    /\ NoToken \notin Token
    /\ NoJob \notin Job
    /\ MaxAttempts \in Nat \ {0}
    /\ LeaseTicks \in Nat \ {0}
    /\ RetryTicks \in Nat \ {0}
    /\ MaxDelay \in Nat
    /\ TimeToLive \in Nat \ {0}
    /\ MaxFaults \in Nat

VARIABLES
    row,        \* the BackgroundJob table
    slot,       \* what each place in a batch is doing: process()
    loop,       \* where each process is in run()
    stopping,   \* BackgroundWorkerService.stopping
    delivered,  \* jobs whose side effect the provider has accepted
    obsolete,   \* jobs there is nothing left to do for: used, settled or deleted
    faults      \* crashes and failed statements so far

vars == <<row, slot, loop, stopping, delivered, obsolete, faults>>

JobState == {"none", "PENDING", "RUNNING", "SUCCEEDED", "FAILED"}
Row == [state : JobState, attempts : 0..MaxAttempts, delay : 0..MaxDelay,
        token : Token \cup {NoToken}, lease : 0..LeaseTicks,
        expires : BOOLEAN, ttl : 0..TimeToLive,
        secret : BOOLEAN, error : {"none", "code", "EXPIRED", "LEASE_RETRIES_EXHAUSTED"}]
SlotPc == {"off", "claiming", "handling", "effect", "finishing", "failing"}
SlotState == [pc : SlotPc, job : Job \cup {NoJob}, token : Token \cup {NoToken},
              attempts : 0..MaxAttempts, lost : BOOLEAN, permanent : BOOLEAN]
LoopPc == {"down", "recover", "expire", "forget", "batch", "running", "asleep"}

TypeOK ==
    /\ row \in [Job -> Row]
    /\ slot \in [Slot -> SlotState]
    /\ loop \in [Process -> LoopPc]
    /\ stopping \in [Process -> BOOLEAN]
    /\ delivered \in SUBSET Job
    /\ obsolete \in SUBSET Job
    /\ faults \in 0..MaxFaults

NoRow == [state |-> "none", attempts |-> 0, delay |-> 0, token |-> NoToken, lease |-> 0,
          expires |-> FALSE, ttl |-> 0, secret |-> FALSE, error |-> "none"]
Off == [pc |-> "off", job |-> NoJob, token |-> NoToken, attempts |-> 0,
        lost |-> FALSE, permanent |-> FALSE]

Init ==
    /\ row = [j \in Job |-> NoRow]
    /\ slot = [s \in Slot |-> Off]
    /\ loop = [p \in Process |-> "down"]
    /\ stopping = [p \in Process |-> TRUE]
    /\ delivered = {}
    /\ obsolete = {}
    /\ faults = 0

-----------------------------------------------------------------------------
(* The conditions of the statements. *)

Expired(j) == row[j].expires /\ row[j].ttl = 0
Leased(j) == row[j].state = "RUNNING" /\ row[j].lease > 0
Abandoned(j) == row[j].state = "RUNNING" /\ row[j].lease = 0

Claimable(j) ==
    /\ (row[j].state = "PENDING" /\ row[j].delay = 0) \/ Abandoned(j)
    /\ row[j].attempts < MaxAttempts
    /\ ~Expired(j)

\* Variant: a claim is recognised by its job only.
Owns_AnyToken(s) == Leased(slot[s].job)
\* WHERE id = ... AND state = 'RUNNING' AND "leaseToken" = ... AND "lockedUntil" > NOW()
Owns(s) == Leased(slot[s].job) /\ row[slot[s].job].token = slot[s].token

\* Variant: whoever takes over an abandoned job keeps its token.
FreshTokens_Inherited(j) ==
    IF row[j].token # NoToken THEN {row[j].token}
    ELSE Token \ ({row[i].token : i \in Job} \cup {slot[s].token : s \in Slot})
\* randomUUID(): not the token of any row or of any claim still remembered
FreshTokens(j) == Token \ ({row[i].token : i \in Job} \cup {slot[s].token : s \in Slot})

\* Variant: the delay is not capped.
Backoff_Uncapped(attempts) == RetryTicks * 2 ^ (attempts - 1)
\* 30 seconds doubled with every attempt, six times at most, up to 30 minutes
Backoff(attempts) ==
    LET doublings == IF attempts - 1 < 6 THEN attempts - 1 ELSE 6
        delay == RetryTicks * 2 ^ doublings
    IN  IF delay < MaxDelay THEN delay ELSE MaxDelay

Put(j, r) == row' = [row EXCEPT ![j] = r]
Set(s, r) == slot' = [slot EXCEPT ![s] = r]

-----------------------------------------------------------------------------
(* Producers and operators. *)

\* enqueueJob, schedule and scanPayments: a key that exists is left alone.
Enqueue(j) ==
    /\ row[j].state = "none"
    /\ \E delay \in {0, MaxDelay}, expires \in BOOLEAN :
         Put(j, [NoRow EXCEPT !.state = "PENDING", !.delay = delay, !.secret = TRUE,
                              !.expires = expires, !.ttl = IF expires THEN TimeToLive ELSE 0])
    /\ UNCHANGED <<slot, loop, stopping, delivered, obsolete, faults>>

\* Variant: an expired job is retried too.
Retryable_Expired(j) == row[j].state = "FAILED"
\* retry, by an administrator: failed and not expired
Retryable(j) == row[j].state = "FAILED" /\ ~Expired(j)
Retry(j) ==
    /\ Retryable(j)
    /\ Put(j, [row[j] EXCEPT !.state = "PENDING", !.attempts = 0, !.delay = 0, !.error = "none"])
    /\ UNCHANGED <<slot, loop, stopping, delivered, obsolete, faults>>

\* scanPayments deletes jobs that succeeded seven days ago.
Purge(j) ==
    /\ row[j].state = "SUCCEEDED"
    /\ Put(j, NoRow)
    /\ delivered' = delivered \ {j}
    /\ obsolete' = obsolete \ {j}
    /\ UNCHANGED <<slot, loop, stopping, faults>>

\* The entity of a job is used, settled or deleted elsewhere.
BecomesObsolete(j) ==
    /\ row[j].state # "none"
    /\ j \notin obsolete
    /\ obsolete' = obsolete \cup {j}
    /\ UNCHANGED <<row, slot, loop, stopping, delivered, faults>>

-----------------------------------------------------------------------------
(* process(): one claimed job in one slot. *)

Move(s, pc) == Set(s, [slot[s] EXCEPT !.pc = pc])
TurnOff(s) == Set(s, Off)

\* claim: the lease gets a fresh token, and the attempt is counted.
Claim(s) ==
    /\ slot[s].pc = "claiming"
    /\ ~stopping[ProcessOf[s]]
    /\ \E j \in {i \in Job : Claimable(i)} : \E t \in FreshTokens(j) :
         /\ Put(j, [row[j] EXCEPT !.state = "RUNNING", !.token = t, !.lease = LeaseTicks,
                                  !.attempts = row[j].attempts + 1])
         /\ Set(s, [Off EXCEPT !.pc = "handling", !.job = j, !.token = t,
                               !.attempts = row[j].attempts + 1])
    /\ UNCHANGED <<loop, stopping, delivered, obsolete, faults>>

ClaimNothing(s) ==
    /\ slot[s].pc = "claiming"
    /\ stopping[ProcessOf[s]] \/ \A j \in Job : ~Claimable(j)
    /\ TurnOff(s)
    /\ UNCHANGED <<row, loop, stopping, delivered, obsolete, faults>>

\* The renewal timer, and the renewal every side effect asks for first.
ExtendLease(j) == Put(j, [row[j] EXCEPT !.lease = LeaseTicks])
LoseLease(s, pc) == Set(s, [slot[s] EXCEPT !.pc = pc, !.lost = TRUE])

RenewTimer(s) ==
    /\ slot[s].pc \in {"handling", "effect"}
    /\ \/ Owns(s) /\ ExtendLease(slot[s].job) /\ UNCHANGED slot
       \/ ~Owns(s) /\ LoseLease(s, slot[s].pc) /\ UNCHANGED row
    /\ UNCHANGED <<loop, stopping, delivered, obsolete, faults>>

\* The handler finds nothing to do and returns.
NothingToDo(s) ==
    /\ slot[s].pc = "handling"
    /\ slot[s].job \in obsolete
    /\ Move(s, "finishing")
    /\ UNCHANGED <<row, loop, stopping, delivered, obsolete, faults>>

\* The handler refuses its payload, for good or until the next attempt.
Refuse(s) ==
    /\ slot[s].pc = "handling"
    /\ \E permanent \in BOOLEAN :
         Set(s, [slot[s] EXCEPT !.pc = "failing", !.permanent = permanent])
    /\ UNCHANGED <<row, loop, stopping, delivered, obsolete, faults>>

\* beforeSideEffect: go on only with a lease that has just been renewed.
BeforeSideEffect(s) ==
    /\ slot[s].pc = "handling"
    /\ slot[s].job \notin obsolete
    /\ \/ /\ ~slot[s].lost /\ Owns(s)
          /\ ExtendLease(slot[s].job)
          /\ Move(s, "effect")
       \/ /\ slot[s].lost \/ ~Owns(s)
          /\ LoseLease(s, "failing")
          /\ UNCHANGED row
    /\ UNCHANGED <<loop, stopping, delivered, obsolete, faults>>

\* Variant: the mailer's answer is not looked at.
SideEffect_AnswerIgnored(s) ==
    /\ slot[s].pc = "effect"
    /\ delivered' \in {delivered, delivered \cup {slot[s].job}}
    /\ Move(s, "finishing")
    /\ UNCHANGED <<row, loop, stopping, obsolete, faults>>

\* The mail, the provider or the database does it, or not, or does it and
\* reports an error.  The lease may have run out by now.
SideEffect(s) ==
    /\ slot[s].pc = "effect"
    /\ \/ delivered' = delivered \cup {slot[s].job} /\ Move(s, "finishing")
       \/ delivered' \in {delivered, delivered \cup {slot[s].job}} /\ Move(s, "failing")
    /\ UNCHANGED <<row, loop, stopping, obsolete, faults>>

MarkSucceeded(j) ==
    Put(j, [row[j] EXCEPT !.state = "SUCCEEDED", !.token = NoToken, !.lease = 0,
                          !.secret = FALSE, !.error = "none"])
\* complete, unless the lease is known to be lost
Complete(s) ==
    /\ slot[s].pc = "finishing"
    /\ \/ /\ ~slot[s].lost /\ Owns(s)
          /\ MarkSucceeded(slot[s].job)
       \/ /\ slot[s].lost \/ ~Owns(s)
          /\ UNCHANGED row
    /\ TurnOff(s)
    /\ UNCHANGED <<loop, stopping, delivered, obsolete, faults>>

\* Variant: one attempt too many before a job is given up.
Exhausted_OneMore(s) == slot[s].permanent \/ slot[s].attempts > MaxAttempts
Exhausted(s) == slot[s].permanent \/ slot[s].attempts >= MaxAttempts
\* fail, unless the lease is known to be lost
Fail(s) ==
    LET j == slot[s].job IN
    /\ slot[s].pc = "failing"
    /\ \/ /\ ~slot[s].lost /\ Owns(s)
          /\ Put(j, [row[j] EXCEPT !.state = IF Exhausted(s) THEN "FAILED" ELSE "PENDING",
                                   !.delay = Backoff(slot[s].attempts),
                                   !.token = NoToken, !.lease = 0, !.error = "code"])
       \/ /\ slot[s].lost \/ ~Owns(s)
          /\ UNCHANGED row
    /\ TurnOff(s)
    /\ UNCHANGED <<loop, stopping, delivered, obsolete, faults>>

\* A statement fails: a claim and a fail() end the slot's pass, a renewal by
\* the timer loses the lease, one by the handler fails it, and a complete()
\* that throws, committed or not, is followed by fail().
StatementFails(s) ==
    /\ faults < MaxFaults
    /\ \/ slot[s].pc \in {"claiming", "failing"} /\ TurnOff(s) /\ UNCHANGED row
       \/ slot[s].pc \in {"handling", "effect"} /\ LoseLease(s, slot[s].pc) /\ UNCHANGED row
       \/ slot[s].pc \in {"handling", "finishing"} /\ Move(s, "failing") /\ UNCHANGED row
       \/ slot[s].pc = "finishing" /\ ~slot[s].lost /\ Owns(s) /\ Move(s, "failing")
                                  /\ MarkSucceeded(slot[s].job)
    /\ faults' = faults + 1
    /\ UNCHANGED <<loop, stopping, delivered, obsolete>>

-----------------------------------------------------------------------------
(* run(): maintenance, a batch, a pause. *)

SlotsOf(p) == {s \in Slot : ProcessOf[s] = p}
Goto(p, pc) == loop' = [loop EXCEPT ![p] = pc]
\* Variant: nobody looks at stopping.
Resume_Always(p, next) == \E pc \in next : Goto(p, pc)
\* while (!stopping), and the pause is skipped when stopping
Resume(p, next) == \E pc \in IF stopping[p] THEN {"down"} ELSE next : Goto(p, pc)

StartWorker(p) ==
    /\ loop[p] = "down"
    /\ stopping' = [stopping EXCEPT ![p] = FALSE]
    /\ Goto(p, "recover")
    /\ UNCHANGED <<row, slot, delivered, obsolete, faults>>

\* stop(): waits for the loop, so the process is down when the loop has ended.
StopWorker(p) ==
    /\ loop[p] # "down"
    /\ ~stopping[p]
    /\ stopping' = [stopping EXCEPT ![p] = TRUE]
    /\ UNCHANGED <<row, slot, loop, delivered, obsolete, faults>>

\* recover, first statement: the last attempt's lease ran out.
\* Variant: only a job with more attempts than allowed.
OutOfAttempts_More(j) == Abandoned(j) /\ row[j].attempts > MaxAttempts
OutOfAttempts(j) == Abandoned(j) /\ row[j].attempts >= MaxAttempts
RecoverExhausted(p) ==
    /\ loop[p] = "recover"
    /\ row' = [j \in Job |->
         IF OutOfAttempts(j) THEN [row[j] EXCEPT !.state = "FAILED", !.token = NoToken,
                                                 !.error = "LEASE_RETRIES_EXHAUSTED"]
         ELSE row[j]]
    /\ Goto(p, "expire")
    /\ UNCHANGED <<slot, stopping, delivered, obsolete, faults>>

\* second statement: nobody will run an expired job
RecoverExpired(p) ==
    /\ loop[p] = "expire"
    /\ row' = [j \in Job |->
         IF Expired(j) /\ (row[j].state = "PENDING" \/ Abandoned(j))
         THEN [row[j] EXCEPT !.state = "SUCCEEDED", !.token = NoToken, !.secret = FALSE,
                             !.error = "EXPIRED"]
         ELSE row[j]]
    /\ Goto(p, "forget")
    /\ UNCHANGED <<slot, stopping, delivered, obsolete, faults>>

\* Variant: a failed job keeps its credentials for the investigation.
Forgettable_Never(j) == FALSE
\* third statement: credentials of failed jobs are not retained past expiry
Forgettable(j) == row[j].state = "FAILED" /\ Expired(j)
ForgetSecrets(p) ==
    /\ loop[p] = "forget"
    /\ row' = [j \in Job |-> IF Forgettable(j) THEN [row[j] EXCEPT !.secret = FALSE] ELSE row[j]]
    /\ Goto(p, "batch")
    /\ UNCHANGED <<slot, stopping, delivered, obsolete, faults>>

StartBatch(p) ==
    /\ loop[p] = "batch"
    /\ slot' = [s \in Slot |-> IF ProcessOf[s] = p THEN [Off EXCEPT !.pc = "claiming"] ELSE slot[s]]
    /\ Goto(p, "running")
    /\ UNCHANGED <<row, stopping, delivered, obsolete, faults>>

\* Variant: the batch is over as soon as one of its slots is (Promise.race).
BatchOver_Any(p) == \E s \in SlotsOf(p) : slot[s].pc = "off"
\* Promise.allSettled
BatchOver(p) == \A s \in SlotsOf(p) : slot[s].pc = "off"
EndBatch(p) ==
    /\ loop[p] = "running"
    /\ BatchOver(p)
    /\ Resume(p, {"asleep"})
    /\ UNCHANGED <<row, slot, stopping, delivered, obsolete, faults>>

\* The timer, or the wake-up from stop(); maintenance is due or not.
Wake(p) ==
    /\ loop[p] = "asleep"
    /\ Resume(p, {"recover", "batch"})
    /\ UNCHANGED <<row, slot, stopping, delivered, obsolete, faults>>

\* A maintenance statement fails: the pass is over.
MaintenanceFails(p) ==
    /\ faults < MaxFaults
    /\ loop[p] \in {"recover", "expire", "forget"}
    /\ Resume(p, {"asleep"})
    /\ faults' = faults + 1
    /\ UNCHANGED <<row, slot, stopping, delivered, obsolete>>

\* SIGKILL: what the process was doing is forgotten, its leases stay.
Crash(p) ==
    /\ faults < MaxFaults
    /\ loop[p] # "down"
    /\ slot' = [s \in Slot |-> IF ProcessOf[s] = p THEN Off ELSE slot[s]]
    /\ Goto(p, "down")
    /\ stopping' = [stopping EXCEPT ![p] = TRUE]
    /\ faults' = faults + 1
    /\ UNCHANGED <<row, delivered, obsolete>>

\* A tick of the database clock.
Less(n) == IF n = 0 THEN 0 ELSE n - 1
Tick ==
    /\ row' = [j \in Job |-> [row[j] EXCEPT !.delay = Less(row[j].delay),
                                            !.lease = Less(row[j].lease), !.ttl = Less(row[j].ttl)]]
    /\ row' # row
    /\ UNCHANGED <<slot, loop, stopping, delivered, obsolete, faults>>

-----------------------------------------------------------------------------
SlotStep(s) ==
    \/ Claim(s) \/ ClaimNothing(s) \/ NothingToDo(s) \/ Refuse(s) \/ BeforeSideEffect(s)
    \/ SideEffect(s) \/ Complete(s) \/ Fail(s)

LoopStep(p) ==
    \/ RecoverExhausted(p) \/ RecoverExpired(p) \/ ForgetSecrets(p)
    \/ StartBatch(p) \/ EndBatch(p) \/ Wake(p)

Next ==
    \/ \E j \in Job : Enqueue(j) \/ Retry(j) \/ Purge(j) \/ BecomesObsolete(j)
    \/ \E s \in Slot : SlotStep(s) \/ RenewTimer(s) \/ StatementFails(s)
    \/ \E p \in Process : LoopStep(p) \/ StartWorker(p) \/ StopWorker(p)
                          \/ MaintenanceFails(p) \/ Crash(p)
    \/ Tick

Spec == Init /\ [][Next]_vars

-----------------------------------------------------------------------------
(* Safety. *)

Working(s) == slot[s].pc \in {"handling", "effect", "finishing", "failing"}

\* At any time at most one slot of one process can acknowledge a job, whoever
\* crashed, paused past its lease or took the job over in between.
OneOwner ==
    \A s1, s2 \in Slot :
        Working(s1) /\ Working(s2) /\ slot[s1].job = slot[s2].job /\ Owns(s1) /\ Owns(s2) => s1 = s2

\* A job that waits can be claimed, once it is due: no sequence of failures,
\* lost leases, retries and expiries leaves it waiting with no attempt left.
PendingIsClaimable == \A j \in Job : row[j].state = "PENDING" => row[j].attempts < MaxAttempts

\* A job that may still run has the private payload it needs; one that
\* succeeded has given it up.
SecretsFollowTheJob ==
    \A j \in Job : /\ row[j].state \in {"PENDING", "RUNNING"} => row[j].secret
                   /\ row[j].state = "SUCCEEDED" => ~row[j].secret

\* A job that succeeded, other than by expiring, was done, or there was
\* nothing left to do: an acknowledgement never closes another attempt's work.
SuccessIsEarned ==
    \A j \in Job : row[j].state = "SUCCEEDED" /\ row[j].error # "EXPIRED" =>
        j \in delivered \cup obsolete

\* A worker that has stopped has abandoned none of its jobs half-way.
ShutdownDrains == \A p \in Process : loop[p] = "down" => \A s \in SlotsOf(p) : slot[s].pc = "off"

\* While a lease lives, the job leaves RUNNING only by its holder's hand, and
\* nobody else takes it over.
LeaseIsFenced ==
    [][\A j \in Job : Leased(j) /\ (row'[j].state # "RUNNING" \/ row'[j].token # row[j].token) =>
         \E s \in Slot : Working(s) /\ slot[s].job = j /\ slot[s].token = row[j].token
                         /\ slot'[s] # slot[s]]_vars

-----------------------------------------------------------------------------
(* Liveness.  Fairness: processes run and are restarted, handlers return    *)
(* (mail and provider calls have timeouts), maintenance is due again and    *)
(* again (nextMaintenanceAt), and time passes.                              *)
Maintain(p) == Wake(p) /\ loop'[p] = "recover"
Fairness ==
    /\ \A s \in Slot : WF_vars(SlotStep(s))
    /\ \A p \in Process : WF_vars(LoopStep(p)) /\ SF_vars(Maintain(p)) /\ WF_vars(StartWorker(p))
    /\ WF_vars(Tick)
FairSpec == Spec /\ Fairness

\* Unless workers are redeployed for ever, every queued job ends, succeeded or
\* failed, although they crash and lose their leases.
JobEnds ==
    <>[](\A p \in Process : loop[p] # "down" /\ ~stopping[p]) =>
        \A j \in Job : row[j].state = "PENDING" ~> row[j].state \in {"SUCCEEDED", "FAILED", "none"}

\* Unless workers are redeployed for ever, credentials do not outlive their
\* expiry for long, whatever became of the job.
ExpiredSecretsGo ==
    <>[](\A p \in Process : loop[p] # "down" /\ ~stopping[p]) =>
        \A j \in Job : row[j].secret /\ Expired(j) ~> ~row[j].secret

\* A worker told to stop stops.
StopEnds == \A p \in Process : stopping[p] ~> loop[p] = "down"
=============================================================================

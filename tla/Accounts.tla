-------------------------------- MODULE Accounts --------------------------------
(***************************************************************************)
(* Everything that writes the User row of one member: auth.service.ts      *)
(* (sessions, password resets), users.service.ts (deactivation, deletion), *)
(* admin.service.ts (moderation of reports), profiles.service.ts (profile  *)
(* edits) and the membership part of payments.service.ts.                  *)
(*                                                                         *)
(* Every operation reads the row, decides, and writes in a transaction     *)
(* that does not read it again.  A transaction that updates the rows of    *)
(* both User and Profile takes their locks one after the other, in the     *)
(* order of its statements (FirstLock, then Commit), and two of them may   *)
(* wait for each other; PostgreSQL then aborts one.  A rotation holds the  *)
(* lock of the refresh token it replaces between its two statements.       *)
(***************************************************************************)
EXTENDS Naturals, FiniteSets

CONSTANTS
    Request,    \* requests about this account being served at a time
    Token,      \* RefreshToken ids
    Kept,       \* the tokens that reach a browser which stays open
    Link,       \* PasswordResetToken ids
    Payment,    \* payments of membership, alone or with a ticket
    Mixes,      \* which kinds of requests arrive together, to explore
    None

ASSUME AccountsAssumption ==
    /\ IsFiniteSet(Payment)
    /\ Kept \subseteq Token
    /\ None \notin Request \cup Token \cup Link \cup Payment

VARIABLES
    mix,          \* the kinds of requests that arrive in this behaviour
    status,       \* User.accountStatus
    suspension,   \* User.suspendedUntil is in the future
    password,     \* who set User.passwordHash: the member, a reset link, the deletion
    months,       \* subscription periods until User.subscriptionEndsAt
    live,         \* Profile.discoveryLive
    token,        \* RefreshToken rows: their state, replacedByTokenId, and their login
    link,         \* PasswordResetToken rows
    payment,      \* Payment.status
    report,       \* UserReport.status of one report about the member
    request,      \* progress of each request
    userLock,     \* the open transaction that has updated the User row
    profileLock   \* the open transaction that has updated the Profile row

vars == <<mix, status, suspension, password, months, live, token, link, payment, report, request,
          userLock, profileLock>>

Statuses == {"ACTIVE", "DEACTIVATED", "SUSPENDED", "BANNED", "DELETED"}
TokenStates == {"none", "live", "rotating", "doomed", "revoked", "expired"}
NoToken == [state |-> "none", next |-> None, login |-> None]
TokenRow == [state : TokenStates, next : Token \cup {None}, login : Token \cup {None}]
LinkStates == {"none", "unused", "used", "expired"}
PaymentStates == {"none", "PENDING", "FAILED", "SUCCESS"}
ReportStates == {"none", "OPEN", "REVIEWED", "ACTIONED", "DISMISSED"}

\* The transactions that update Profile before User, and User before Profile.
ProfileFirst == {"deactivate", "reactivate", "erase", "remove"}
UserFirst == {"suspend", "ban", "restore", "edit"}
Moderation == {"suspend", "ban", "restore", "remove"}
Kinds == ProfileFirst \cup UserFirst \cup
         {"login", "refresh", "logout", "forgot", "reset", "report", "dismiss",
          "subscribe", "verify", "decline"}

Idle == [kind |-> None, pc |-> "idle", on |-> None, seen |-> 0]
Pc == {"idle", "begin", "locked", "rotating", "create", "extend", "wipe", "mark"}

Init ==
    /\ mix \in Mixes
    /\ status = "ACTIVE"
    /\ suspension = FALSE
    /\ password = "member"
    /\ months = 0
    /\ live = TRUE
    /\ token = [t \in Token |-> NoToken]
    /\ link = [l \in Link |-> "none"]
    /\ payment = [p \in Payment |-> "none"]
    /\ report = "none"
    /\ request = [r \in Request |-> Idle]
    /\ userLock = None
    /\ profileLock = None

-----------------------------------------------------------------------------
(* getAccountAccessBlock, and the narrower check of users.service.ts. *)

AccessBlocked == \/ status \in {"DELETED", "BANNED", "DEACTIVATED"}
                 \/ status = "SUSPENDED" /\ suspension
OutOfOwnHands == \/ status \in {"DELETED", "BANNED"}
                 \/ status = "SUSPENDED" /\ suspension

Fresh(t) == token[t].state = "none"

\* Bound: a request that will need a new row begins only while one is left for it.
Left(free, kinds) == Cardinality(free) > Cardinality({r \in Request : request[r].kind \in kinds})
TokensLeft == Left({t \in Token : Fresh(t)}, {"login", "refresh"})

\* updateMany over the tokens that are not revoked.  It waits for a rotation that
\* holds one of them, and revokes that one too if the rotation is rolled back.
Revoke(state) ==
    CASE state = "live" -> "revoked"
      [] state = "rotating" -> "doomed"
      [] OTHER -> state
RevokeAll == token' = [t \in Token |-> [token[t] EXCEPT !.state = Revoke(@)]]
CreateToken(t, login) == token' = [token EXCEPT ![t] = [state |-> "live", next |-> None, login |-> login]]

Enter(r, kind, pc, on, seen) ==
    request' = [request EXCEPT ![r] = [kind |-> kind, pc |-> pc, on |-> on, seen |-> seen]]
Continue(r, pc) == request' = [request EXCEPT ![r].pc = pc]
Finish(r) == request' = [request EXCEPT ![r] = Idle]
Waits(r, kind, pc) == request[r].kind = kind /\ request[r].pc = pc
Arrives(r, kind) == request[r] = Idle /\ kind \in mix

account == <<status, suspension, password, months, live>>
locks == <<userLock, profileLock>>

-----------------------------------------------------------------------------
(* Sessions. *)

\* login: the password and DELETED are checked before the token is created.  A
\* banned member may log in, again and again.
LoginStart(r) ==
    /\ Arrives(r, "login")
    /\ status # "DELETED"
    /\ TokensLeft
    /\ Enter(r, "login", "begin", None, 0)
    /\ UNCHANGED <<mix, account, token, link, payment, report, locks>>

LoginIssue(r, t) ==
    /\ Waits(r, "login", "begin")
    /\ Fresh(t)
    /\ CreateToken(t, t)
    /\ Finish(r)
    /\ UNCHANGED <<mix, account, link, payment, report, locks>>

\* refresh, up to its transaction: a permanent block revokes every session, a
\* suspension only refuses, and a deactivated member may refresh.
RefreshStart(r, t) ==
    /\ Arrives(r, "refresh")
    /\ token[t].state \in {"live", "rotating", "doomed"}
    /\ ~AccessBlocked \/ status = "DEACTIVATED"
    /\ TokensLeft
    /\ Enter(r, "refresh", "begin", t, 0)
    /\ UNCHANGED <<mix, account, token, link, payment, report, locks>>

\* Mutant: a banned member's token is refused and left as it is.
RefreshBlocked_OnlyRefuses(t) ==
    /\ "refresh" \in mix
    /\ token[t].state \in {"live", "rotating", "doomed"}
    /\ status \in {"DELETED", "BANNED"}
    /\ UNCHANGED vars

RefreshBlocked(t) ==
    /\ "refresh" \in mix
    /\ token[t].state \in {"live", "rotating", "doomed"}
    /\ status \in {"DELETED", "BANNED"}
    /\ RevokeAll
    /\ UNCHANGED <<mix, account, link, payment, report, request, locks>>

\* Mutant: the count of the update that revokes the old token is not looked at.
RefreshRotate_Unconditional(r) ==
    /\ Waits(r, "refresh", "begin")
    /\ token[request[r].on].state \notin {"rotating", "doomed"}
    /\ token' = [token EXCEPT ![request[r].on].state = "rotating"]
    /\ Continue(r, "rotating")
    /\ UNCHANGED <<mix, account, link, payment, report, locks>>

\* The conditional update that revokes the old token; it waits for another
\* rotation of the same token and then finds nothing to update.
RefreshRotate(r) ==
    /\ Waits(r, "refresh", "begin")
    /\ LET t == request[r].on IN
        /\ token[t].state \notin {"rotating", "doomed"}
        /\ \/ /\ token[t].state = "live"
              /\ token' = [token EXCEPT ![t].state = "rotating"]
              /\ Continue(r, "rotating")
           \/ /\ token[t].state # "live"
              /\ Finish(r)
              /\ UNCHANGED token
    /\ UNCHANGED <<mix, account, link, payment, report, locks>>

\* The rest of the transaction: the next token, and the link to it.
RefreshReplace(r, t) ==
    /\ Waits(r, "refresh", "rotating")
    /\ Fresh(t)
    /\ LET old == request[r].on IN
        token' = [token EXCEPT ![old].state = "revoked", ![old].next = t,
                               ![t] = [state |-> "live", next |-> None, login |-> token[old].login]]
    /\ Finish(r)
    /\ UNCHANGED <<mix, account, link, payment, report, locks>>

RefreshRollsBack(r) ==
    /\ Waits(r, "refresh", "rotating")
    /\ token' = [token EXCEPT ![request[r].on].state = IF @ = "rotating" THEN "live" ELSE "revoked"]
    /\ Finish(r)
    /\ UNCHANGED <<mix, account, link, payment, report, locks>>

Logout(t) ==
    /\ "logout" \in mix
    /\ token' = [token EXCEPT ![t].state = Revoke(@)]
    /\ UNCHANGED <<mix, account, link, payment, report, request, locks>>

TokenExpires(t) ==
    /\ "refresh" \in mix
    /\ token[t].state = "live"
    /\ token' = [token EXCEPT ![t].state = "expired"]
    /\ UNCHANGED <<mix, account, link, payment, report, request, locks>>

-----------------------------------------------------------------------------
(* Password resets. *)

ForgotStart(r) ==
    /\ Arrives(r, "forgot")
    /\ status # "DELETED"
    /\ Left({l \in Link : link[l] = "none"}, {"forgot"})
    /\ Enter(r, "forgot", "begin", None, 0)
    /\ UNCHANGED <<mix, account, token, link, payment, report, locks>>

\* One transaction uses up the older links, and then creates the next one; two of
\* them do not see each other's.
ForgotUse(r) ==
    /\ Waits(r, "forgot", "begin")
    /\ link' = [l \in Link |-> IF link[l] = "unused" THEN "used" ELSE link[l]]
    /\ Continue(r, "create")
    /\ UNCHANGED <<mix, account, token, payment, report, locks>>

ForgotCreate(r, l) ==
    /\ Waits(r, "forgot", "create")
    /\ link[l] = "none"
    /\ link' = [link EXCEPT ![l] = "unused"]
    /\ Finish(r)
    /\ UNCHANGED <<mix, account, token, payment, report, locks>>

LinkExpires(l) ==
    /\ link[l] = "unused"
    /\ link' = [link EXCEPT ![l] = "expired"]
    /\ UNCHANGED <<mix, account, token, payment, report, request, locks>>

ResetStart(r, l) ==
    /\ Arrives(r, "reset")
    /\ link[l] = "unused"
    /\ status # "DELETED"
    /\ Enter(r, "reset", "begin", l, 0)
    /\ UNCHANGED <<mix, account, token, link, payment, report, locks>>

\* The transaction does not look at the link again.
ResetCommit(r) ==
    /\ Waits(r, "reset", "begin")
    /\ userLock = None
    /\ password' = request[r].on
    /\ link' = [l \in Link |-> IF link[l] \in {"unused", "expired"} THEN "used" ELSE link[l]]
    /\ RevokeAll
    /\ Finish(r)
    /\ UNCHANGED <<mix, status, suspension, months, live, payment, report, locks>>

-----------------------------------------------------------------------------
(* The member's own account and profile. *)

\* deactivateAccount and reactivateAccount: status is read before the transaction.
OwnChangeStart(r, kind) ==
    /\ kind \in {"deactivate", "reactivate"}
    /\ Arrives(r, kind)
    /\ ~OutOfOwnHands
    /\ Enter(r, kind, "begin", None, 0)
    /\ UNCHANGED <<mix, account, token, link, payment, report, locks>>

\* deleteAccount: the password is compared, and the photos' objects are deleted
\* from storage, before the transaction.
EraseStart(r) ==
    /\ Arrives(r, "erase")
    /\ password # "scrambled"
    /\ Enter(r, "erase", "begin", None, 0)
    /\ UNCHANGED <<mix, account, token, link, payment, report, locks>>

\* updateMyProfile behind ActiveSubscriptionGuard; seen is discoveryLive of the form.
EditStart(r, show) ==
    /\ Arrives(r, "edit")
    /\ ~AccessBlocked
    /\ months > 0
    /\ Enter(r, "edit", "begin", None, show)
    /\ UNCHANGED <<mix, account, token, link, payment, report, locks>>

-----------------------------------------------------------------------------
(* Reports and their moderation. *)

FileReport ==
    /\ "report" \in mix
    /\ report = "none"
    /\ report' = "OPEN"
    /\ UNCHANGED <<mix, account, token, link, payment, request, locks>>

DismissStart(r) ==
    /\ Arrives(r, "dismiss")
    /\ report \notin {"none", "ACTIONED"}
    /\ Enter(r, "dismiss", "begin", None, 0)
    /\ UNCHANGED <<mix, account, token, link, payment, report, locks>>

DismissCommit(r) ==
    /\ Waits(r, "dismiss", "begin")
    /\ report' = "DISMISSED"
    /\ Finish(r)
    /\ UNCHANGED <<mix, account, token, link, payment, locks>>

\* moderateReportedUser up to its transaction: only a restoration looks at the status.
ModerationStart(r, kind) ==
    /\ kind \in Moderation
    /\ Arrives(r, kind)
    /\ report # "none"
    /\ kind = "restore" => status \in {"SUSPENDED", "BANNED"}
    /\ Enter(r, kind, "begin", None, 0)
    /\ UNCHANGED <<mix, account, token, link, payment, report, locks>>

\* Mutant: the report is given the status of the account.
MarkReport_AccountStatus(r) ==
    /\ Waits(r, "remove", "mark")
    /\ report' = "DELETED"
    /\ Finish(r)
    /\ UNCHANGED <<mix, account, token, link, payment, locks>>

\* After softDeleteAccount: the report is marked by a statement of its own.
MarkReport(r) ==
    /\ Waits(r, "remove", "mark")
    /\ report' = "ACTIONED"
    /\ Finish(r)
    /\ UNCHANGED <<mix, account, token, link, payment, locks>>

\* After softDeleteAccount in deleteAccount: every session once more.
WipeSessions(r) ==
    /\ Waits(r, "erase", "wipe")
    /\ RevokeAll
    /\ Finish(r)
    /\ UNCHANGED <<mix, account, link, payment, report, locks>>

-----------------------------------------------------------------------------
(* The two-row transactions. *)

FirstLock(r) ==
    /\ request[r].pc = "begin"
    /\ \/ /\ request[r].kind \in ProfileFirst
          /\ profileLock = None
          /\ profileLock' = r
          /\ UNCHANGED userLock
       \/ /\ request[r].kind \in UserFirst
          /\ userLock = None
          /\ userLock' = r
          /\ UNCHANGED profileLock
    /\ Continue(r, "locked")
    /\ UNCHANGED <<mix, account, token, link, payment, report>>

HoldsBoth(r) ==
    \/ request[r].kind \in ProfileFirst /\ profileLock = r /\ userLock = None
    \/ request[r].kind \in UserFirst /\ userLock = r /\ profileLock = None

\* Mutant: a transaction that fails leaves the Profile row locked.
Release_UserOnly(r) ==
    /\ userLock' = IF userLock = r THEN None ELSE userLock
    /\ UNCHANGED profileLock

Release(r) ==
    /\ userLock' = IF userLock = r THEN None ELSE userLock
    /\ profileLock' = IF profileLock = r THEN None ELSE profileLock

\* What each transaction has written when it commits.
NewStatus(kind) ==
    CASE kind = "deactivate" -> "DEACTIVATED"
      [] kind \in {"reactivate", "restore"} -> "ACTIVE"
      [] kind \in {"erase", "remove"} -> "DELETED"
      [] kind = "suspend" -> "SUSPENDED"
      [] kind = "ban" -> "BANNED"
      [] OTHER -> status

Commit(r) ==
    LET kind == request[r].kind IN
    /\ request[r].pc = "locked"
    /\ HoldsBoth(r)
    /\ status' = NewStatus(kind)
    /\ suspension' = IF kind = "edit" THEN suspension ELSE kind = "suspend"
    /\ live' = IF kind = "edit" THEN request[r].seen = 1 ELSE kind \in {"reactivate", "restore"}
    /\ password' = IF kind \in {"erase", "remove"} THEN "scrambled" ELSE password
    /\ months' = IF kind \in {"erase", "remove"} THEN 0 ELSE months
    /\ IF kind \in {"suspend", "ban", "erase", "remove"} THEN RevokeAll ELSE UNCHANGED token
    /\ report' = CASE kind \in {"suspend", "ban"} -> "ACTIONED"
                   [] kind = "restore" -> "REVIEWED"
                   [] OTHER -> report
    /\ CASE kind = "erase" -> Continue(r, "wipe")
         [] kind = "remove" -> Continue(r, "mark")
         [] OTHER -> Finish(r)
    /\ Release(r)
    /\ UNCHANGED <<mix, link, payment>>

\* A statement fails or times out.
RollBack(r) ==
    /\ request[r].pc \in {"locked", "extend"}
    /\ Finish(r)
    /\ Release(r)
    /\ UNCHANGED <<mix, account, token, link, payment, report>>

\* Each holds the row the other waits for; PostgreSQL aborts one of the two.
Deadlocked == userLock # None /\ profileLock # None /\ userLock # profileLock
              /\ \A r \in {userLock, profileLock} : request[r].pc = "locked"
DeadlockAborts(r) ==
    /\ Deadlocked
    /\ r \in {userLock, profileLock}
    /\ RollBack(r)

\* The process ends between two statements that are not one transaction.
Dies(r) ==
    /\ request[r].pc \in {"begin", "wipe", "mark"}
    /\ Finish(r)
    /\ UNCHANGED <<mix, account, token, link, payment, report, locks>>

SuspensionEnds ==
    /\ suspension
    /\ suspension' = FALSE
    /\ UNCHANGED <<mix, status, password, months, live, token, link, payment, report, request, locks>>

-----------------------------------------------------------------------------
(* Membership. *)

\* initializeSubscription: no block, no running membership; the Payment row is
\* created when Paystack has answered.
SubscribeStart(r) ==
    /\ Arrives(r, "subscribe")
    /\ ~AccessBlocked
    /\ months = 0
    /\ Left({p \in Payment : payment[p] = "none"}, {"subscribe"})
    /\ Enter(r, "subscribe", "begin", None, 0)
    /\ UNCHANGED <<mix, account, token, link, payment, report, locks>>

SubscribeCreate(r, p) ==
    /\ Waits(r, "subscribe", "begin")
    /\ payment[p] = "none"
    /\ payment' = [payment EXCEPT ![p] = "PENDING"]
    /\ Finish(r)
    /\ UNCHANGED <<mix, account, token, link, report, locks>>

\* The Payment row is locked until the transaction ends; the User row is only read.
Locked(p) == \E r \in Request : request[r].pc = "extend" /\ request[r].on = p

\* Mutant: a payment that is already SUCCESS extends the membership once more.
VerifyLock_AgainAfterSuccess(r, p) ==
    /\ Arrives(r, "verify")
    /\ payment[p] # "none"
    /\ ~Locked(p)
    /\ Enter(r, "verify", "extend", p, months)
    /\ UNCHANGED <<mix, account, token, link, payment, report, locks>>

\* verifyAndActivateSubscription after a charge that succeeded, up to the read.
VerifyLock(r, p) ==
    /\ Arrives(r, "verify")
    /\ payment[p] \in {"PENDING", "FAILED"}
    /\ ~Locked(p)
    /\ Enter(r, "verify", "extend", p, months)
    /\ UNCHANGED <<mix, account, token, link, payment, report, locks>>

\* getNextSubscriptionEndsAt of the value read, written over whatever is there now.
VerifyCommit(r) ==
    /\ Waits(r, "verify", "extend")
    /\ userLock = None
    /\ payment' = [payment EXCEPT ![request[r].on] = "SUCCESS"]
    /\ months' = request[r].seen + 1
    /\ Finish(r)
    /\ UNCHANGED <<mix, status, suspension, password, live, token, link, report, locks>>

\* A period is far longer than the transaction above.
PeriodEnds ==
    /\ months > 0
    /\ \A r \in Request : request[r].pc # "extend"
    /\ months' = months - 1
    /\ UNCHANGED <<mix, status, suspension, password, live, token, link, payment, report, request, locks>>

\* recordNonSuccessPayment: an old failure cannot undo a success.
VerifyDeclined(p) ==
    /\ "decline" \in mix
    /\ payment[p] = "PENDING"
    /\ ~Locked(p)
    /\ payment' = [payment EXCEPT ![p] = "FAILED"]
    /\ UNCHANGED <<mix, account, token, link, report, request, locks>>

-----------------------------------------------------------------------------
Starts(r) ==
    \/ LoginStart(r) \/ ForgotStart(r) \/ EraseStart(r) \/ DismissStart(r) \/ SubscribeStart(r)
    \/ \E t \in Token : RefreshStart(r, t)
    \/ \E l \in Link : ResetStart(r, l)
    \/ \E kind \in {"deactivate", "reactivate"} : OwnChangeStart(r, kind)
    \/ \E kind \in Moderation : ModerationStart(r, kind)
    \/ \E show \in {0, 1} : EditStart(r, show)
    \/ \E p \in Payment : VerifyLock(r, p)

Proceeds(r) ==
    \/ RefreshRotate(r) \/ ForgotUse(r) \/ ResetCommit(r) \/ DismissCommit(r)
    \/ FirstLock(r) \/ Commit(r) \/ DeadlockAborts(r)
    \/ MarkReport(r) \/ WipeSessions(r) \/ VerifyCommit(r)
    \/ \E t \in Token : LoginIssue(r, t) \/ RefreshReplace(r, t)
    \/ \E l \in Link : ForgotCreate(r, l)
    \/ \E p \in Payment : SubscribeCreate(r, p)

Next ==
    \/ \E r \in Request : Starts(r) \/ Proceeds(r) \/ RefreshRollsBack(r) \/ RollBack(r) \/ Dies(r)
    \/ \E t \in Token : RefreshBlocked(t) \/ Logout(t) \/ TokenExpires(t)
    \/ \E l \in Link : LinkExpires(l)
    \/ \E p \in Payment : VerifyDeclined(p)
    \/ FileReport \/ SuspensionEnds \/ PeriodEnds

Spec == Init /\ [][Next]_vars

\* PostgreSQL queues the transactions that wait for a row, and breaks deadlocks,
\* so a request that keeps waiting gets its turn.  A browser that stays open
\* presents its token when the access token is about to expire
\* (session-provider.tsx:71); any other token is left until its time runs out.
Fairness ==
    /\ \A r \in Request : SF_vars(Proceeds(r))
    /\ \A t \in Kept : WF_vars(RefreshBlocked(t))
    /\ \A t \in Token \ Kept : WF_vars(TokenExpires(t))

FairSpec == Spec /\ Fairness

-----------------------------------------------------------------------------
(* Properties. *)

TypeOK ==
    /\ mix \in Mixes
    /\ status \in Statuses
    /\ suspension \in BOOLEAN
    /\ password \in {"member", "scrambled"} \cup Link
    /\ months \in Nat
    /\ live \in BOOLEAN
    /\ token \in [Token -> TokenRow]
    /\ link \in [Link -> LinkStates]
    /\ payment \in [Payment -> PaymentStates]
    /\ report \in ReportStates
    /\ request \in [Request -> [kind : Kinds \cup {None}, pc : Pc,
                                on : Token \cup Link \cup Payment \cup {None}, seen : Nat]]
    /\ userLock \in Request \cup {None}
    /\ profileLock \in Request \cup {None}

\* A login is one session: however many tabs and retries present its tokens at
\* once, at most one token of it can still be used, and a token that was replaced
\* is revoked (auth.service.ts:180, the conditional update and its count).
Usable(t) == token[t].state \in {"live", "rotating", "doomed"}
Gone == status \in {"BANNED", "DELETED"}
SessionsDoNotFork ==
    /\ \A t, u \in Token : Usable(t) /\ Usable(u) /\ token[t].login = token[u].login => t = u
    /\ \A t \in Token : token[t].next # None => token[t].state = "revoked"

\* A membership never runs longer than its payments paid for: webhook, callback
\* and reconciliation of one payment grant it once (payments.service.ts:419).
NeverMoreThanPaid == months <= Cardinality({p \in Payment : payment[p] = "SUCCESS"})

\* The transactions of users.service.ts and admin.service.ts lock User and Profile
\* in opposite orders; every request nevertheless ends.
RequestsEnd == \A r \in Request : request[r] # Idle ~> request[r] = Idle

\* A rotation or a login that raced a ban or a deletion, or a login after the ban,
\* leaves a usable token behind.  None of them stays usable for as long as the block
\* lasts: not one that a browser keeps and presents (auth.service.ts:165), nor one
\* that nobody presents any more.  Said of each token: login refuses a deleted
\* account only (auth.service.ts:46), so a banned member may always get another.
BlockedSessionsEnd ==
    \A t \in Token :
        Usable(t) /\ Gone /\ "refresh" \in mix ~> ~Usable(t) \/ ~Gone

\* What users.service.ts promises ("This account is locked.", "Deleted accounts
\* cannot be reactivated."): a ban is lifted only by an administrator, and a
\* deleted account stays deleted.
OnlyModerationLiftsABan ==
    [][/\ status = "BANNED" /\ status' # "BANNED" =>
            \E r \in Request : request[r].kind \in Moderation \cup {"erase"} /\ request'[r] # request[r]
       /\ status = "DELETED" => status' = "DELETED"]_vars
=============================================================================

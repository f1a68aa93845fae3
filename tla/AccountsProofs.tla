---------------------------- MODULE AccountsProofs ----------------------------
(***************************************************************************)
(* Proofs about accounts, for any number of requests, tokens and payments: *)
(* a login stays one session however its tokens are presented, and a       *)
(* membership runs no longer than was paid for.                            *)
(*                                                                         *)
(* A rotation holds the token it replaces, alone, from its conditional     *)
(* update to the end of its transaction; a verification holds the payment. *)
(***************************************************************************)
EXTENDS Accounts, FiniteSetTheorems, TLAPS

RequestRow == [kind : Kinds \cup {None}, pc : Pc,
               on : Token \cup Link \cup Payment \cup {None}, seen : Nat]

RowsTyped ==
    /\ token \in [Token -> TokenRow]
    /\ payment \in [Payment -> PaymentStates]
    /\ months \in Nat
    /\ request \in [Request -> RequestRow]

\* A login is named after its first token; a token without a row says nothing.
LoginsAreKnown ==
    \A t \in Token :
        /\ token[t].state = "none" => token[t].next = None
        /\ token[t].state # "none" => token[t].login \in Token /\ token[token[t].login].state # "none"

\* A refresh knows its token, and a rotation holds it against every other.
RotationsHoldTheirToken ==
    /\ \A r \in Request : Waits(r, "refresh", "begin") => request[r].on \in Token
    /\ \A r \in Request : request[r].pc = "rotating" =>
        request[r].on \in Token /\ token[request[r].on].state \in {"rotating", "doomed"}
    /\ \A r, s \in Request :
        request[r].pc = "rotating" /\ request[s].pc = "rotating" /\ request[r].on = request[s].on => r = s

SessionInv == RowsTyped /\ LoginsAreKnown /\ RotationsHoldTheirToken /\ SessionsDoNotFork

Paid == {p \in Payment : payment[p] = "SUCCESS"}

\* A verification holds a payment that did not count yet, against every other, and the
\* membership it has read was paid for.
VerificationsHoldTheirPayment ==
    /\ \A r \in Request : request[r].pc = "extend" =>
        /\ request[r].on \in Payment /\ payment[request[r].on] \in {"PENDING", "FAILED"}
        /\ request[r].seen <= Cardinality(Paid)
    /\ \A r, s \in Request :
        request[r].pc = "extend" /\ request[s].pc = "extend" /\ request[r].on = request[s].on => r = s

MembershipInv == RowsTyped /\ VerificationsHoldTheirPayment /\ NeverMoreThanPaid

-----------------------------------------------------------------------------
(* What most steps have in common. *)

\* A request that holds neither a token nor a payment.
Calm(y) ==
    /\ y \in RequestRow
    /\ y.pc \notin {"rotating", "extend"}
    /\ y.kind = "refresh" /\ y.pc = "begin" => y.on \in Token

\* One request moves, and becomes calm; or none does.
Calms == request' = request \/ \E r \in Request, y \in RequestRow : Calm(y) /\ request' = [request EXCEPT ![r] = y]

\* The tokens' rows stay, or lose their use.
Fades(x, y) ==
    \/ y = x
    \/ y = [x EXCEPT !.state = Revoke(x.state)]
    \/ x.state = "live" /\ y = [x EXCEPT !.state = "expired"]
TokensFade == token' \in [Token -> TokenRow] /\ \A t \in Token : Fades(token[t], token'[t])

\* No payment comes to count.
PaymentsStay ==
    /\ payment' \in [Payment -> PaymentStates]
    /\ \A p \in Payment : payment'[p] = payment[p] \/ (payment[p] = "none" /\ payment'[p] = "PENDING")
                          \/ (payment[p] = "PENDING" /\ payment'[p] = "FAILED")
    /\ months' \in Nat /\ months' <= months

\* A request begins: it has read what it decides by, and holds nothing.
LEMMA Begins ==
    ASSUME RowsTyped, NEW r \in Request,
           \/ LoginStart(r) \/ ForgotStart(r) \/ EraseStart(r) \/ DismissStart(r) \/ SubscribeStart(r)
           \/ \E t \in Token : RefreshStart(r, t)
           \/ \E l \in Link : ResetStart(r, l)
           \/ \E kind \in {"deactivate", "reactivate"} : OwnChangeStart(r, kind)
           \/ \E kind \in Moderation : ModerationStart(r, kind)
           \/ \E show \in {0, 1} : EditStart(r, show)
    PROVE  Calms /\ UNCHANGED <<token, payment, months>>
<1>1. UNCHANGED <<token, payment, months>>
  BY DEF LoginStart, ForgotStart, EraseStart, DismissStart, SubscribeStart, RefreshStart, ResetStart,
         OwnChangeStart, ModerationStart, EditStart, account
<1>2. \E kind \in Kinds, on \in Token \cup Link \cup {None}, seen \in Nat :
        /\ kind = "refresh" => on \in Token
        /\ request' = [request EXCEPT ![r] = [kind |-> kind, pc |-> "begin", on |-> on, seen |-> seen]]
  <2> USE DEF Kinds, ProfileFirst, UserFirst, Moderation, Enter
  <2>1. CASE LoginStart(r)
    BY <2>1 DEF LoginStart
  <2>2. CASE ForgotStart(r)
    BY <2>2 DEF ForgotStart
  <2>3. CASE EraseStart(r)
    BY <2>3 DEF EraseStart
  <2>4. CASE DismissStart(r)
    BY <2>4 DEF DismissStart
  <2>5. CASE SubscribeStart(r)
    BY <2>5 DEF SubscribeStart
  <2>6. CASE \E t \in Token : RefreshStart(r, t)
    BY <2>6 DEF RefreshStart
  <2>7. CASE \E l \in Link : ResetStart(r, l)
    BY <2>7 DEF ResetStart
  <2>8. CASE \E kind \in {"deactivate", "reactivate"} : OwnChangeStart(r, kind)
    BY <2>8 DEF OwnChangeStart
  <2>9. CASE \E kind \in Moderation : ModerationStart(r, kind)
    BY <2>9 DEF ModerationStart
  <2>10. CASE \E show \in {0, 1} : EditStart(r, show)
    BY <2>10 DEF EditStart
  <2> QED
    BY <2>1, <2>2, <2>3, <2>4, <2>5, <2>6, <2>7, <2>8, <2>9, <2>10
<1>3. ASSUME NEW kind \in Kinds, NEW on \in Token \cup Link \cup {None}, NEW seen \in Nat,
             kind = "refresh" => on \in Token
      PROVE  Calm([kind |-> kind, pc |-> "begin", on |-> on, seen |-> seen])
  BY <1>3 DEF Calm, RequestRow, Pc
<1>4. Calms
  BY <1>2, <1>3 DEF Calms, Calm
<1> QED
  BY <1>1, <1>4

\* A request that ends is calm, and so is one that goes on to another statement.
LEMMA Resting ==
    ASSUME RowsTyped, NEW r \in Request
    PROVE  /\ Calm(Idle)
           /\ Finish(r) => Calms
           /\ \A pc \in {"create", "locked", "wipe", "mark"} : Continue(r, pc) => Calms
<1>1. Calm(Idle)
  BY DEF Calm, Idle, RequestRow, Pc
<1>2. Finish(r) => Calms
  BY <1>1 DEF Finish, Calms, Calm
<1>3. ASSUME NEW pc \in {"create", "locked", "wipe", "mark"}, Continue(r, pc) PROVE Calms
  <2> DEFINE y == [request[r] EXCEPT !.pc = pc]
  <2>1. request' = [request EXCEPT ![r] = y]
    BY <1>3 DEF Continue
  <2>2. request[r] \in RequestRow
    BY DEF RowsTyped
  <2>3. Calm(y)
    BY <2>2 DEF Calm, RequestRow, Pc
  <2> QED
    BY <2>1, <2>3 DEF Calms, Calm
<1> QED
  BY <1>1, <1>2, <1>3

\* The rows that a step leaves alone, and the tokens that are revoked together.
LEMMA Rows ==
    ASSUME RowsTyped
    PROVE  /\ UNCHANGED token => TokensFade
           /\ RevokeAll => TokensFade
           /\ UNCHANGED <<payment, months>> => PaymentsStay
<1>1. \A x \in TokenRow : [x EXCEPT !.state = Revoke(x.state)] \in TokenRow
  BY DEF TokenRow, Revoke, TokenStates
<1>2. RevokeAll => TokensFade
  BY <1>1 DEF RowsTyped, RevokeAll, TokensFade, Fades
<1>3. UNCHANGED token => TokensFade
  BY DEF RowsTyped, TokensFade, Fades
<1>4. UNCHANGED <<payment, months>> => PaymentsStay
  BY DEF RowsTyped, PaymentsStay
<1> QED
  BY <1>2, <1>3, <1>4

\* The writes that neither create a token nor rotate one, nor touch a payment that is verified.
LEMMA Writes ==
    ASSUME RowsTyped,
           \/ \E r \in Request :
                \/ ForgotUse(r) \/ ResetCommit(r) \/ DismissCommit(r) \/ FirstLock(r) \/ Commit(r) \/ RollBack(r)
                \/ DeadlockAborts(r) \/ MarkReport(r) \/ WipeSessions(r) \/ Dies(r)
                \/ \E l \in Link : ForgotCreate(r, l)
                \/ \E p \in Payment : SubscribeCreate(r, p)
           \/ \E t \in Token : RefreshBlocked(t) \/ Logout(t) \/ TokenExpires(t)
           \/ \E l \in Link : LinkExpires(l)
           \/ \E p \in Payment : VerifyDeclined(p)
           \/ FileReport \/ SuspensionEnds \/ PeriodEnds
    PROVE  Calms /\ TokensFade /\ PaymentsStay
<1> USE DEF account
<1>1. ASSUME NEW r \in Request,
             ForgotUse(r) \/ ResetCommit(r) \/ DismissCommit(r) \/ FirstLock(r) \/ RollBack(r)
             \/ DeadlockAborts(r) \/ MarkReport(r) \/ WipeSessions(r) \/ Dies(r) \/ \E l \in Link : ForgotCreate(r, l)
      PROVE  Calms /\ TokensFade /\ PaymentsStay
  <2>1. UNCHANGED <<payment, months>>
    BY <1>1 DEF ForgotUse, ResetCommit, DismissCommit, FirstLock, RollBack, DeadlockAborts, MarkReport,
                WipeSessions, Dies, ForgotCreate
  <2>2. UNCHANGED token \/ RevokeAll
    BY <1>1 DEF ForgotUse, ResetCommit, DismissCommit, FirstLock, RollBack, DeadlockAborts, MarkReport,
                WipeSessions, Dies, ForgotCreate
  <2>3. Finish(r) \/ Continue(r, "create") \/ Continue(r, "locked")
    BY <1>1 DEF ForgotUse, ResetCommit, DismissCommit, FirstLock, RollBack, DeadlockAborts, MarkReport,
                WipeSessions, Dies, ForgotCreate
  <2> QED
    BY <2>1, <2>2, <2>3, Rows, Resting
<1>2. ASSUME NEW r \in Request, Commit(r) PROVE Calms /\ TokensFade /\ PaymentsStay
  <2>1. payment' = payment /\ months' \in {0, months}
    BY <1>2 DEF Commit
  <2>2. UNCHANGED token \/ RevokeAll
    BY <1>2 DEF Commit
  <2>3. Finish(r) \/ Continue(r, "wipe") \/ Continue(r, "mark")
    BY <1>2 DEF Commit
  <2>4. PaymentsStay
    BY <2>1 DEF RowsTyped, PaymentsStay
  <2> QED
    BY <2>2, <2>3, <2>4, Rows, Resting
<1>3. ASSUME NEW r \in Request, NEW p \in Payment, SubscribeCreate(r, p) PROVE Calms /\ TokensFade /\ PaymentsStay
  <2>1. /\ payment[p] = "none" /\ payment' = [payment EXCEPT ![p] = "PENDING"] /\ Finish(r)
        /\ UNCHANGED <<token, months>>
    BY <1>3 DEF SubscribeCreate
  <2>2. PaymentsStay
    BY <2>1 DEF RowsTyped, PaymentsStay, PaymentStates
  <2> QED
    BY <2>1, <2>2, Rows, Resting
<1>4. ASSUME NEW t \in Token, RefreshBlocked(t) \/ Logout(t) \/ TokenExpires(t)
      PROVE  Calms /\ TokensFade /\ PaymentsStay
  <2>1. UNCHANGED <<payment, months, request>>
    BY <1>4 DEF RefreshBlocked, Logout, TokenExpires
  <2>2. CASE RefreshBlocked(t)
    BY <2>1, <2>2, Rows DEF RefreshBlocked, Calms
  <2>3. CASE Logout(t) \/ TokenExpires(t)
    <3>1. \A x \in TokenRow : [x EXCEPT !.state = Revoke(x.state)] \in TokenRow /\ [x EXCEPT !.state = "expired"] \in TokenRow
      BY DEF TokenRow, Revoke, TokenStates
    <3>2. \/ token' = [token EXCEPT ![t] = [token[t] EXCEPT !.state = Revoke(token[t].state)]]
          \/ token[t].state = "live" /\ token' = [token EXCEPT ![t] = [token[t] EXCEPT !.state = "expired"]]
      BY <2>3 DEF Logout, TokenExpires
    <3>3. TokensFade
      BY <3>1, <3>2 DEF RowsTyped, TokensFade, Fades
    <3> QED
      BY <2>1, <3>3, Rows DEF Calms
  <2> QED
    BY <1>4, <2>2, <2>3
<1>5. ASSUME NEW p \in Payment, VerifyDeclined(p) PROVE Calms /\ TokensFade /\ PaymentsStay
  <2>1. /\ payment[p] = "PENDING" /\ payment' = [payment EXCEPT ![p] = "FAILED"]
        /\ UNCHANGED <<token, months, request>>
    BY <1>5 DEF VerifyDeclined
  <2>2. PaymentsStay
    BY <2>1 DEF RowsTyped, PaymentsStay, PaymentStates
  <2> QED
    BY <2>1, <2>2, Rows DEF Calms
<1>6. CASE (\E l \in Link : LinkExpires(l)) \/ FileReport \/ SuspensionEnds
  <2>1. UNCHANGED <<token, payment, months, request>>
    BY <1>6 DEF LinkExpires, FileReport, SuspensionEnds
  <2> QED
    BY <2>1, Rows DEF Calms
<1>7. CASE PeriodEnds
  <2>1. months > 0 /\ months' = months - 1 /\ UNCHANGED <<token, payment, request>>
    BY <1>7 DEF PeriodEnds
  <2>2. PaymentsStay
    BY <2>1 DEF RowsTyped, PaymentsStay
  <2> QED
    BY <2>1, <2>2, Rows DEF Calms
<1> QED
  BY <1>1, <1>2, <1>3, <1>4, <1>5, <1>6, <1>7

-----------------------------------------------------------------------------
(* Sessions. *)

\* Tokens that stay or fade, and a request that does not rotate.
LEMMA SessionsKept ==
    ASSUME SessionInv, RowsTyped', TokensFade,
           \/ request' = request
           \/ \E r \in Request, y \in RequestRow :
                /\ y.pc # "rotating" /\ (y.kind = "refresh" /\ y.pc = "begin" => y.on \in Token)
                /\ request' = [request EXCEPT ![r] = y]
    PROVE  SessionInv'
<1>1. \A t \in Token :
        /\ token[t] \in TokenRow /\ token'[t] \in TokenRow
        /\ token'[t].next = token[t].next /\ token'[t].login = token[t].login
        /\ token'[t].state = "none" <=> token[t].state = "none"
        /\ Usable(t)' => Usable(t)
        /\ token[t].state = "revoked" => token'[t].state = "revoked"
        /\ token[t].state \in {"rotating", "doomed"} => token'[t].state \in {"rotating", "doomed"}
  BY DEF TokensFade, Fades, SessionInv, RowsTyped, TokenRow, Revoke, Usable
<1>2. \A r \in Request : request'[r] = request[r]
                         \/ (request'[r].pc # "rotating" /\ (Waits(r, "refresh", "begin")' => request'[r].on \in Token))
  BY DEF SessionInv, RowsTyped, Waits
<1>3. LoginsAreKnown'
  BY <1>1 DEF SessionInv, LoginsAreKnown
<1>4. RotationsHoldTheirToken'
  BY <1>1, <1>2 DEF SessionInv, RotationsHoldTheirToken, Waits
<1>5. SessionsDoNotFork'
  BY <1>1 DEF SessionInv, SessionsDoNotFork
<1> QED
  BY <1>3, <1>4, <1>5 DEF SessionInv

\* A login creates the first token of its name.
LEMMA LoginIssueStep == ASSUME SessionInv, NEW r \in Request, NEW t \in Token, LoginIssue(r, t) PROVE SessionInv'
<1> DEFINE row == [state |-> "live", next |-> None, login |-> t]
<1>1. /\ token[t].state = "none" /\ token' = [token EXCEPT ![t] = row] /\ UNCHANGED <<payment, months>>
      /\ request' = [request EXCEPT ![r] = Idle]
  BY DEF LoginIssue, CreateToken, Fresh, Finish, account
<1>2. row \in TokenRow
  BY DEF TokenRow, TokenStates
<1>3. token' \in [Token -> TokenRow] /\ token'[t] = row /\ \A u \in Token \ {t} : token'[u] = token[u]
  BY <1>1, <1>2 DEF SessionInv, RowsTyped
<1>4. Calm(Idle)
  BY Resting DEF SessionInv
<1>5. /\ request' \in [Request -> RequestRow] /\ request'[r].pc # "rotating"
      /\ ~Waits(r, "refresh", "begin")' /\ \A s \in Request \ {r} : request'[s] = request[s]
  BY <1>1, <1>4 DEF SessionInv, RowsTyped, Calm, Waits, Idle
<1>6. RowsTyped'
  BY <1>1, <1>3, <1>5 DEF SessionInv, RowsTyped
<1>7. LoginsAreKnown'
  BY <1>1, <1>3 DEF SessionInv, LoginsAreKnown
<1>8. RotationsHoldTheirToken'
  BY <1>1, <1>3, <1>5 DEF SessionInv, RotationsHoldTheirToken, Waits
<1>9. SessionsDoNotFork'
  <2>1. \A u \in Token \ {t} : Usable(u) => token[u].login # t
    BY <1>1 DEF SessionInv, LoginsAreKnown, Usable
  <2>2. Usable(t)' /\ \A u \in Token \ {t} : Usable(u)' <=> Usable(u)
    BY <1>3 DEF Usable
  <2> QED
    BY <1>3, <2>1, <2>2 DEF SessionInv, SessionsDoNotFork
<1> QED
  BY <1>6, <1>7, <1>8, <1>9 DEF SessionInv

\* A rotation takes a token that nobody else has taken.
LEMMA RotateStep == ASSUME SessionInv, NEW r \in Request, RefreshRotate(r) PROVE SessionInv'
<1> DEFINE t == request[r].on
<1>1. Waits(r, "refresh", "begin") /\ t \in Token /\ UNCHANGED <<payment, months>>
  BY DEF RefreshRotate, SessionInv, RotationsHoldTheirToken, account
<1>2. CASE token[t].state = "live" /\ token' = [token EXCEPT ![t].state = "rotating"] /\ Continue(r, "rotating")
  <2> DEFINE y == [request[r] EXCEPT !.pc = "rotating"]
  <2>1. token'[t] = [token[t] EXCEPT !.state = "rotating"] /\ \A u \in Token \ {t} : token'[u] = token[u]
    BY <1>1, <1>2 DEF SessionInv, RowsTyped
  <2>2. /\ token' \in [Token -> TokenRow] /\ token'[t].state = "rotating"
        /\ token'[t].next = token[t].next /\ token'[t].login = token[t].login
    BY <1>1, <1>2, <2>1 DEF SessionInv, RowsTyped, TokenRow, TokenStates
  <2>3. y \in RequestRow /\ y.pc = "rotating" /\ y.on = t
    BY DEF SessionInv, RowsTyped, RequestRow, Pc
  <2>4. request' = [request EXCEPT ![r] = y]
    BY <1>2 DEF Continue
  <2> HIDE DEF y
  <2>5. request' \in [Request -> RequestRow] /\ request'[r] = y /\ \A s \in Request \ {r} : request'[s] = request[s]
    BY <2>3, <2>4 DEF SessionInv, RowsTyped
  <2>6. RowsTyped'
    BY <1>1, <2>2, <2>5 DEF SessionInv, RowsTyped
  <2>7. LoginsAreKnown'
    BY <1>2, <2>1, <2>2 DEF SessionInv, LoginsAreKnown
  <2>8. RotationsHoldTheirToken'
    <3>1. \A s \in Request \ {r} : request[s].pc = "rotating" => request[s].on # t
      BY <1>2 DEF SessionInv, RotationsHoldTheirToken
    <3>2. request'[r].pc = "rotating" /\ request'[r].on = t
      BY <2>3, <2>5
    <3> HIDE DEF t
    <3>3. \A s \in Request : Waits(s, "refresh", "begin")' => request'[s].on \in Token
      BY <2>5, <3>2 DEF SessionInv, RotationsHoldTheirToken, Waits
    <3>4. \A s \in Request : request'[s].pc = "rotating" =>
            request'[s].on \in Token /\ token'[request'[s].on].state \in {"rotating", "doomed"}
      <4>1. token'[t].state \in {"rotating", "doomed"}
        BY <2>2
      <4>2. ASSUME NEW s \in Request \ {r}, request'[s].pc = "rotating"
            PROVE  request'[s].on \in Token /\ token'[request'[s].on].state \in {"rotating", "doomed"}
        <5>1. request'[s] = request[s] /\ request[s].on # t
          BY <2>5, <3>1, <4>2
        <5>2. request[s].on \in Token /\ token[request[s].on].state \in {"rotating", "doomed"}
          BY <4>2, <5>1 DEF SessionInv, RotationsHoldTheirToken
        <5> QED
          BY <2>1, <5>1, <5>2
      <4> QED
        BY <1>1, <3>2, <4>1, <4>2
    <3>5. \A s, q \in Request :
            request'[s].pc = "rotating" /\ request'[q].pc = "rotating" /\ request'[s].on = request'[q].on => s = q
      BY <2>5, <3>1, <3>2 DEF SessionInv, RotationsHoldTheirToken
    <3> QED
      BY <3>3, <3>4, <3>5 DEF RotationsHoldTheirToken
  <2>9. SessionsDoNotFork'
    <3>1. \A u \in Token : Usable(u)' <=> Usable(u)
      BY <1>2, <2>1, <2>2 DEF Usable
    <3> QED
      BY <1>1, <1>2, <2>1, <2>2, <3>1 DEF SessionInv, SessionsDoNotFork
  <2> QED
    BY <2>6, <2>7, <2>8, <2>9 DEF SessionInv
<1>3. CASE Finish(r) /\ UNCHANGED token
  <2>1. Calm(Idle) /\ TokensFade /\ request' = [request EXCEPT ![r] = Idle]
    BY <1>3, Resting, Rows DEF SessionInv, Finish
  <2>2. RowsTyped'
    BY <1>1, <1>3, <2>1 DEF SessionInv, RowsTyped, Calm
  <2> QED
    BY <2>1, <2>2, SessionsKept DEF Calm
<1> QED
  BY <1>2, <1>3 DEF RefreshRotate

\* A rotation replaces its token, and nothing else of the login can be used.
LEMMA ReplaceStep == ASSUME SessionInv, NEW r \in Request, NEW t \in Token, RefreshReplace(r, t) PROVE SessionInv'
<1>1. /\ request[r].pc = "rotating" /\ token[t].state = "none" /\ UNCHANGED <<payment, months>>
      /\ request' = [request EXCEPT ![r] = Idle]
  BY DEF RefreshReplace, Fresh, Waits, Finish, account
<1>2. PICK old \in Token : old = request[r].on /\ token[old].state \in {"rotating", "doomed"} /\ old # t
  BY <1>1 DEF SessionInv, RotationsHoldTheirToken
<1> DEFINE row == [state |-> "live", next |-> None, login |-> token[old].login]
           was == [token[old] EXCEPT !.state = "revoked", !.next = t]
<1>3. token[old] \in TokenRow /\ token[old].login \in Token /\ token[token[old].login].state # "none"
  BY <1>2 DEF SessionInv, RowsTyped, LoginsAreKnown
<1>4. row \in TokenRow /\ was \in TokenRow /\ was.state = "revoked" /\ was.next = t /\ was.login = token[old].login
  BY <1>3 DEF TokenRow, TokenStates
<1>5. token' = [[token EXCEPT ![old] = was] EXCEPT ![t] = row]
  BY <1>2 DEF RefreshReplace, SessionInv, RowsTyped
<1> HIDE DEF row, was
<1>6. /\ token' \in [Token -> TokenRow] /\ token'[t] = row /\ token'[old] = was
      /\ \A u \in Token \ {t, old} : token'[u] = token[u]
  BY <1>2, <1>4, <1>5 DEF SessionInv, RowsTyped
<1>7. row.state = "live" /\ row.next = None /\ row.login = token[old].login
  BY DEF row
<1>8. Calm(Idle)
  BY Resting DEF SessionInv
<1>9. /\ request' \in [Request -> RequestRow] /\ request'[r].pc # "rotating"
      /\ ~Waits(r, "refresh", "begin")' /\ \A s \in Request \ {r} : request'[s] = request[s]
  BY <1>1, <1>8 DEF SessionInv, RowsTyped, Calm, Waits, Idle
<1>10. RowsTyped'
  BY <1>1, <1>6, <1>9 DEF SessionInv, RowsTyped
<1>11. LoginsAreKnown'
  <2>1. \A u \in Token : token[u].state # "none" => token'[u].state # "none"
    BY <1>1, <1>4, <1>6
  <2> QED
    BY <1>3, <1>4, <1>6, <1>7, <2>1 DEF SessionInv, LoginsAreKnown
<1>12. RotationsHoldTheirToken'
  <2>1. \A s \in Request \ {r} : request[s].pc = "rotating" => request[s].on # old /\ request[s].on # t
    BY <1>1, <1>2 DEF SessionInv, RotationsHoldTheirToken
  <2> QED
    BY <1>6, <1>9, <2>1 DEF SessionInv, RotationsHoldTheirToken, Waits
<1>13. SessionsDoNotFork'
  <2>1. \A u \in Token \ {t, old} : Usable(u)' <=> Usable(u)
    BY <1>6 DEF Usable
  <2>2. Usable(old) /\ ~Usable(old)' /\ ~Usable(t)
    BY <1>1, <1>2, <1>4, <1>6 DEF Usable
  <2>3. \A u \in Token \ {t, old} : Usable(u) => token[u].login # token[old].login
    BY <1>2, <2>2 DEF SessionInv, SessionsDoNotFork
  <2>4. \A u, v \in Token : Usable(u)' /\ Usable(v)' /\ token'[u].login = token'[v].login => u = v
    BY <1>6, <1>7, <2>1, <2>2, <2>3 DEF SessionInv, SessionsDoNotFork
  <2>5. \A u \in Token : token'[u].next # None => token'[u].state = "revoked"
    BY <1>4, <1>6, <1>7 DEF SessionInv, SessionsDoNotFork
  <2> QED
    BY <2>4, <2>5 DEF SessionsDoNotFork
<1> QED
  BY <1>10, <1>11, <1>12, <1>13 DEF SessionInv

\* A rotation is rolled back: its token is as before, or revoked with the others meanwhile.
LEMMA RollsBackStep == ASSUME SessionInv, NEW r \in Request, RefreshRollsBack(r) PROVE SessionInv'
<1> DEFINE t == request[r].on
           row == [token[t] EXCEPT !.state = IF token[t].state = "rotating" THEN "live" ELSE "revoked"]
<1>1. /\ request[r].pc = "rotating" /\ UNCHANGED <<payment, months>>
      /\ request' = [request EXCEPT ![r] = Idle]
  BY DEF RefreshRollsBack, Waits, Finish, account
<1>2. t \in Token /\ token[t].state \in {"rotating", "doomed"} /\ token[t] \in TokenRow
  BY <1>1 DEF SessionInv, RotationsHoldTheirToken, RowsTyped
<1>3. token' = [token EXCEPT ![t] = row]
  BY <1>2 DEF RefreshRollsBack, SessionInv, RowsTyped
<1>4. row \in TokenRow /\ row.state \in {"live", "revoked"} /\ row.next = token[t].next /\ row.login = token[t].login
  BY <1>2 DEF TokenRow, TokenStates
<1> HIDE DEF row
<1>5. token' \in [Token -> TokenRow] /\ token'[t] = row /\ \A u \in Token \ {t} : token'[u] = token[u]
  BY <1>2, <1>3, <1>4 DEF SessionInv, RowsTyped
<1>6. Calm(Idle)
  BY Resting DEF SessionInv
<1>7. /\ request' \in [Request -> RequestRow] /\ request'[r].pc # "rotating"
      /\ ~Waits(r, "refresh", "begin")' /\ \A s \in Request \ {r} : request'[s] = request[s]
  BY <1>1, <1>6 DEF SessionInv, RowsTyped, Calm, Waits, Idle
<1>8. RowsTyped'
  BY <1>1, <1>5, <1>7 DEF SessionInv, RowsTyped
<1>9. LoginsAreKnown'
  BY <1>2, <1>4, <1>5 DEF SessionInv, LoginsAreKnown
<1>10. RotationsHoldTheirToken'
  <2>1. \A s \in Request \ {r} : request[s].pc = "rotating" => request[s].on # t
    BY <1>1 DEF SessionInv, RotationsHoldTheirToken
  <2> HIDE DEF t
  <2> QED
    BY <1>5, <1>7, <2>1 DEF SessionInv, RotationsHoldTheirToken, Waits
<1>11. SessionsDoNotFork'
  <2>1. \A u \in Token : Usable(u)' => Usable(u)
    BY <1>2, <1>5 DEF Usable
  <2>2. token[t].next = None
    BY <1>2 DEF SessionInv, SessionsDoNotFork
  <2> HIDE DEF t
  <2> QED
    BY <1>2, <1>4, <1>5, <2>1, <2>2 DEF SessionInv, SessionsDoNotFork
<1> QED
  BY <1>8, <1>9, <1>10, <1>11 DEF SessionInv

\* A verification takes no token.
LEMMA SessionsVerify ==
    ASSUME SessionInv, NEW r \in Request, (\E p \in Payment : VerifyLock(r, p)) \/ VerifyCommit(r)
    PROVE  SessionInv'
<1>1. CASE \E p \in Payment : VerifyLock(r, p)
  <2>1. PICK p \in Payment : /\ request' = [request EXCEPT ![r] = [kind |-> "verify", pc |-> "extend", on |-> p, seen |-> months]]
                             /\ UNCHANGED <<token, payment, months>>
    BY <1>1 DEF VerifyLock, Enter, account
  <2> DEFINE y == [kind |-> "verify", pc |-> "extend", on |-> p, seen |-> months]
  <2>2. y \in RequestRow /\ y.pc # "rotating" /\ y.kind # "refresh"
    BY DEF SessionInv, RowsTyped, RequestRow, Pc, Kinds
  <2> HIDE DEF y
  <2>3. request' = [request EXCEPT ![r] = y]
    BY <2>1 DEF y
  <2>4. TokensFade /\ RowsTyped'
    BY <2>1, <2>2, <2>3, Rows DEF SessionInv, RowsTyped
  <2> QED
    BY <2>2, <2>3, <2>4, SessionsKept
<1>2. CASE VerifyCommit(r)
  <2>1. /\ payment' = [payment EXCEPT ![request[r].on] = "SUCCESS"] /\ months' = request[r].seen + 1
        /\ request' = [request EXCEPT ![r] = Idle] /\ UNCHANGED token
    BY <1>2 DEF VerifyCommit, Finish
  <2>2. Calm(Idle) /\ TokensFade
    BY <2>1, Resting, Rows DEF SessionInv
  <2>3. payment' \in [Payment -> PaymentStates] /\ months' \in Nat
    <3>1. request[r].seen \in Nat
      BY DEF SessionInv, RowsTyped, RequestRow
    <3>2. "SUCCESS" \in PaymentStates
      BY DEF PaymentStates
    <3>3. payment \in [Payment -> PaymentStates]
      BY DEF SessionInv, RowsTyped
    <3>4. payment' \in [Payment -> PaymentStates]
      BY <2>1, <3>2, <3>3, Zenon
    <3>5. months' \in Nat
      BY <2>1, <3>1
    <3> QED
      BY <3>4, <3>5
  <2>4. RowsTyped'
    BY <2>1, <2>2, <2>3 DEF SessionInv, RowsTyped, Calm
  <2> QED
    BY <2>1, <2>2, <2>4, SessionsKept DEF Calm
<1> QED
  BY <1>1, <1>2

\* No step forks a login.
LEMMA SessionsStep == ASSUME SessionInv, [Next]_vars PROVE SessionInv'
<1>1. ASSUME Calms, TokensFade, PaymentsStay PROVE SessionInv'
  <2>1. RowsTyped'
    BY <1>1 DEF SessionInv, RowsTyped, Calms, Calm, TokensFade, PaymentsStay
  <2> QED
    BY <1>1, <2>1, SessionsKept DEF Calms, Calm
<1>2. CASE UNCHANGED vars
  BY <1>1, <1>2, Rows DEF SessionInv, vars, Calms
<1>3. ASSUME NEW r \in Request, Starts(r) PROVE SessionInv'
  <2>1. CASE \E p \in Payment : VerifyLock(r, p)
    BY <2>1, SessionsVerify
  <2>2. CASE ~ \E p \in Payment : VerifyLock(r, p)
    <3>1. Calms /\ UNCHANGED <<token, payment, months>>
      BY <1>3, <2>2, Begins DEF SessionInv, Starts
    <3> QED
      BY <1>1, <3>1, Rows DEF SessionInv
  <2> QED
    BY <2>1, <2>2
<1>4. ASSUME NEW r \in Request, Proceeds(r) PROVE SessionInv'
  <2>1. CASE RefreshRotate(r)
    BY <2>1, RotateStep
  <2>2. CASE \E t \in Token : LoginIssue(r, t) \/ RefreshReplace(r, t)
    BY <2>2, LoginIssueStep, ReplaceStep
  <2>3. CASE VerifyCommit(r)
    BY <2>3, SessionsVerify
  <2>4. CASE \/ ForgotUse(r) \/ ResetCommit(r) \/ DismissCommit(r) \/ FirstLock(r) \/ Commit(r)
             \/ DeadlockAborts(r) \/ MarkReport(r) \/ WipeSessions(r)
             \/ \E l \in Link : ForgotCreate(r, l)
             \/ \E p \in Payment : SubscribeCreate(r, p)
    BY <1>1, <2>4, Writes DEF SessionInv
  <2> QED
    BY <1>4, <2>1, <2>2, <2>3, <2>4 DEF Proceeds
<1>5. ASSUME NEW r \in Request, RefreshRollsBack(r) PROVE SessionInv'
  BY <1>5, RollsBackStep
<1>6. ASSUME NEW r \in Request, RollBack(r) \/ Dies(r) PROVE SessionInv'
  BY <1>1, <1>6, Writes DEF SessionInv
<1>7. CASE \/ \E t \in Token : RefreshBlocked(t) \/ Logout(t) \/ TokenExpires(t)
           \/ \E l \in Link : LinkExpires(l)
           \/ \E p \in Payment : VerifyDeclined(p)
           \/ FileReport \/ SuspensionEnds \/ PeriodEnds
  BY <1>1, <1>7, Writes DEF SessionInv
<1> QED
  BY <1>2, <1>3, <1>4, <1>5, <1>6, <1>7 DEF Next

\* SessionInv is inductive: logins, rotations, revocations and expiries in any order.
THEOREM SessionInvariance == Spec => []SessionInv
<1>1. Init => SessionInv
  BY DEF Init, SessionInv, RowsTyped, LoginsAreKnown, RotationsHoldTheirToken, SessionsDoNotFork, Usable, NoToken,
         TokenRow, TokenStates, PaymentStates, Idle, RequestRow, Pc, Waits
<1> QED
  BY <1>1, SessionsStep, PTL DEF Spec

\* However many requests present the tokens of a login at once, at most one of them
\* can still be used.
THEOREM LoginsDoNotFork == Spec => []SessionsDoNotFork
<1>1. SessionInv => SessionsDoNotFork
  BY DEF SessionInv
<1> QED
  BY <1>1, SessionInvariance, PTL

-----------------------------------------------------------------------------
(* Membership. *)

\* The payments that count are finitely many, since all payments are.
LEMMA PaidIsFinite == IsFiniteSet(Paid) /\ Cardinality(Paid) \in Nat
<1>1. IsFiniteSet(Paid)
  BY AccountsAssumption, FS_Subset DEF Paid
<1> QED
  BY <1>1, FS_CardinalityType

\* No payment comes to count, and the requests that verify one stay or end.
LEMMA MembershipKept ==
    ASSUME MembershipInv, RowsTyped', PaymentsStay,
           \/ request' = request
           \/ \E r \in Request, y \in RequestRow : y.pc # "extend" /\ request' = [request EXCEPT ![r] = y]
    PROVE  MembershipInv'
<1>1. Paid' = Paid
  BY DEF Paid, PaymentsStay
<1>2. \A r \in Request : request'[r] = request[r] \/ request'[r].pc # "extend"
  BY DEF MembershipInv, RowsTyped
<1>3. VerificationsHoldTheirPayment'
  BY <1>1, <1>2 DEF MembershipInv, VerificationsHoldTheirPayment, PaymentsStay
<1>4. NeverMoreThanPaid'
  <2>1. months <= Cardinality(Paid) /\ months' <= months /\ months \in Nat /\ months' \in Nat
    BY DEF MembershipInv, NeverMoreThanPaid, Paid, PaymentsStay, RowsTyped
  <2>2. months' <= Cardinality(Paid)
    BY <2>1, PaidIsFinite
  <2> QED
    BY <1>1, <2>2 DEF NeverMoreThanPaid, Paid
<1> QED
  BY <1>3, <1>4 DEF MembershipInv

\* A login or a rotation touches no payment and no membership.
LEMMA SessionWrites ==
    ASSUME MembershipInv, NEW r \in Request,
           RefreshRotate(r) \/ RefreshRollsBack(r) \/ \E t \in Token : LoginIssue(r, t) \/ RefreshReplace(r, t),
           RowsTyped'
    PROVE  MembershipInv'
<1>1. UNCHANGED <<payment, months>> /\ (Finish(r) \/ Continue(r, "rotating"))
  BY DEF RefreshRotate, RefreshRollsBack, LoginIssue, RefreshReplace, account
<1>2. PaymentsStay
  BY <1>1, Rows DEF MembershipInv
<1>3. \E y \in RequestRow : y.pc # "extend" /\ request' = [request EXCEPT ![r] = y]
  <2>1. CASE Finish(r)
    BY <2>1, Resting DEF MembershipInv, Finish, Calm
  <2>2. CASE Continue(r, "rotating")
    <3> DEFINE y == [request[r] EXCEPT !.pc = "rotating"]
    <3>1. request[r] \in RequestRow
      BY DEF MembershipInv, RowsTyped
    <3>2. y \in RequestRow /\ y.pc = "rotating"
      BY <3>1 DEF RequestRow, Pc
    <3> QED
      BY <2>2, <3>2 DEF Continue
  <2> QED
    BY <1>1, <2>1, <2>2
<1> QED
  BY <1>2, <1>3, MembershipKept

\* A verification reads the membership and takes a payment that nobody verifies.
LEMMA VerifyLockStep ==
    ASSUME MembershipInv, NEW r \in Request, NEW p \in Payment, VerifyLock(r, p)
    PROVE  MembershipInv'
<1> DEFINE y == [kind |-> "verify", pc |-> "extend", on |-> p, seen |-> months]
<1>1. /\ payment[p] \in {"PENDING", "FAILED"} /\ ~Locked(p) /\ UNCHANGED <<token, payment, months>>
      /\ request' = [request EXCEPT ![r] = y]
  BY DEF VerifyLock, Enter, account
<1>2. y \in RequestRow /\ y.on = p /\ y.seen = months
  BY DEF MembershipInv, RowsTyped, RequestRow, Pc, Kinds
<1> HIDE DEF y
<1>3. /\ request' \in [Request -> RequestRow] /\ request'[r] = y
      /\ \A s \in Request \ {r} : request'[s] = request[s]
  BY <1>1, <1>2 DEF MembershipInv, RowsTyped
<1>4. RowsTyped'
  BY <1>1, <1>3 DEF MembershipInv, RowsTyped
<1>5. \A s \in Request : request[s].pc = "extend" => request[s].on # p
  BY <1>1 DEF Locked
<1>6. Paid' = Paid /\ months <= Cardinality(Paid)
  BY <1>1 DEF Paid, MembershipInv, NeverMoreThanPaid
<1>7. VerificationsHoldTheirPayment'
  <2>1. \A s \in Request : request'[s].pc = "extend" =>
          /\ request'[s].on \in Payment /\ payment'[request'[s].on] \in {"PENDING", "FAILED"}
          /\ request'[s].seen <= Cardinality(Paid)
    BY <1>1, <1>2, <1>3, <1>6 DEF MembershipInv, VerificationsHoldTheirPayment
  <2>2. \A s, q \in Request :
          request'[s].pc = "extend" /\ request'[q].pc = "extend" /\ request'[s].on = request'[q].on => s = q
    BY <1>2, <1>3, <1>5 DEF MembershipInv, VerificationsHoldTheirPayment
  <2> QED
    BY <1>6, <2>1, <2>2 DEF VerificationsHoldTheirPayment
<1>8. NeverMoreThanPaid'
  BY <1>1, <1>6 DEF NeverMoreThanPaid, Paid
<1> QED
  BY <1>4, <1>7, <1>8 DEF MembershipInv

\* The payment that is verified comes to count, and the membership grows by a month.
LEMMA VerifyCommitStep ==
    ASSUME MembershipInv, NEW r \in Request, VerifyCommit(r), RowsTyped'
    PROVE  MembershipInv'
<1>1. /\ request[r].pc = "extend" /\ months' = request[r].seen + 1
      /\ payment' = [payment EXCEPT ![request[r].on] = "SUCCESS"]
      /\ request' = [request EXCEPT ![r] = Idle]
  BY DEF VerifyCommit, Waits, Finish
<1>2. PICK p \in Payment : /\ p = request[r].on /\ payment[p] \in {"PENDING", "FAILED"}
                           /\ request[r].seen <= Cardinality(Paid)
  BY <1>1 DEF MembershipInv, VerificationsHoldTheirPayment
<1>3. payment'[p] = "SUCCESS" /\ \A q \in Payment \ {p} : payment'[q] = payment[q]
  BY <1>1, <1>2 DEF MembershipInv, RowsTyped
<1>4. Paid' = Paid \cup {p} /\ p \notin Paid
  BY <1>2, <1>3 DEF Paid
<1>5. Cardinality(Paid') = Cardinality(Paid) + 1
  BY <1>4, PaidIsFinite, FS_AddElement
<1>6. /\ request'[r].pc # "extend" /\ \A s \in Request \ {r} : request'[s] = request[s]
      /\ \A s \in Request \ {r} : request[s].pc = "extend" => request[s].on # p
  BY <1>1, <1>2 DEF MembershipInv, RowsTyped, VerificationsHoldTheirPayment, Idle
<1>7. \A s \in Request : request[s].seen \in Nat
  BY DEF MembershipInv, RowsTyped, RequestRow
<1>8. VerificationsHoldTheirPayment'
  <2>1. ASSUME NEW s \in Request, request'[s].pc = "extend"
        PROVE  /\ request'[s].on \in Payment /\ payment'[request'[s].on] \in {"PENDING", "FAILED"}
               /\ request'[s].seen <= Cardinality(Paid')
    <3>1. /\ request'[s] = request[s] /\ request[s].on \in Payment \ {p} /\ s # r
          /\ payment[request[s].on] \in {"PENDING", "FAILED"} /\ request[s].seen <= Cardinality(Paid)
      BY <1>6, <2>1 DEF MembershipInv, VerificationsHoldTheirPayment
    <3> QED
      BY <1>3, <1>5, <1>7, <3>1, PaidIsFinite
  <2>2. \A s, q \in Request :
          request'[s].pc = "extend" /\ request'[q].pc = "extend" /\ request'[s].on = request'[q].on => s = q
    BY <1>6 DEF MembershipInv, VerificationsHoldTheirPayment
  <2> QED
    BY <2>1, <2>2 DEF VerificationsHoldTheirPayment
<1>9. NeverMoreThanPaid'
  <2>1. months' <= Cardinality(Paid')
    BY <1>1, <1>2, <1>5, <1>7, PaidIsFinite
  <2> QED
    BY <2>1 DEF NeverMoreThanPaid, Paid
<1> QED
  BY <1>8, <1>9 DEF MembershipInv

\* No step grants a month that no payment counts for.
LEMMA MembershipStep == ASSUME MembershipInv, RowsTyped', [Next]_vars PROVE MembershipInv'
<1>1. ASSUME Calms, PaymentsStay PROVE MembershipInv'
  BY <1>1, MembershipKept DEF Calms, Calm
<1>2. CASE UNCHANGED vars
  BY <1>1, <1>2, Rows DEF MembershipInv, vars, Calms
<1>3. ASSUME NEW r \in Request, Starts(r) PROVE MembershipInv'
  <2>1. CASE \E p \in Payment : VerifyLock(r, p)
    BY <2>1, VerifyLockStep
  <2>2. CASE ~ \E p \in Payment : VerifyLock(r, p)
    <3>1. Calms /\ UNCHANGED <<token, payment, months>>
      BY <1>3, <2>2, Begins DEF MembershipInv, Starts
    <3> QED
      BY <1>1, <3>1, Rows DEF MembershipInv
  <2> QED
    BY <2>1, <2>2
<1>4. ASSUME NEW r \in Request, Proceeds(r) PROVE MembershipInv'
  <2>1. CASE RefreshRotate(r) \/ \E t \in Token : LoginIssue(r, t) \/ RefreshReplace(r, t)
    BY <2>1, SessionWrites
  <2>2. CASE VerifyCommit(r)
    BY <2>2, VerifyCommitStep
  <2>3. CASE \/ ForgotUse(r) \/ ResetCommit(r) \/ DismissCommit(r) \/ FirstLock(r) \/ Commit(r)
             \/ DeadlockAborts(r) \/ MarkReport(r) \/ WipeSessions(r)
             \/ \E l \in Link : ForgotCreate(r, l)
             \/ \E p \in Payment : SubscribeCreate(r, p)
    BY <1>1, <2>3, Writes DEF MembershipInv
  <2> QED
    BY <1>4, <2>1, <2>2, <2>3 DEF Proceeds
<1>5. ASSUME NEW r \in Request, RefreshRollsBack(r) PROVE MembershipInv'
  BY <1>5, SessionWrites
<1>6. ASSUME NEW r \in Request, RollBack(r) \/ Dies(r) PROVE MembershipInv'
  BY <1>1, <1>6, Writes DEF MembershipInv
<1>7. CASE \/ \E t \in Token : RefreshBlocked(t) \/ Logout(t) \/ TokenExpires(t)
           \/ \E l \in Link : LinkExpires(l)
           \/ \E p \in Payment : VerifyDeclined(p)
           \/ FileReport \/ SuspensionEnds \/ PeriodEnds
  BY <1>1, <1>7, Writes DEF MembershipInv
<1> QED
  BY <1>2, <1>3, <1>4, <1>5, <1>6, <1>7 DEF Next

\* MembershipInv is inductive beside SessionInv, whatever verifies, declines or expires.
THEOREM MembershipInvariance == Spec => []MembershipInv
<1>1. Init => MembershipInv
  <2>1. ASSUME Init PROVE MembershipInv
    <3>1. RowsTyped /\ months = 0 /\ \A r \in Request : request[r].pc = "idle"
      BY <2>1 DEF Init, RowsTyped, NoToken, TokenRow, TokenStates, PaymentStates, Idle, RequestRow, Pc
    <3> QED
      BY <3>1, PaidIsFinite DEF MembershipInv, VerificationsHoldTheirPayment, NeverMoreThanPaid, Paid
  <2> QED
    BY <2>1
<1>2. SessionInv => RowsTyped
  BY DEF SessionInv
<1> QED
  BY <1>1, <1>2, SessionInvariance, MembershipStep, PTL DEF Spec

\* A membership never runs longer than its payments paid for.
THEOREM MembershipsArePaidFor == Spec => []NeverMoreThanPaid
<1>1. MembershipInv => NeverMoreThanPaid
  BY DEF MembershipInv
<1> QED
  BY <1>1, MembershipInvariance, PTL
=============================================================================

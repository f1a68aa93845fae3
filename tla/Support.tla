------------------------------- MODULE Support -------------------------------
(***************************************************************************)
(* One support request (support.service.ts): its requester, a member or a  *)
(* guest with a private link, its administrators, and the pages through    *)
(* which they write (features/support, features/admin).                   *)
(*                                                                         *)
(* Every call reads the request before it writes it by its id, so a write  *)
(* may follow a change the call did not see.  Messages are numbered in the *)
(* order they are stored; an answer brings the page the whole request.     *)
(***************************************************************************)
EXTENDS Naturals, FiniteSets

CONSTANTS
    Agent,
    Requester,      \* who opened the request
    NotSent,        \* the request does not exist yet
    MaxLetters,     \* bound on the messages
    MaxUpdates,     \* bound on the changes of status without a message
    MaxLostAnswers  \* bound on the lost answers

ASSUME SupportAssumption ==
    /\ Requester \notin Agent
    /\ MaxLetters \in Nat \ {0} /\ MaxUpdates \in Nat /\ MaxLostAnswers \in Nat

VARIABLES
    inquiry,    \* the SupportRequest row: status, messages so far, those of the requester
    isGuest,    \* the requester writes through the private link
    linkEnded,  \* manageTokenExpiresAt has passed
    mails,      \* mail jobs: 0 for the receipt, n for the n-th message
    screen,     \* the status each page shows
    call,       \* the request each page has in flight
    known,      \* messages that an administrator's page has shown (history)
    astray,     \* messages only an administrator's lost answer carried (history)
    updates, lostAnswers

supportVars == <<inquiry, isGuest, linkEnded, mails, screen, call, known, astray, updates, lostAnswers>>

Party == Agent \cup {Requester}
\* WAITING_ON_USER stands for IN_PROGRESS and RESOLVED too.
RequestStatus == {"OPEN", "WAITING_ON_USER", "CLOSED"}
Call == [kind : {"none", "load", "reply", "update"}, at : {"idle", "read", "answered"},
         status : RequestStatus \cup {NotSent}, count : 0..MaxLetters]

Resting == [kind |-> "none", at |-> "idle", status |-> NotSent, count |-> 0]

SupportInit ==
    /\ inquiry = [status |-> NotSent, count |-> 0, theirs |-> {}]
    /\ isGuest \in BOOLEAN
    /\ linkEnded = FALSE
    /\ mails = {}
    /\ screen = [p \in Party |-> NotSent]
    /\ call = [p \in Party |-> Resting]
    /\ known = {} /\ astray = {}
    /\ updates = 0 /\ lostAnswers = 0

-----------------------------------------------------------------------------
(* The pages.  Every control of a page is disabled while its call is under    *)
(* way.  A call and the service's first read of the request are one step: a   *)
(* call that is served later is one made later.                               *)

MayEnter(p) == p = Requester /\ isGuest => ~linkEnded

Calls(p, kind, st) ==
    /\ call[p].at = "idle"
    /\ call' = [call EXCEPT ![p] = [kind |-> kind, at |-> "read", status |-> st, count |-> 0]]

\* A page opens the request, or an administrator's refreshes it: findManagedGuestRequest
\* and the other reads; an expired link finds nothing.
LoadsRequest(p) ==
    /\ inquiry.status # NotSent /\ MayEnter(p)
    /\ call[p].at = "idle"
    /\ call' = [call EXCEPT ![p] =
          [kind |-> "load", at |-> "answered", status |-> inquiry.status, count |-> inquiry.count]]
    /\ UNCHANGED <<inquiry, isGuest, linkEnded, mails, screen, known, astray, updates, lostAnswers>>

\* submitReply: the thread offers a reply unless the request it shows is closed, and the
\* service, assertCanReply, takes one unless the request it reads is.
SendsReply(p) ==
    /\ screen[p] \notin {NotSent, "CLOSED"}
    /\ MayEnter(p) /\ inquiry.status # "CLOSED"
    /\ \E st \in (IF p = Requester THEN {"OPEN"} ELSE RequestStatus \ {"CLOSED"}) : Calls(p, "reply", st)
    /\ UNCHANGED <<inquiry, isGuest, linkEnded, mails, screen, known, astray, updates, lostAnswers>>

\* updateRequest: an administrator sets the status; the priority is left out.
SendsUpdate(a) ==
    /\ screen[a] # NotSent
    /\ updates < MaxUpdates
    /\ updates' = updates + 1
    /\ \E st \in RequestStatus \ {screen[a]} : Calls(a, "update", st)
    /\ UNCHANGED <<inquiry, isGuest, linkEnded, mails, screen, known, astray, lostAnswers>>

-----------------------------------------------------------------------------
(* The writes of the service.                                                *)

Answers(p, st, n) ==
    call' = [call EXCEPT ![p] = [kind |-> @.kind, at |-> "answered", status |-> st, count |-> n]]

\* submitRequest of the contact page, createRequest: the row, its first message and the
\* receipt in one transaction.  The contact page shows no request; it is opened later.
CreatesRequest ==
    /\ inquiry.status = NotSent
    /\ inquiry' = [status |-> "OPEN", count |-> 1, theirs |-> {1}]
    /\ mails' = mails \cup {0}
    /\ UNCHANGED <<isGuest, linkEnded, screen, call, known, astray, updates, lostAnswers>>

\* Variant: only a resolved request is opened again by its requester's message.
RequesterReplies_KeepsWaiting ==
    LET st == IF inquiry.status = "WAITING_ON_USER" THEN inquiry.status ELSE "OPEN" IN
    /\ call[Requester].at = "read"
    /\ inquiry.count < MaxLetters
    /\ inquiry' = [status |-> st, count |-> inquiry.count + 1, theirs |-> inquiry.theirs \cup {inquiry.count + 1}]
    /\ Answers(Requester, st, inquiry.count + 1)
    /\ UNCHANGED <<isGuest, linkEnded, mails, screen, known, astray, updates, lostAnswers>>

\* replyAsMember, replyAsGuest: the update by id, whatever the request has become since.
RequesterReplies ==
    /\ call[Requester].at = "read"
    /\ inquiry.count < MaxLetters
    /\ inquiry' = [status |-> "OPEN", count |-> inquiry.count + 1, theirs |-> inquiry.theirs \cup {inquiry.count + 1}]
    /\ Answers(Requester, "OPEN", inquiry.count + 1)
    /\ UNCHANGED <<isGuest, linkEnded, mails, screen, known, astray, updates, lostAnswers>>

\* replyAsAdmin: the message, the status the page chose and the mail in one transaction.
AdminReplies(a) ==
    /\ call[a].at = "read" /\ call[a].kind = "reply"
    /\ inquiry.count < MaxLetters
    /\ inquiry' = [inquiry EXCEPT !.status = call[a].status, !.count = @ + 1]
    /\ mails' = mails \cup {inquiry.count + 1}
    /\ Answers(a, call[a].status, inquiry.count + 1)
    /\ UNCHANGED <<isGuest, linkEnded, screen, known, astray, updates, lostAnswers>>

\* updateAdminRequest
AdminUpdates(a) ==
    /\ call[a].at = "read" /\ call[a].kind = "update"
    /\ inquiry' = [inquiry EXCEPT !.status = call[a].status]
    /\ Answers(a, call[a].status, inquiry.count)
    /\ UNCHANGED <<isGuest, linkEnded, mails, screen, known, astray, updates, lostAnswers>>

\* setRequest(result)
ShowsRequest(p) ==
    LET c == call[p] IN
    /\ c.at = "answered"
    /\ screen' = [screen EXCEPT ![p] = c.status]
    /\ known' = IF p \in Agent THEN known \cup 1..c.count ELSE known
    /\ call' = [call EXCEPT ![p] = Resting]
    /\ UNCHANGED <<inquiry, isGuest, linkEnded, mails, astray, updates, lostAnswers>>

\* The answer is lost: the page shows an error and keeps the draft.
AnswerIsLost(p) ==
    /\ call[p].at = "answered"
    /\ lostAnswers < MaxLostAnswers
    /\ lostAnswers' = lostAnswers + 1
    /\ astray' = IF p \in Agent THEN astray \cup 1..call[p].count ELSE astray
    /\ call' = [call EXCEPT ![p] = Resting]
    /\ UNCHANGED <<inquiry, isGuest, linkEnded, mails, screen, known, updates>>

\* 180 days pass.
LinkEnds ==
    /\ isGuest /\ inquiry.status # NotSent /\ ~linkEnded
    /\ linkEnded' = TRUE
    /\ UNCHANGED <<inquiry, isGuest, mails, screen, call, known, astray, updates, lostAnswers>>

-----------------------------------------------------------------------------
SupportNext ==
    \/ CreatesRequest \/ RequesterReplies \/ LinkEnds
    \/ \E p \in Party : LoadsRequest(p) \/ SendsReply(p) \/ ShowsRequest(p) \/ AnswerIsLost(p)
    \/ \E a \in Agent : SendsUpdate(a) \/ AdminReplies(a) \/ AdminUpdates(a)

SupportSpec == SupportInit /\ [][SupportNext]_supportVars

-----------------------------------------------------------------------------
SupportTypeOK ==
    /\ inquiry.status \in RequestStatus \cup {NotSent}
    /\ inquiry.count \in 0..MaxLetters /\ inquiry.theirs \subseteq 1..inquiry.count
    /\ isGuest \in BOOLEAN /\ linkEnded \in BOOLEAN
    /\ mails \subseteq 0..MaxLetters
    /\ screen \in [Party -> RequestStatus \cup {NotSent}] /\ call \in [Party -> Call]
    /\ known \subseteq 1..MaxLetters /\ astray \subseteq 1..MaxLetters
    /\ updates \in 0..MaxUpdates /\ lostAnswers \in 0..MaxLostAnswers

\* A request that is no longer open hides no message of its requester: whoever moved it out
\* of the open queue has been shown every message, or is being answered with it, however
\* the reply of an administrator and the requester's own crossed.
NoMessageIsBuried ==
    inquiry.status # "OPEN" =>
        \A m \in inquiry.theirs :
            \/ m \in known \cup astray
            \/ \E a \in Agent : call[a].at = "answered" /\ m <= call[a].count
=============================================================================

------------------------------- MODULE Checkout -------------------------------
(***************************************************************************)
(* Tickets chosen before the guest has an account: the choice is kept in   *)
(* the browser (pending-event-checkout.ts), the home page orders it once   *)
(* somebody is logged in (app/page.tsx), and the page that the payment     *)
(* provider returns to forgets it (payment/callback/page.tsx).             *)
(*                                                                         *)
(* One browser and one event.  A request outlives the page that made it    *)
(* when the application changes the page, and not when the document goes.  *)
(* What the server does to seats and payments is module Ticketing: here an *)
(* order may be refused, booked, or has to be paid.                        *)
(***************************************************************************)
EXTENDS Naturals, Sequences, FiniteSets

CONSTANTS
    Tier,           \* the ticket tiers of the event
    NoTier,         \* in place of a tier: nothing chosen, or membership alone
    MaxOrders,      \* bound on the orders
    MaxHomeVisits,  \* bound on the visits of the home page
    MaxChoices,     \* bound on what guests choose
    MaxTurns        \* bound on what happens around: tiers, accounts, time, lost answers

ASSUME CheckoutAssumption ==
    /\ NoTier \notin Tier
    /\ {MaxOrders, MaxHomeVisits, MaxChoices, MaxTurns} \subseteq Nat

VARIABLES
    offered,        \* the tiers the event has and whether they are free
    account,        \* the account that uses the browser, as the server has it
    session,        \* the user that the browser has, as it knows it
    kept,           \* localStorage: the tier chosen, and whether within half an hour
    tab,            \* the page
    orders,         \* the orders in the order they were made
    preview,        \* the load of the event on the home page
    verifying,      \* the verification of the callback page
    owed,           \* the last choice, until any answer or half an hour forgets it (history)
    spent           \* what the bounds have used

checkoutVars == <<offered, account, session, kept, tab, orders, preview, verifying, owed, spent>>

NothingKept == [tier |-> NoTier, fresh |-> FALSE]

\* HomeContent when it mounts.
NewHome(at, visit, tier) ==
    [at |-> at, visit |-> visit, door |-> FALSE, started |-> FALSE, intent |-> tier,
     shows |-> {}, busy |-> FALSE]

Elsewhere(visit) == NewHome("elsewhere", visit, NoTier)

NoVerification == [at |-> "none", of |-> 0]

InFlight == {"sent", "refused", "booked", "payable"}

CheckoutInit ==
    /\ offered \in [tiers : {Tier}, free : BOOLEAN]
    /\ account \in {"deactivated", "unpaid", "member"}
    /\ session = "nobody" /\ kept = NothingKept
    /\ tab = Elsewhere(0)
    /\ orders = <<>>
    /\ preview = "none" /\ verifying = NoVerification /\ owed = NoTier
    /\ spent = [choices |-> 0, turns |-> 0]

Turn == spent.turns < MaxTurns /\ spent' = [spent EXCEPT !.turns = @ + 1]

-----------------------------------------------------------------------------
(* Orders and the effect that makes them.                                    *)

\* getPendingEventCheckout: what is too old is dropped when it is read.
Pending == IF kept.fresh THEN kept.tier ELSE NoTier
AfterReading == IF kept.fresh THEN kept ELSE NothingKept

\* startPendingEventCheckout; joins says that the server asked for the membership too.
Order(tier, visit, redirects) ==
    [tier |-> tier, visit |-> visit, redirects |-> redirects, joins |-> FALSE, at |-> "sent"]

\* Variant: the ref that remembers the order is not looked at.
StartsByItself_EveryTime(t, tier) == tier # NoTier

StartsByItself(t, tier) == tier # NoTier /\ ~t.started

CanEnter(t, user) == user = "member" \/ (t.door /\ user = "unpaid")

\* The effect of the home page, whenever its user or its token has changed: whoever may
\* enter goes on, or first orders what is pending, once in a visit.
HomeEffect(t, user, made) ==
    IF t.at # "home" \/ ~CanEnter(t, user) \/ t.door
    THEN /\ tab' = IF t.at = "home" /\ CanEnter(t, user) THEN Elsewhere(t.visit) ELSE t
         /\ orders' = made /\ UNCHANGED kept
    ELSE /\ kept' = AfterReading
         /\ IF StartsByItself(t, Pending)
            THEN /\ Len(made) < MaxOrders
                 /\ orders' = Append(made, Order(Pending, t.visit, TRUE))
                 /\ tab' = [t EXCEPT !.started = TRUE, !.busy = TRUE]
            ELSE tab' = Elsewhere(t.visit) /\ orders' = made

\* bookEvent of a guest, or of somebody whose membership is not active: nothing is ordered.
ChoosesTickets(tier) ==
    /\ tab.at = "elsewhere" /\ session # "member" /\ spent.choices < MaxChoices
    /\ spent' = [spent EXCEPT !.choices = @ + 1]
    /\ kept' = [tier |-> tier, fresh |-> TRUE]
    /\ owed' = tier
    /\ UNCHANGED <<offered, account, session, tab, orders, preview, verifying>>

\* A guest comes with a path to go to, which may be the one of the check-in page.
OpensHome(door) ==
    /\ tab.at = "elsewhere" /\ tab.visit < MaxHomeVisits
    /\ HomeEffect([NewHome("home", tab.visit + 1, Pending) EXCEPT !.door = door], session, orders)
    /\ preview' = IF tab'.at = "home" /\ Pending # NoTier THEN "sent" ELSE "none"
    /\ UNCHANGED <<offered, account, session, verifying, owed, spent>>

LeavesHome ==
    /\ tab.at = "home" /\ ~CanEnter(tab, session)
    /\ tab' = Elsewhere(tab.visit) /\ preview' = "none"
    /\ UNCHANGED <<offered, account, session, kept, orders, verifying, owed, spent>>

\* loadCheckoutEvent.  A tier that is gone is replaced by the first one of the event, on
\* the screen only.
PreviewArrives ==
    /\ tab.at = "home" /\ preview = "sent"
    /\ \/ /\ tab' = [tab EXCEPT !.shows = IF tab.intent \in offered.tiers THEN {tab.intent} ELSE offered.tiers]
          /\ preview' = "ready" /\ UNCHANGED spent
       \/ preview' = "error" /\ Turn /\ UNCHANGED tab
    /\ UNCHANGED <<offered, account, session, kept, orders, verifying, owed>>

-----------------------------------------------------------------------------
(* The session.                                                              *)

\* handleAuthSubmit: a member with nothing pending, and whoever came for the door, goes on;
\* the others are what the effect decides.
LogsIn ==
    /\ tab.at \in {"home", "callback"} /\ session = "nobody"
    /\ session' = account
    /\ HomeEffect(tab, account, orders)
    /\ UNCHANGED <<offered, account, preview, verifying, owed, spent>>

\* The token is renewed, or the user is read again.
SessionRenewed ==
    /\ session # "nobody" /\ Turn
    /\ session' = account
    /\ HomeEffect(tab, account, orders)
    /\ UNCHANGED <<offered, account, preview, verifying, owed>>

\* reactivateAccount
Reactivates ==
    /\ tab.at = "home" /\ session = "deactivated"
    /\ account' = IF account = "deactivated" THEN "unpaid" ELSE account
    /\ session' = account'
    /\ HomeEffect(tab, account', orders)
    /\ UNCHANGED <<offered, preview, verifying, owed, spent>>

\* By the button, or because the session is refused; the home page may then give way.
SessionEnds ==
    /\ session # "nobody" /\ Turn
    /\ session' = "nobody"
    /\ tab' \in {tab} \cup (IF tab.at = "home" THEN {Elsewhere(tab.visit)} ELSE {})
    /\ preview' = IF tab' = tab THEN preview ELSE "none"
    /\ UNCHANGED <<offered, account, kept, orders, verifying, owed>>

-----------------------------------------------------------------------------
(* The paywall and the answers.                                              *)

\* The button of PaywallShell waits for the preview of what is pending.
PaywallReady == ~tab.busy /\ (tab.intent # NoTier => preview = "ready" /\ tab.shows # {})

\* startSubscription: what is pending is ordered with the membership, otherwise the
\* membership alone.
PaysAtPaywall ==
    LET tier == IF tab.intent # NoTier THEN tab.intent ELSE Pending IN
    /\ tab.at = "home" /\ session = "unpaid" /\ ~tab.door /\ PaywallReady /\ Len(orders) < MaxOrders
    /\ kept' = IF tab.intent # NoTier THEN kept ELSE AfterReading
    /\ tab' = [tab EXCEPT !.started = @ \/ tier # NoTier, !.busy = TRUE]
    /\ orders' = Append(orders, Order(tier, tab.visit, FALSE))
    /\ UNCHANGED <<offered, account, session, preview, verifying, owed, spent>>

\* initializeEventTicketCheckout, and initializeSubscription for the membership alone.
OrderRuns(o) ==
    /\ orders[o].at = "sent"
    /\ \E at \in {"refused", "booked", "payable"} :
          /\ at # "refused" => account # "deactivated" /\ orders[o].tier \in offered.tiers \cup {NoTier}
          /\ at = "booked" <=> at # "refused" /\ account = "member" /\ (offered.free \/ orders[o].tier = NoTier)
          /\ orders' = [orders EXCEPT ![o].at = at, ![o].joins = account # "member"]
    /\ UNCHANGED <<offered, account, session, kept, tab, preview, verifying, owed, spent>>

\* The page of an order: only its own visit still has the flags that the answer changes.
Concerns(o) == tab.visit = orders[o].visit /\ tab.at = "home"

\* Nothing to pay: the choice is forgotten and the event opened.  The membership alone was
\* active already: the user changes, and the effect follows.
OrderIsBooked(o) ==
    LET settled == [orders EXCEPT ![o].at = "settled"]
        user == IF session = "unpaid" THEN "member" ELSE session
    IN
    /\ orders[o].at = "booked"
    /\ IF orders[o].tier = NoTier
       THEN /\ session' = user /\ UNCHANGED owed
            /\ HomeEffect(IF Concerns(o) THEN [tab EXCEPT !.busy = FALSE] ELSE tab, user, settled)
       ELSE /\ kept' = NothingKept /\ owed' = NoTier
            /\ tab' = Elsewhere(tab.visit) /\ orders' = settled /\ UNCHANGED session
    /\ preview' = IF tab'.at = "home" THEN preview ELSE "none"
    /\ UNCHANGED <<offered, account, verifying, spent>>

\* The browser goes to the provider; the requests of the document go with it.
OrderIsPayable(o) ==
    /\ orders[o].at = "payable"
    /\ orders' = [i \in 1..Len(orders) |->
                    IF i = o THEN [orders[i] EXCEPT !.at = "open"]
                    ELSE IF orders[i].at \in InFlight THEN [orders[i] EXCEPT !.at = "cut off"] ELSE orders[i]]
    /\ tab' = [Elsewhere(tab.visit) EXCEPT !.at = "provider"]
    /\ preview' = "none" /\ verifying' = NoVerification
    /\ UNCHANGED <<offered, account, session, kept, owed, spent>>

\* Refused, or the answer is lost.  The effect's order forgets the choice and says why on
\* the page of the event (also a newer choice, when the order outlived its page); the
\* paywall's shows why and keeps it for another try.
OrderFails(o) ==
    /\ orders[o].at \in InFlight
    /\ IF orders[o].at = "refused" THEN UNCHANGED spent ELSE Turn
    /\ orders' = [orders EXCEPT ![o].at = IF @ \in {"sent", "payable"} THEN "lost" ELSE "settled"]
    /\ IF orders[o].redirects
       THEN /\ kept' = NothingKept /\ owed' = NoTier
            /\ tab' = Elsewhere(tab.visit) /\ preview' = "none"
       ELSE /\ tab' = IF Concerns(o) THEN [tab EXCEPT !.started = FALSE, !.busy = FALSE] ELSE tab
            /\ UNCHANGED <<kept, owed, preview>>
    /\ UNCHANGED <<offered, account, session, verifying>>

-----------------------------------------------------------------------------
(* The provider and the way back.                                            *)

\* The provider sends the browser to the callback page, paid or not.
ProviderReturns(o, paid) ==
    /\ tab.at = "provider" /\ orders[o].at = "open"
    /\ orders' = [orders EXCEPT ![o].at = IF paid THEN "paid" ELSE "open"]
    /\ tab' = [tab EXCEPT !.at = "callback"]
    /\ verifying' = [at |-> "waiting", of |-> o]
    /\ UNCHANGED <<offered, account, session, kept, preview, owed, spent>>

\* The buyer goes back instead: the home page mounts again, or is opened later.
BacksOut ==
    /\ tab.at \in {"provider", "callback"}
    /\ tab' = Elsewhere(tab.visit)
    /\ verifying' = NoVerification
    /\ UNCHANGED <<offered, account, session, kept, orders, preview, owed, spent>>

\* Once in a visit, when the session is known: verifyEventTicketCheckoutPayment.
VerifyRuns ==
    LET o == orders[verifying.of] IN
    /\ verifying.at = "waiting" /\ session # "nobody" /\ account # "deactivated"
    /\ account' = IF o.at = "paid" /\ o.joins THEN "member" ELSE account
    /\ verifying' = [verifying EXCEPT !.at = IF o.at = "paid" THEN "success" ELSE "pending"]
    /\ UNCHANGED <<offered, session, kept, tab, orders, preview, owed, spent>>

\* Variant: a payment that is still pending forgets the choice as well.
Forgets_WhateverTheStatus(status, tier) == tier # NoTier

Forgets(status, tier) == status = "success" /\ tier # NoTier

\* A payment that is not a success leaves the page with its message.  The verification of
\* an older payment forgets a newer choice too.
VerifyArrives ==
    LET o == orders[verifying.of] IN
    /\ verifying.at \in {"success", "pending"}
    /\ session' = IF verifying.at = "success" /\ o.joins /\ session # "nobody" THEN account ELSE session
    /\ kept' = IF Forgets(verifying.at, o.tier) THEN NothingKept ELSE kept
    /\ owed' = IF verifying.at = "success" /\ o.tier # NoTier THEN NoTier ELSE owed
    /\ tab' = IF verifying.at = "success" THEN Elsewhere(tab.visit) ELSE tab
    /\ verifying' = [verifying EXCEPT !.at = "none"]
    /\ UNCHANGED <<offered, account, orders, preview, spent>>

VerifyIsLost ==
    /\ verifying.at # "none" /\ Turn
    /\ verifying' = [verifying EXCEPT !.at = "none"]
    /\ UNCHANGED <<offered, account, session, kept, tab, orders, preview, owed>>

ReloadsCallback ==
    /\ tab.at = "callback" /\ verifying.at = "none" /\ Turn
    /\ verifying' = [verifying EXCEPT !.at = "waiting"]
    /\ UNCHANGED <<offered, account, session, kept, tab, orders, preview, owed>>

-----------------------------------------------------------------------------
(* Around the browser.                                                       *)

TierIsWithdrawn(tier) ==
    /\ tier \in offered.tiers /\ Turn
    /\ offered' = [offered EXCEPT !.tiers = @ \ {tier}]
    /\ UNCHANGED <<account, session, kept, tab, orders, preview, verifying, owed>>

\* The membership ends, or is paid from another device.
MembershipTurns ==
    /\ account # "deactivated" /\ Turn
    /\ account' = IF account = "member" THEN "unpaid" ELSE "member"
    /\ UNCHANGED <<offered, session, kept, tab, orders, preview, verifying, owed>>

HalfAnHourPasses ==
    /\ kept.fresh /\ Turn
    /\ kept' = [kept EXCEPT !.fresh = FALSE] /\ owed' = NoTier
    /\ UNCHANGED <<offered, account, session, tab, orders, preview, verifying>>

CheckoutNext ==
    \/ \E tier \in Tier : ChoosesTickets(tier) \/ TierIsWithdrawn(tier)
    \/ \E door \in BOOLEAN : OpensHome(door)
    \/ LeavesHome \/ PreviewArrives
    \/ LogsIn \/ SessionRenewed \/ Reactivates \/ SessionEnds \/ PaysAtPaywall
    \/ \E o \in 1..Len(orders) :
        \/ OrderRuns(o) \/ OrderIsBooked(o) \/ OrderIsPayable(o) \/ OrderFails(o)
        \/ \E paid \in BOOLEAN : ProviderReturns(o, paid)
    \/ BacksOut \/ VerifyRuns \/ VerifyArrives \/ VerifyIsLost \/ ReloadsCallback
    \/ MembershipTurns \/ HalfAnHourPasses

CheckoutSpec == CheckoutInit /\ [][CheckoutNext]_checkoutVars

-----------------------------------------------------------------------------

\* One visit of the home page never has two orders on their way, however often its user
\* or token changes (hasStartedPendingCheckout of app/page.tsx), and nothing but an answer
\* that forgets choices, or half an hour, takes the last choice from what is kept for the
\* next visit (pending-event-checkout.ts, payment/callback/page.tsx).  The answer need not
\* be the choice's own: that of an older order or payment forgets a newer choice too.
ChoiceIsOrderedOnce ==
    /\ \A i, j \in 1..Len(orders) :
          i # j /\ orders[i].visit = orders[j].visit => ~({orders[i].at, orders[j].at} \subseteq InFlight)
    /\ owed # NoTier => kept = [tier |-> owed, fresh |-> TRUE]
=============================================================================

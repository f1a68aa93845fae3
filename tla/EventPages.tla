------------------------------ MODULE EventPages ------------------------------
(***************************************************************************)
(* The pages on which events are looked at and booked: the list of events  *)
(* (member-events-tab.tsx), the page of one event (event-tickets-tab.tsx)  *)
(* and the dialog both open (ticket-checkout-modal.tsx), with what the API *)
(* answers them (events.service.ts).                                       *)
(*                                                                         *)
(* One browser.  A page is mounted for a viewer, rereads its events every  *)
(* minute and whenever the tab is returned to, and is mounted anew when    *)
(* the viewer changes.  Payments are module Ticketing, a guest's codes are *)
(* module GuestBookings, and the way of a guest to an account is module    *)
(* Checkout.                                                               *)
(***************************************************************************)
EXTENDS Integers, Sequences, FiniteSetsExt

CONSTANTS
    Event,
    FreeTier, PaidTier,   \* a tier is a number, its place in the order of the tiers
    Member,
    Nobody,         \* in place of a member: a guest
    NoEvent,        \* in place of an event: no dialog, nothing busy
    NotStored,      \* in place of a list: the cache or the server gave none
    Seats, Limit,   \* of each tier: its seats, and how many one member may have
    MaxReads,       \* bound on the reads of the pages
    MaxAsks,        \* bound on what the visitors ask for
    MaxMounts,      \* bound on the effects that pages start
    MaxChanges      \* bound on what happens around: events, sessions, lost answers

ASSUME EventPagesAssumption ==
    /\ FreeTier \cup PaidTier \subseteq Nat \ {0} /\ FreeTier \cap PaidTier = {}
    /\ Nobody \notin Member /\ NoEvent \notin Event
    /\ {Seats, Limit, MaxReads, MaxAsks, MaxMounts, MaxChanges} \subseteq Nat

VARIABLES
    show,       \* the events as the server has them
    viewer,     \* the member whose session the browser has
    cache,      \* the query cache: the list for guests and the list for members
    screen,     \* the page
    dialog,     \* the ticket dialog
    reads,      \* the reads of the pages, in the order they were made
    asks,       \* bookings, guest orders and joining of rooms, in the order they were made
    latest,     \* the newest read that the page has taken in, and its events (history)
    changes     \* what the bound has used

eventPageVars == <<show, viewer, cache, screen, dialog, reads, asks, latest, changes>>

EventTier == FreeTier \cup PaidTier

\* getEventTicketTypes sorts them.
First(view) == IF DOMAIN view.left = {} THEN 0 ELSE Min(DOMAIN view.left)

-----------------------------------------------------------------------------
(* What the API answers.                                                     *)

\* getBookableEventWhere
Bookable(e) == show[e].status = "open"

Owns(e, who) == who # Nobody /\ \E t \in EventTier : show[e].owned[who][t] > 0

\* getHistoricalMemberEventWhere
Historical(e, who) == show[e].status = "over" /\ Owns(e, who)

\* formatEvent: the tickets and the room of one member, or those of no one.
View(e, who) ==
    [open |-> Bookable(e),
     left |-> [t \in show[e].tiers |-> show[e].left[t]],
     mine |-> [t \in EventTier |-> IF who = Nobody THEN 0 ELSE show[e].owned[who][t]],
     joined |-> who \in show[e].joined,
     of |-> who]

Views(events, who) == [e \in events |-> View(e, who)]

\* getPublicEvents, getPublishedEvents
OpenEvents(who) == Views({e \in Event : Bookable(e)}, who)

\* getEventHistory
PastEvents(who) == Views({e \in Event : Historical(e, who)}, who)

\* getPublicEvent, getEventTickets: one event, or 404.
OneEvent(e, who) == Views({x \in {e} : Bookable(x) \/ Historical(x, who)}, who)

-----------------------------------------------------------------------------
(* What a page makes of its events (event-display.ts).                       *)

Remaining(view, t) == Max({0, Limit - view.mine[t]})

\* getMaxPurchaseQuantity, getMaxQuantity
MostOf(view, t) ==
    IF view.open /\ t \in DOMAIN view.left THEN Min({view.left[t], Remaining(view, t)}) ELSE 0

\* getEventTicketAvailability
CanBookMore(view) == \E t \in DOMAIN view.left : MostOf(view, t) > 0

\* memberEventsForMode and visibleMemberEvents: the filter lets some events through.
Cards == IF screen.mode = "history" THEN screen.past ELSE {e \in DOMAIN screen.events : screen.events[e].open}
Visible == Cards \cap screen.lets

NoDialog == [of |-> NoEvent, tier |-> 0, quantity |-> 1, step |-> "choose", order |-> 0, waits |-> 0]

\* The dialog shows the tier that was chosen, or the first one when that is gone.
ShownTier(view) == IF dialog.tier \in DOMAIN view.left THEN dialog.tier ELSE First(view)

\* selectedQuantity
ShownQuantity(view) ==
    LET most == MostOf(view, ShownTier(view))
    IN IF most > 0 THEN Min({Max({1, dialog.quantity}), most}) ELSE 1

Away == [at |-> "away", of |-> NoEvent, effect |-> 0, mount |-> 0, given |-> NotStored, events |-> <<>>,
         past |-> {}, mode |-> "events", lets |-> {}, loading |-> FALSE, busy |-> NoEvent]

\* A dialog lives as long as the page has its event; when the event is back it is new.
DialogKept(d, events) ==
    IF d.of = NoEvent THEN NoDialog
    ELSE IF d.of \notin DOMAIN events THEN [NoDialog EXCEPT !.of = d.of]
    ELSE IF d.tier = 0 THEN [d EXCEPT !.tier = First(events[d.of])] ELSE d

EventPagesInit ==
    /\ show = [e \in Event |-> [status |-> "open", tiers |-> EventTier, left |-> [t \in EventTier |-> Seats],
                                owned |-> [m \in Member |-> [t \in EventTier |-> 0]], joined |-> {}]]
    /\ viewer \in Member \cup {Nobody}
    /\ cache = [public |-> NotStored, member |-> NotStored]
    /\ screen = Away /\ dialog = NoDialog
    /\ reads = <<>> /\ asks = <<>>
    /\ latest = [read |-> 0, events |-> {}]
    /\ changes = 0

Around == changes < MaxChanges /\ changes' = changes + 1

-----------------------------------------------------------------------------
(* Mounting.                                                                 *)

Scope(who) == IF who = Nobody THEN "public" ELSE "member"

\* The effects that write the list into the cache (member-events-tab.tsx).
Stored(c, who, given, events) ==
    LET seeded == IF given # NotStored THEN [c EXCEPT !.public = given] ELSE c
    IN IF given # NotStored \/ DOMAIN events # {} THEN [seeded EXCEPT ![Scope(who)] = events] ELSE seeded

\* MemberEventsTab mounts: it has the list of the route, or the one that is cached.
MountsList(given, who, c) ==
    LET known == IF given # NotStored THEN given ELSE c[Scope(who)]
        events == IF known # NotStored THEN known ELSE <<>>
    IN
    /\ screen' = [Away EXCEPT !.at = "list", !.effect = screen.effect + 1, !.mount = screen.mount + 1,
                              !.given = given, !.events = events, !.lets = Event, !.loading = known = NotStored]
    /\ cache' = Stored(c, who, given, events)
    /\ latest' = [read |-> Len(reads), events |-> DOMAIN events]

\* EventTicketsTab mounts, keyed by its event; a member waits for the first read.
MountsEvent(e, given, who, c) ==
    LET events == IF given # NotStored THEN given ELSE <<>> IN
    /\ screen' = [Away EXCEPT !.at = "event", !.of = e, !.effect = screen.effect + 1, !.mount = screen.mount + 1,
                              !.given = given, !.events = events, !.loading = who # Nobody]
    /\ cache' = c
    /\ latest' = [read |-> Len(reads), events |-> DOMAIN events]

\* The route reads the public list on the server for whoever asks (app/events/page.tsx).
OpensList(served) ==
    /\ screen.at # "list" /\ screen.effect < MaxMounts
    /\ MountsList(IF served THEN OpenEvents(Nobody) ELSE NotStored, viewer, cache)
    /\ dialog' = NoDialog
    /\ UNCHANGED <<show, viewer, reads, asks, changes>>

\* app/events/[eventId]/page.tsx; the page of one's tickets is given no event.
OpensEvent(e, served) ==
    /\ screen.effect < MaxMounts
    /\ screen.at # "list" \/ e \in Visible
    /\ screen.at = "event" => screen.of # e
    /\ MountsEvent(e, IF served THEN OneEvent(e, Nobody) ELSE NotStored, viewer, cache)
    /\ dialog' = NoDialog
    /\ UNCHANGED <<show, viewer, reads, asks, changes>>

LeavesEvents ==
    /\ screen.at # "away"
    /\ screen' = [Away EXCEPT !.effect = screen.effect, !.mount = screen.mount]
    /\ dialog' = NoDialog
    /\ latest' = [read |-> 0, events |-> {}]
    /\ UNCHANGED <<show, viewer, cache, reads, asks, changes>>

\* Variant: the lists of the account that left stay in the cache.
Reconciled_KeepsLists(c) == c

\* reconcile of session-provider.tsx: only what is public outlives an account.
Reconciled(c) == [c EXCEPT !.member = NotStored]

\* Somebody logs in or out, here or in another tab, or a membership begins or ends: the
\* same route is rendered for another viewer, with the list that the route was given.
ViewerChanges(who) ==
    /\ who # viewer /\ Around
    /\ viewer' = who
    /\ dialog' = NoDialog
    /\ CASE screen.at = "list"  -> screen.effect < MaxMounts /\ MountsList(screen.given, who, Reconciled(cache))
         [] screen.at = "event" -> screen.effect < MaxMounts /\ MountsEvent(screen.of, screen.given, who, Reconciled(cache))
         [] screen.at = "away"  -> cache' = Reconciled(cache) /\ UNCHANGED <<screen, latest>>
    /\ UNCHANGED <<show, reads, asks>>

\* The access token is renewed: the page stays and only its effect starts again.
TokenIsRenewed ==
    /\ viewer # Nobody /\ screen.at # "away" /\ screen.effect < MaxMounts
    /\ screen' = [screen EXCEPT !.effect = @ + 1, !.loading = @ \/ screen.at = "event"]
    /\ UNCHANGED <<show, viewer, cache, dialog, reads, asks, latest, changes>>

Finished(read) == [read EXCEPT !.at = "over", !.events = <<>>, !.past = {}, !.who = Nobody]

\* The document goes: what was in flight goes with it, and of the cache only the public
\* list is restored, when it is not too old (public-query-persistence.ts).
DocumentGoes(restores) ==
    /\ screen' = [Away EXCEPT !.effect = screen.effect, !.mount = screen.mount]
    /\ dialog' = NoDialog
    /\ cache' = [public |-> IF restores THEN cache.public ELSE NotStored, member |-> NotStored]
    /\ reads' = [r \in DOMAIN reads |-> Finished(reads[r])]

Reloads(restores) ==
    /\ Around
    /\ DocumentGoes(restores)
    /\ asks' = [a \in DOMAIN asks |-> [asks[a] EXCEPT !.at = IF @ = "sent" THEN "cut off" ELSE "over"]]
    /\ UNCHANGED <<show, viewer, latest>>

-----------------------------------------------------------------------------
(* Reading again: refreshEvents and loadEvent.                               *)

ReadPending(effect) == \E r \in DOMAIN reads : reads[r].effect = effect /\ reads[r].at # "over"

\* At once, every minute and on return to the tab, unless one is pending or it is hidden.
ReadStarts ==
    /\ screen.at # "away" /\ ~ReadPending(screen.effect) /\ Len(reads) < MaxReads
    /\ reads' = Append(reads, [effect |-> screen.effect, who |-> viewer, of |-> screen.of, at |-> "sent",
                               events |-> <<>>, past |-> {}])
    /\ UNCHANGED <<show, viewer, cache, screen, dialog, asks, latest, changes>>

ReadRuns(r) ==
    LET who == reads[r].who
        of == reads[r].of
    IN
    /\ reads[r].at = "sent"
    /\ reads' = [reads EXCEPT ![r].at = "answered",
                              ![r].events = IF of = NoEvent THEN OpenEvents(who) ELSE OneEvent(of, who),
                              ![r].past = IF of = NoEvent THEN DOMAIN PastEvents(who) ELSE {}]
    /\ UNCHANGED <<show, viewer, cache, screen, dialog, asks, latest, changes>>

\* Variant: a read is taken in whichever effect made it.
IsCurrent_AnyEffect(r) == screen.at # "away" /\ reads[r].of = screen.of

\* cancelled, isCancelled: the effect that made the read has not been cleaned up.
IsCurrent(r) == screen.at # "away" /\ reads[r].effect = screen.effect

ReadArrives(r) ==
    LET events == reads[r].events IN
    /\ reads[r].at = "answered"
    /\ reads' = [reads EXCEPT ![r] = Finished(@)]
    /\ IF IsCurrent(r)
       THEN /\ screen' = [screen EXCEPT !.events = events, !.past = reads[r].past, !.loading = FALSE]
            /\ dialog' = DialogKept(dialog, events)
            /\ cache' = IF screen.at = "list" THEN [cache EXCEPT ![Scope(viewer)] = events] ELSE cache
            /\ latest' = IF r > latest.read THEN [read |-> r, events |-> DOMAIN events] ELSE latest
       ELSE UNCHANGED <<screen, dialog, cache, latest>>
    /\ UNCHANGED <<show, viewer, asks, changes>>

\* The answer is lost, or the server refuses to say: what is shown stays.
ReadFails(r) ==
    /\ reads[r].at # "over" /\ Around
    /\ reads' = [reads EXCEPT ![r] = Finished(@)]
    /\ screen' = IF IsCurrent(r) THEN [screen EXCEPT !.loading = FALSE] ELSE screen
    /\ UNCHANGED <<show, viewer, cache, dialog, asks, latest>>

-----------------------------------------------------------------------------
(* Looking for an event and opening the dialog.                              *)

\* The category, and in the list of events the state and the city.
FiltersEvents(lets) ==
    /\ screen.at = "list" /\ dialog.of = NoEvent /\ lets # screen.lets /\ Around
    /\ screen' = [screen EXCEPT !.lets = lets]
    /\ UNCHANGED <<show, viewer, cache, dialog, reads, asks, latest>>

\* History is for members.
SwitchesHistory ==
    /\ screen.at = "list" /\ viewer # Nobody /\ dialog.of = NoEvent
    /\ screen' = [screen EXCEPT !.mode = IF @ = "events" THEN "history" ELSE "events"]
    /\ UNCHANGED <<show, viewer, cache, dialog, reads, asks, latest, changes>>

\* The card of an event, or its own page.
OnOffer ==
    IF screen.at = "list" THEN IF screen.mode = "events" /\ ~screen.loading THEN Visible ELSE {}
    ELSE IF screen.loading THEN {} ELSE DOMAIN screen.events

\* openTicketCheckout
OpensDialog(e) ==
    /\ dialog.of = NoEvent /\ e \in OnOffer /\ CanBookMore(screen.events[e]) /\ screen.busy # e
    /\ dialog' = DialogKept([NoDialog EXCEPT !.of = e], screen.events)
    /\ UNCHANGED <<show, viewer, cache, screen, reads, asks, latest, changes>>

DialogOpen == dialog.of \in DOMAIN screen.events
Working == dialog.waits # 0 \/ screen.busy = dialog.of

ChoosesTier(t) ==
    /\ DialogOpen /\ ~Working /\ dialog.step = "choose"
    /\ t \in DOMAIN screen.events[dialog.of].left /\ t # ShownTier(screen.events[dialog.of])
    /\ dialog' = [dialog EXCEPT !.tier = t, !.quantity = 1]
    /\ UNCHANGED <<show, viewer, cache, screen, reads, asks, latest, changes>>

ChoosesQuantity(n) ==
    LET view == screen.events[dialog.of] IN
    /\ DialogOpen /\ ~Working /\ dialog.step = "choose"
    /\ n \in 1..MostOf(view, ShownTier(view)) /\ n # ShownQuantity(view)
    /\ dialog' = [dialog EXCEPT !.quantity = n]
    /\ UNCHANGED <<show, viewer, cache, screen, reads, asks, latest, changes>>

\* Also by "Done" when the tickets are there.
ClosesDialog ==
    /\ DialogOpen /\ ~Working
    /\ dialog' = NoDialog
    /\ UNCHANGED <<show, viewer, cache, screen, reads, asks, latest, changes>>

-----------------------------------------------------------------------------
(* The button of the dialog and what it asks for.                            *)

Asked(kind, e, t, n) ==
    [kind |-> kind, mount |-> screen.mount, who |-> viewer, of |-> e, tier |-> t, quantity |-> n,
     at |-> "sent", view |-> <<>>]

\* The button looks at the tier that is shown, even when only a code is to be confirmed.
ButtonReady ==
    /\ DialogOpen /\ ~Working /\ dialog.step # "done" /\ Len(asks) < MaxAsks
    /\ MostOf(screen.events[dialog.of], ShownTier(screen.events[dialog.of])) > 0

\* bookEvent of a member.
AsksToBook ==
    LET view == screen.events[dialog.of] IN
    /\ ButtonReady /\ viewer # Nobody
    /\ asks' = Append(asks, Asked("book", dialog.of, ShownTier(view), ShownQuantity(view)))
    /\ screen' = [screen EXCEPT !.busy = dialog.of]
    /\ UNCHANGED <<show, viewer, cache, dialog, reads, latest, changes>>

\* bookEvent of a guest: the choice is kept (module Checkout) and an account is asked for.
GuestIsSentToLogIn ==
    /\ ButtonReady /\ viewer = Nobody /\ ShownTier(screen.events[dialog.of]) \in PaidTier
    /\ dialog.step = "choose"
    /\ dialog' = NoDialog
    /\ UNCHANGED <<show, viewer, cache, screen, reads, asks, latest, changes>>

\* requestGuestTicket
GuestAsksForCode ==
    LET view == screen.events[dialog.of] IN
    /\ ButtonReady /\ viewer = Nobody /\ dialog.step = "choose" /\ ShownTier(view) \in FreeTier
    /\ asks' = Append(asks, Asked("code", dialog.of, ShownTier(view), ShownQuantity(view)))
    /\ dialog' = [dialog EXCEPT !.waits = Len(asks) + 1]
    /\ UNCHANGED <<show, viewer, cache, screen, reads, latest, changes>>

\* confirmGuestTicket names the request; its tier and its quantity are the server's.
GuestConfirms ==
    LET order == asks[dialog.order] IN
    /\ ButtonReady /\ dialog.step = "code"
    /\ asks' = Append(asks, Asked("confirm", dialog.of, order.tier, order.quantity))
    /\ dialog' = [dialog EXCEPT !.waits = Len(asks) + 1]
    /\ UNCHANGED <<show, viewer, cache, screen, reads, latest, changes>>

\* "Change email or resend code"
GuestStartsAgain ==
    /\ DialogOpen /\ ~Working /\ dialog.step = "code"
    /\ dialog' = [dialog EXCEPT !.step = "choose", !.order = 0]
    /\ UNCHANGED <<show, viewer, cache, screen, reads, asks, latest, changes>>

\* openEventRoom, of a member who has not joined; everybody else only changes the page.
AsksToJoin(e) ==
    /\ viewer # Nobody /\ dialog.of = NoEvent /\ e \in OnOffer /\ ~screen.events[e].joined
    /\ Len(asks) < MaxAsks
    /\ asks' = Append(asks, Asked("join", e, 0, 0))
    /\ UNCHANGED <<show, viewer, cache, screen, dialog, reads, latest, changes>>

-----------------------------------------------------------------------------
(* The answers.                                                              *)

\* What bookFreeEvent and confirmBooking insist on (getRequestedTicketType, the limits).
MayHave(a) ==
    LET x == show[a.of] IN
    /\ Bookable(a.of) /\ a.tier \in x.tiers /\ a.quantity <= x.left[a.tier]
    /\ a.who # Nobody => x.owned[a.who][a.tier] + a.quantity <= Limit

Takes(a) ==
    show' = [show EXCEPT ![a.of].left[a.tier] = @ - a.quantity,
                         ![a.of].owned = IF a.who = Nobody THEN @
                                         ELSE [@ EXCEPT ![a.who][a.tier] = @ + a.quantity]]

\* The seats are taken; for a paid tier the provider's page is answered (module Ticketing).
AskIsGranted(i) ==
    LET a == asks[i] IN
    /\ a.at \in {"sent", "cut off"}
    /\ CASE a.kind = "join" -> /\ show' = [show EXCEPT ![a.of].joined = @ \cup {a.who}]
         [] a.kind = "code" -> Bookable(a.of) /\ a.tier \in show[a.of].tiers /\ UNCHANGED show
         [] a.kind = "book" /\ a.tier \in PaidTier -> MayHave(a) /\ UNCHANGED show
         [] OTHER -> MayHave(a) /\ Takes(a)
    /\ asks' = [asks EXCEPT ![i].at = IF @ = "sent" THEN "granted" ELSE "over"]
    /\ UNCHANGED <<viewer, cache, screen, dialog, reads, latest, changes>>

\* getPublishedEventForUser: the answer of a booking is read after it.
BookingIsReadBack(i) ==
    LET a == asks[i] IN
    /\ a.at = "granted" /\ a.kind = "book" /\ a.tier \in FreeTier
    /\ asks' = [asks EXCEPT ![i].at = "read back", ![i].view = View(a.of, a.who)]
    /\ UNCHANGED <<show, viewer, cache, screen, dialog, reads, latest, changes>>

Settled(i) == [asks EXCEPT ![i].at = "over", ![i].view = <<>>]

\* The component that asked is still mounted, and the dialog still waits for this answer.
SameMount(a) == screen.at # "away" /\ screen.mount = a.mount
SameDialog(i) == dialog.waits = i

Displays(events) ==
    /\ screen' = [screen EXCEPT !.events = events, !.busy = NoEvent]
    /\ cache' = IF screen.at = "list" THEN Stored(cache, viewer, screen.given, events) ELSE cache

\* The list replaces an event that it has; the page of the event takes the answer as it is,
\* also when a read has said meanwhile that there is no such event.
BookingArrives(i) ==
    LET a == asks[i] IN
    /\ a.at = "read back"
    /\ asks' = Settled(i)
    /\ IF SameMount(a)
       THEN /\ Displays(IF screen.at = "event" \/ a.of \in DOMAIN screen.events
                     THEN [e \in DOMAIN screen.events \cup {a.of} |-> IF e = a.of THEN a.view ELSE screen.events[e]]
                     ELSE screen.events)
            /\ dialog' = NoDialog
            /\ latest' = IF screen.at = "event" THEN [latest EXCEPT !.events = {a.of}] ELSE latest
       ELSE UNCHANGED <<screen, cache, dialog, latest>>
    /\ UNCHANGED <<show, viewer, reads, changes>>

\* initializeEventTicketCheckout has answered: the browser goes to the provider, also from
\* another page.
GoesToProvider(i) ==
    LET a == asks[i] IN
    /\ a.at = "granted" /\ a.kind = "book" /\ a.tier \in PaidTier
    /\ DocumentGoes(TRUE)
    /\ asks' = [j \in DOMAIN asks |-> [asks[j] EXCEPT !.at = IF j # i /\ @ = "sent" THEN "cut off" ELSE "over"]]
    /\ UNCHANGED <<show, viewer, latest, changes>>

CodeIsSent(i) ==
    /\ asks[i].at = "granted" /\ asks[i].kind = "code"
    /\ asks' = Settled(i)
    /\ dialog' = IF SameDialog(i) THEN [dialog EXCEPT !.step = "code", !.order = i, !.waits = 0] ELSE dialog
    /\ UNCHANGED <<show, viewer, cache, screen, reads, latest, changes>>

\* applyGuestBooking: the seats are subtracted on the screen, also from a read that has
\* counted them already.
Fewer(view, a) ==
    [view EXCEPT !.left = [t \in DOMAIN @ |-> IF t # a.tier THEN @[t] ELSE Max({0, @[t] - a.quantity})]]

\* A dialog that is gone shows nothing: the tickets are mailed.
GuestBookingArrives(i) ==
    LET a == asks[i] IN
    /\ a.at = "granted" /\ a.kind = "confirm"
    /\ asks' = Settled(i)
    /\ dialog' = IF SameDialog(i) THEN [dialog EXCEPT !.step = "done", !.waits = 0] ELSE dialog
    /\ IF SameMount(a) /\ a.of \in DOMAIN screen.events
       THEN LET events == [screen.events EXCEPT ![a.of] = Fewer(@, a)] IN
            /\ screen' = [screen EXCEPT !.events = events]
            /\ cache' = IF screen.at = "list" THEN Stored(cache, viewer, screen.given, events) ELSE cache
       ELSE UNCHANGED <<screen, cache>>
    /\ UNCHANGED <<show, viewer, reads, latest, changes>>

\* The event is marked as joined and the browser goes on to the room.
JoinArrives(i) ==
    LET a == asks[i]
        events == IF a.of \in DOMAIN screen.events
                  THEN [screen.events EXCEPT ![a.of].joined = TRUE] ELSE screen.events
    IN
    /\ a.at = "granted" /\ a.kind = "join"
    /\ asks' = Settled(i)
    /\ screen' = [Away EXCEPT !.effect = screen.effect, !.mount = screen.mount]
    /\ cache' = IF SameMount(a) /\ screen.at = "list" THEN Stored(cache, viewer, screen.given, events) ELSE cache
    /\ dialog' = NoDialog
    /\ UNCHANGED <<show, viewer, reads, latest, changes>>

\* Refused, or the answer is lost: the page says why and its buttons work again.
AskFails(i) ==
    LET a == asks[i] IN
    /\ a.at \in {"sent", "granted", "read back"} /\ Around
    /\ asks' = [asks EXCEPT ![i].at = IF @ = "sent" THEN "cut off" ELSE "over", ![i].view = <<>>]
    /\ dialog' = IF SameDialog(i) THEN [dialog EXCEPT !.waits = 0] ELSE dialog
    /\ screen' = IF SameMount(a) /\ a.kind = "book" THEN [screen EXCEPT !.busy = NoEvent] ELSE screen
    /\ UNCHANGED <<show, viewer, cache, reads, latest>>

-----------------------------------------------------------------------------
(* Around the browser.                                                       *)

EventTurns(e, status) ==
    /\ Around
    /\ \/ show[e].status = "open" /\ status \in {"cancelled", "over"}
       \/ show[e].status = "open" /\ status = "draft" /\ show[e].left = [t \in EventTier |-> Seats]
       \/ show[e].status = "draft" /\ status = "open"
    /\ show' = [show EXCEPT ![e].status = status,
                            ![e].owned = IF status = "cancelled" THEN [m \in Member |-> [t \in EventTier |-> 0]] ELSE @]
    /\ UNCHANGED <<viewer, cache, screen, dialog, reads, asks, latest>>

\* An administrator withdraws or adds a tier, or somebody else takes its last seats.
TierTurns(e, t) ==
    /\ show[e].status = "open" /\ Around
    /\ \/ show[e].left[t] = Seats /\ show[e].tiers # {t}
          /\ show' = [show EXCEPT ![e].tiers = IF t \in @ THEN @ \ {t} ELSE @ \cup {t}]
       \/ t \in show[e].tiers /\ show[e].left[t] > 0 /\ show' = [show EXCEPT ![e].left[t] = 0]
    /\ UNCHANGED <<viewer, cache, screen, dialog, reads, asks, latest>>

EventPagesNext ==
    \/ \E served \in BOOLEAN : OpensList(served) \/ (\E e \in Event : OpensEvent(e, served)) \/ Reloads(served)
    \/ LeavesEvents \/ TokenIsRenewed
    \/ \E who \in Member \cup {Nobody} : ViewerChanges(who)
    \/ ReadStarts
    \/ \E r \in DOMAIN reads : ReadRuns(r) \/ ReadArrives(r) \/ ReadFails(r)
    \/ \E lets \in SUBSET Event : FiltersEvents(lets)
    \/ SwitchesHistory
    \/ \E e \in Event : OpensDialog(e) \/ AsksToJoin(e)
    \/ \E t \in EventTier : ChoosesTier(t)
    \/ \E n \in 1..Limit : ChoosesQuantity(n)
    \/ ClosesDialog \/ AsksToBook \/ GuestIsSentToLogIn \/ GuestAsksForCode \/ GuestConfirms \/ GuestStartsAgain
    \/ \E i \in DOMAIN asks :
        \/ AskIsGranted(i) \/ BookingIsReadBack(i) \/ BookingArrives(i) \/ GoesToProvider(i)
        \/ CodeIsSent(i) \/ GuestBookingArrives(i) \/ JoinArrives(i) \/ AskFails(i)
    \/ \E e \in Event :
        \/ \E status \in {"open", "draft", "cancelled", "over"} : EventTurns(e, status)
        \/ \E t \in EventTier : TierTurns(e, t)

EventPagesSpec == EventPagesInit /\ [][EventPagesNext]_eventPageVars

-----------------------------------------------------------------------------

\* What a page has learnt it does not forget: an event that its newest read found gone
\* ("Cancelled events must not survive indefinitely in an open guest tab",
\* member-events-tab.tsx) is not shown again by an older read, an older effect or a booking
\* of the list; and the tickets that a page or the members' cache shows are those of the
\* member who is logged in, whoever used the browser before (session-provider.tsx).
PagesKeepUp ==
    /\ screen.at # "away" => DOMAIN screen.events \subseteq latest.events
    /\ \A e \in DOMAIN screen.events : screen.events[e].of \in {viewer, Nobody}
    /\ cache.member # NotStored => \A e \in DOMAIN cache.member : cache.member[e].of \in {viewer, Nobody}
=============================================================================

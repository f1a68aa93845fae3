----------------------------- MODULE EventEditor -----------------------------
(***************************************************************************)
(* The organisers' pages of one event: the list (admin-events-list.tsx),   *)
(* the form that creates or edits it (admin-event-form.tsx,                *)
(* admin-event-editor.tsx, admin-event-model.ts), and the ticket tiers     *)
(* that createEvent and updateEvent of events.service.ts make of it.       *)
(*                                                                         *)
(* A form sends every field, as loaded or as changed since: the server     *)
(* reads the event, checks, and writes in a transaction that does not read *)
(* it again.  words stands for title, category, type, description, venue,  *)
(* state, city and start; the venue e-mails are module Events, the race of *)
(* a sale with the count of a tier is Ticketing.                           *)
(***************************************************************************)
EXTENDS Naturals, FiniteSets

CONSTANTS
    Organisers,     \* the browsers of the organisers
    Offer,          \* the names of the tiers; a free event has the Regular one
    Regular,
    NotCreated,     \* in place of the event before there is one, or of a page's event
    MaxTouches,     \* bound on the changes of the forms
    MaxWrites,      \* bound on saves and cancellations
    MaxPageVisits,  \* bound on the pages opened and the lists loaded again
    MaxSales,       \* bound on the reservations
    MaxMishaps      \* bound on lost answers, failed loads and failed uploads

ASSUME EventEditorAssumption ==
    /\ Regular \in Offer
    /\ {MaxTouches, MaxWrites, MaxPageVisits, MaxSales, MaxMishaps} \subseteq Nat

VARIABLES
    ev,             \* the event with its tiers and bookingAccess
    seats,          \* what kinds of tickets each tier has
    hour,           \* the event is ahead, has started, or is over
    desk,           \* the page of each browser
    loadOf,         \* the load of each page: where it is and what it read
    writeOf,        \* the save or cancellation of each browser
    agreed,         \* the form that the last save came from, if nothing came between (history)
    left            \* what the bounds leave

editorPageVars == <<ev, seats, hour, desk, loadOf, writeOf, agreed, left>>

EventStatus == {"DRAFT", "PUBLISHED", "CANCELLED"}
Price == 0..1
Seating == 1..2
Words == {"old", "new", "no city"}
Tiers == UNION {[S -> [price : Price, capacity : Seating]] : S \in SUBSET Offer}
EventOf == [status : EventStatus, words : Words, cover : {"", "old", "new"}, ends : BOOLEAN,
            tiers : Tiers, access : {"PUBLIC", "MEMBERS_ONLY"}]
Form == [status : EventStatus, words : Words, cover : {"", "old", "new"}, ends : BOOLEAN,
         offer : [Offer -> [price : Price, capacity : Seating]]]

\* What stands for no event (null) is not one.
ASSUME NotCreatedIsNoEvent == NotCreated \notin EventOf

\* What a form and the server assume of a tier that nobody has set.
Default == [price |-> 0, capacity |-> 2]

\* createEmptyEventForm
EmptyForm == [status |-> "DRAFT", words |-> "no city", cover |-> "", ends |-> FALSE, offer |-> [t \in Offer |-> Default]]

\* getEventForm
FormFrom(e) ==
    [status |-> e.status, words |-> e.words, cover |-> e.cover, ends |-> e.ends,
     offer |-> [t \in Offer |-> IF t \in DOMAIN e.tiers THEN e.tiers[t] ELSE Default]]

NoLoad == [at |-> "none", got |-> NotCreated]
NoWrite == [at |-> "none", kind |-> "none", form |-> EmptyForm, read |-> NotCreated]
ListPage == [at |-> "list", mode |-> "active", has |-> NotCreated, form |-> EmptyForm, loading |-> TRUE,
             busy |-> "no", modal |-> FALSE]

\* hasEventEnded: by the end, or by the start of an event without one.
HasEnded(e) == hour = "over" \/ (hour = "started" /\ ~e.ends)

FreeEvent == [status |-> "DRAFT", words |-> "old", cover |-> "old", ends |-> TRUE,
              tiers |-> [t \in {Regular} |-> Default], access |-> "PUBLIC"]

EventEditorInit ==
    /\ ev \in {NotCreated, FreeEvent, [FreeEvent EXCEPT !.status = "PUBLISHED"]}
    /\ seats = [t \in Offer |-> {}] /\ hour = "ahead"
    /\ desk = [p \in Organisers |-> ListPage]
    /\ loadOf = [p \in Organisers |-> [NoLoad EXCEPT !.at = "sent"]]
    /\ writeOf = [p \in Organisers |-> NoWrite]
    /\ agreed = NotCreated
    /\ left = [touches |-> MaxTouches, writes |-> MaxWrites, visits |-> MaxPageVisits, sales |-> MaxSales,
               mishaps |-> MaxMishaps]

Uses(bound) == left[bound] > 0 /\ left' = [left EXCEPT ![bound] = @ - 1]

-----------------------------------------------------------------------------
(* The list and the loads of the pages.                                      *)

\* isAdminInactiveEvent
Inactive(e) == e.status # "PUBLISHED" \/ HasEnded(e)

ReadsEvent(p) ==
    /\ loadOf[p].at = "sent"
    /\ loadOf' = [loadOf EXCEPT ![p] = [at |-> "read", got |-> ev]]
    /\ UNCHANGED <<ev, seats, hour, desk, writeOf, agreed, left>>

\* setEvents of the list; setEditingEvent and setEventForm of the form.
EventArrives(p) ==
    LET got == loadOf[p].got IN
    /\ loadOf[p].at = "read"
    /\ desk' = [desk EXCEPT ![p].has = got, ![p].loading = FALSE,
                            ![p].form = IF desk[p].at = "edit" /\ got # NotCreated THEN FormFrom(got) ELSE @]
    /\ loadOf' = [loadOf EXCEPT ![p] = NoLoad]
    /\ UNCHANGED <<ev, seats, hour, writeOf, agreed, left>>

LoadIsLost(p) ==
    /\ loadOf[p].at # "none" /\ Uses("mishaps")
    /\ desk' = [desk EXCEPT ![p].loading = FALSE]
    /\ loadOf' = [loadOf EXCEPT ![p] = NoLoad]
    /\ UNCHANGED <<ev, seats, hour, writeOf, agreed>>

\* A page opens and, unless it creates an event, loads.  The load of the page before
\* is cancelled, or its answer ignored.
GoesTo(p, at) ==
    /\ desk' = [desk EXCEPT ![p] = [ListPage EXCEPT !.at = at, !.loading = at # "create"]]
    /\ loadOf' = [loadOf EXCEPT ![p] = IF at = "create" THEN NoLoad ELSE [NoLoad EXCEPT !.at = "sent"]]

ListRefreshes(p) ==
    /\ desk[p].at = "list" /\ ~desk[p].loading /\ Uses("visits")
    /\ desk' = [desk EXCEPT ![p].loading = TRUE]
    /\ loadOf' = [loadOf EXCEPT ![p] = [NoLoad EXCEPT !.at = "sent"]]
    /\ UNCHANGED <<ev, seats, hour, writeOf, agreed>>

\* A new access token loads the event again, over what the form holds; a load under way is
\* cancelled.
EventReloads(p) ==
    /\ desk[p].at = "edit" /\ Uses("visits")
    /\ desk' = [desk EXCEPT ![p].loading = TRUE]
    /\ loadOf' = [loadOf EXCEPT ![p] = [NoLoad EXCEPT !.at = "sent"]]
    /\ UNCHANGED <<ev, seats, hour, writeOf, agreed>>

SwitchesMode(p) ==
    /\ desk[p].at = "list" /\ Uses("visits")
    /\ desk' = [desk EXCEPT ![p].mode = IF @ = "active" THEN "inactive" ELSE "active"]
    /\ UNCHANGED <<ev, seats, hour, loadOf, writeOf, agreed>>

\* Edit is a button of the rows that are visible in the mode of the list.
OpensEditor(p) ==
    /\ desk[p].at = "list" /\ Uses("visits")
    /\ \/ GoesTo(p, "create")
       \/ /\ ~desk[p].loading /\ desk[p].has # NotCreated
          /\ (desk[p].mode = "inactive") = Inactive(desk[p].has)
          /\ GoesTo(p, "edit")
    /\ UNCHANGED <<ev, seats, hour, writeOf, agreed>>

LeavesEditor(p) ==
    /\ desk[p].at # "list" /\ ~desk[p].modal
    /\ GoesTo(p, "list")
    /\ UNCHANGED <<ev, seats, hour, writeOf, agreed, left>>

-----------------------------------------------------------------------------
(* The form.                                                                 *)

InEditor(p) ==
    /\ desk[p].at = "create" \/ (desk[p].at = "edit" /\ ~desk[p].loading /\ desk[p].has # NotCreated)
    /\ ~desk[p].modal

Changes(p, form) ==
    /\ InEditor(p) /\ form # desk[p].form /\ Uses("touches")
    /\ desk' = [desk EXCEPT ![p].form = form]
    /\ UNCHANGED <<ev, seats, hour, loadOf, writeOf, agreed>>

\* Choosing a state clears the city.
TypesWords(p) == \E w \in Words : Changes(p, [desk[p].form EXCEPT !.words = w])

SetsEnd(p) == Changes(p, [desk[p].form EXCEPT !.ends = ~@])

SetsOffer(p) ==
    \E t \in Offer, price \in Price, capacity \in Seating :
        Changes(p, [desk[p].form EXCEPT !.offer[t] = [price |-> price, capacity |-> capacity]])

\* The status of a cancelled or ended event is a text, not a choice.
PicksEventStatus(p) ==
    /\ desk[p].has # NotCreated => desk[p].has.status # "CANCELLED" /\ ~HasEnded(desk[p].has)
    /\ \E s \in {"DRAFT", "PUBLISHED"} : Changes(p, [desk[p].form EXCEPT !.status = s])

RemovesCover(p) == desk[p].busy = "no" /\ Changes(p, [desk[p].form EXCEPT !.cover = ""])

\* uploadCoverImage: the form stays editable, the save and the cancellation wait.
CoverUploadBegins(p) ==
    /\ InEditor(p) /\ desk[p].busy = "no" /\ Uses("touches")
    /\ desk' = [desk EXCEPT ![p].busy = "uploading"]
    /\ UNCHANGED <<ev, seats, hour, loadOf, writeOf, agreed>>

CoverUploadEnds(p) ==
    /\ desk[p].busy = "uploading"
    /\ \/ desk' = [desk EXCEPT ![p].busy = "no", ![p].form.cover = "new"] /\ UNCHANGED left
       \/ desk' = [desk EXCEPT ![p].busy = "no"] /\ Uses("mishaps")
    /\ UNCHANGED <<ev, seats, hour, loadOf, writeOf, agreed>>

-----------------------------------------------------------------------------
(* Saving and cancelling, on the page.                                       *)

\* buildAdminEventPayload: the tiers with a price, or a free Regular one.
Kept(offer) ==
    LET paid == {t \in Offer : offer[t].price > 0} IN
    IF paid # {} THEN [t \in paid |-> offer[t]] ELSE [t \in {Regular} |-> [offer[t] EXCEPT !.price = 0]]

Paid(tiers) == \E t \in DOMAIN tiers : tiers[t].price > 0

WriteBegins(p, kind) ==
    /\ writeOf[p] = NoWrite /\ Uses("writes")
    /\ writeOf' = [writeOf EXCEPT ![p] = [NoWrite EXCEPT !.at = "sent", !.kind = kind, !.form = desk[p].form]]
    /\ desk' = [desk EXCEPT ![p].busy = "writing"]
    /\ UNCHANGED <<ev, seats, hour, loadOf, agreed>>

\* saveEvent: not during an upload, and not without a city.
SaveBegins(p) ==
    /\ InEditor(p) /\ desk[p].busy = "no" /\ desk[p].form.words # "no city"
    /\ WriteBegins(p, desk[p].at)

\* The modal asks for a reason; the event is one that was published when it was loaded.
AsksToCancel(p) ==
    /\ InEditor(p) /\ desk[p].busy = "no" /\ desk[p].has # NotCreated
    /\ desk[p].has.status = "PUBLISHED" /\ ~HasEnded(desk[p].has) /\ left.writes > 0
    /\ desk' = [desk EXCEPT ![p].modal = TRUE]
    /\ UNCHANGED <<ev, seats, hour, loadOf, writeOf, agreed, left>>

KeepsTheEvent(p) ==
    /\ desk[p].modal /\ desk[p].busy = "no"
    /\ desk' = [desk EXCEPT ![p].modal = FALSE]
    /\ UNCHANGED <<ev, seats, hour, loadOf, writeOf, agreed, left>>

CancelBegins(p) == desk[p].modal /\ desk[p].busy = "no" /\ WriteBegins(p, "cancel")

\* A success leads to the list from wherever the browser is; a refusal, or an answer
\* that is lost, leaves the form for another try.
WriteAnswered(p) ==
    /\ writeOf[p].at # "none"
    /\ \/ /\ writeOf[p].at = "done" /\ UNCHANGED left
          /\ IF desk[p].at = "list" THEN UNCHANGED <<desk, loadOf>> ELSE GoesTo(p, "list")
       \/ /\ IF writeOf[p].at = "refused" THEN UNCHANGED left ELSE Uses("mishaps")
          /\ desk' = [desk EXCEPT ![p].busy = IF @ = "writing" THEN "no" ELSE @]
          /\ UNCHANGED loadOf
    /\ writeOf' = [writeOf EXCEPT ![p] = NoWrite]
    /\ UNCHANGED <<ev, seats, hour, agreed>>

-----------------------------------------------------------------------------
(* createEvent and updateEvent.                                              *)

Active(t) == Cardinality(seats[t] \cap {"confirmed", "reserved"})

\* Variant: a tier that is not submitted keeps its price.
SubmittedPrice_KeepsOld(sent, current, t) ==
    IF t \in DOMAIN sent THEN sent[t].price ELSE IF t \in DOMAIN current THEN current[t].price ELSE 0

\* A submitted list is the desired set of offers: what it omits has no price.
SubmittedPrice(sent, current, t) == IF t \in DOMAIN sent THEN sent[t].price ELSE 0

\* buildTicketTypeInputs
TierInputs(sent, current) ==
    Kept([t \in Offer |->
        [price |-> SubmittedPrice(sent, current, t),
         capacity |-> IF t \in DOMAIN sent THEN sent[t].capacity
                      ELSE IF t \in DOMAIN current THEN current[t].capacity ELSE Default.capacity]])

\* assertEventStatusTransition
StatusAllowed(e, status) ==
    \/ status = e.status
    \/ e.status = "DRAFT" /\ status \in {"PUBLISHED", "CANCELLED"}
    \/ e.status = "PUBLISHED" /\ status = "CANCELLED"
    \/ e.status = "PUBLISHED" /\ status = "DRAFT" /\ hour = "ahead" /\ \A t \in Offer : Active(t) = 0

\* syncTicketTypes of a request that read the tiers known: a tier is made once, a tier
\* that sold tickets stays and does not shrink below them.
SyncAllowed(known, next) ==
    /\ \A t \in DOMAIN next \ DOMAIN known : t \notin DOMAIN ev.tiers
    /\ \A t \in DOMAIN next \cap DOMAIN known : t \in DOMAIN ev.tiers /\ Active(t) <= next[t].capacity
    /\ \A t \in DOMAIN known \ DOMAIN next : t \in DOMAIN ev.tiers /\ seats[t] = {}

Synced(known, next) ==
    [t \in (DOMAIN ev.tiers \ DOMAIN known) \cup DOMAIN next |->
        IF t \in DOMAIN next THEN next[t] ELSE ev.tiers[t]]

\* The event is read and the status checked, before the transaction.  An end that was not
\* sent is the old one, and may be before the start that was (assertDateOrder).
UpdateReads(p) ==
    LET w == writeOf[p]
        misdated == w.kind = "edit" /\ ~w.form.ends /\ ev.ends /\ w.form.words # ev.words
        allowed == StatusAllowed(ev, IF w.kind = "cancel" THEN "CANCELLED" ELSE w.form.status)
    IN
    /\ w.at = "sent" /\ w.kind # "create"
    /\ \E at \in (IF allowed THEN {"read"} ELSE {"refused"}) \cup (IF misdated THEN {"refused"} ELSE {}) :
           writeOf' = [writeOf EXCEPT ![p].read = ev, ![p].at = at]
    /\ UNCHANGED <<ev, seats, hour, desk, loadOf, agreed, left>>

\* What a save writes: an end that the form leaves out is not sent and stays as it is.
Saved(form, known) ==
    LET next == TierInputs(Kept(form.offer), known.tiers) IN
    [status |-> form.status, words |-> form.words, cover |-> form.cover,
     ends |-> form.ends \/ ev.ends, tiers |-> Synced(known.tiers, next),
     access |-> IF Paid(next) THEN "MEMBERS_ONLY" ELSE "PUBLIC"]

UpdateCommits(p) ==
    LET w == writeOf[p] IN
    /\ w.at = "read" /\ w.kind = "edit"
    /\ IF SyncAllowed(w.read.tiers, TierInputs(Kept(w.form.offer), w.read.tiers))
       THEN /\ ev' = Saved(w.form, w.read)
            /\ agreed' = IF w.read = ev THEN w.form ELSE NotCreated
            /\ writeOf' = [writeOf EXCEPT ![p].at = "done"]
       ELSE writeOf' = [writeOf EXCEPT ![p].at = "refused"] /\ UNCHANGED <<ev, agreed>>
    /\ UNCHANGED <<seats, hour, desk, loadOf, left>>

\* The reservations are deleted, also those that have lapsed.
CancelCommits(p) ==
    /\ writeOf[p].at = "read" /\ writeOf[p].kind = "cancel"
    /\ ev' = [ev EXCEPT !.status = "CANCELLED"]
    /\ seats' = IF writeOf[p].read.status # "CANCELLED" THEN [t \in Offer |-> seats[t] \cap {"confirmed"}] ELSE seats
    /\ writeOf' = [writeOf EXCEPT ![p].at = "done"]
    /\ UNCHANGED <<hour, desk, loadOf, agreed, left>>

\* A second creation makes another event, which is not this one.
CreateCommits(p) ==
    LET form == writeOf[p].form
        tiers == TierInputs(Kept(form.offer), <<>>)
    IN
    /\ writeOf[p].at = "sent" /\ writeOf[p].kind = "create"
    /\ IF ev = NotCreated
       THEN /\ ev' = [status |-> form.status, words |-> form.words, cover |-> form.cover, ends |-> form.ends,
                      tiers |-> tiers, access |-> IF Paid(tiers) THEN "MEMBERS_ONLY" ELSE "PUBLIC"]
            /\ agreed' = form
       ELSE UNCHANGED <<ev, agreed>>
    /\ writeOf' = [writeOf EXCEPT ![p].at = "done"]
    /\ UNCHANGED <<seats, hour, desk, loadOf, left>>

-----------------------------------------------------------------------------
(* Time and the sales.                                                       *)

HourPasses ==
    /\ hour # "over" /\ Uses("sales")
    /\ hour' = IF hour = "ahead" THEN "started" ELSE "over"
    /\ UNCHANGED <<ev, seats, desk, loadOf, writeOf, agreed>>

SeatMoves(t) ==
    /\ ev # NotCreated
    /\ \/ /\ t \in DOMAIN ev.tiers /\ ev.status = "PUBLISHED" /\ ~HasEnded(ev)
          /\ Active(t) < ev.tiers[t].capacity /\ Uses("sales")
          /\ \E kind \in {"reserved", "confirmed"} \ seats[t] : seats' = [seats EXCEPT ![t] = @ \cup {kind}]
       \/ /\ "reserved" \in seats[t] /\ UNCHANGED left
          /\ \E next \in {"confirmed", "lapsed"} : seats' = [seats EXCEPT ![t] = (@ \ {"reserved"}) \cup {next}]
    /\ UNCHANGED <<ev, hour, desk, loadOf, writeOf, agreed>>

EventEditorNext ==
    \/ HourPasses
    \/ \E t \in Offer : SeatMoves(t)
    \/ \E p \in Organisers :
        \/ ReadsEvent(p) \/ EventArrives(p) \/ LoadIsLost(p)
        \/ ListRefreshes(p) \/ EventReloads(p) \/ SwitchesMode(p) \/ OpensEditor(p) \/ LeavesEditor(p)
        \/ TypesWords(p) \/ SetsEnd(p) \/ SetsOffer(p) \/ PicksEventStatus(p)
        \/ RemovesCover(p) \/ CoverUploadBegins(p) \/ CoverUploadEnds(p)
        \/ SaveBegins(p) \/ AsksToCancel(p) \/ KeepsTheEvent(p) \/ CancelBegins(p) \/ WriteAnswered(p)
        \/ UpdateReads(p) \/ UpdateCommits(p) \/ CancelCommits(p) \/ CreateCommits(p)

EventEditorSpec == EventEditorInit /\ [][EventEditorNext]_editorPageVars

-----------------------------------------------------------------------------

\* What is sold is what was saved: after a save that no other one overlapped, the event has
\* the cover and the words of the form, a tier for each price of the form and no other, and
\* is open to guests only when nothing has a price (buildAdminEventPayload,
\* buildTicketTypeInputs, syncTicketTypes, resolveBookingAccess).  A ticket keeps its tier.
SavedAsSubmitted ==
    ev # NotCreated =>
        /\ agreed # NotCreated =>
            LET priced == {t \in Offer : agreed.offer[t].price > 0} IN
            /\ ev.cover = agreed.cover /\ ev.words = agreed.words
            /\ DOMAIN ev.tiers = IF priced = {} THEN {Regular} ELSE priced
            /\ \A t \in DOMAIN ev.tiers : ev.tiers[t] = agreed.offer[t]
            /\ ev.access = "PUBLIC" <=> priced = {}
        /\ \A t \in Offer : seats[t] # {} => t \in DOMAIN ev.tiers
=============================================================================

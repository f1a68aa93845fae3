------------------------------- MODULE Alerts -------------------------------
(***************************************************************************)
(* The alerts of one member: what the API derives from the rows            *)
(* (notifications.service.ts), the seen marks, and the notifications page  *)
(* that shows the alerts and writes the marks (notifications-tab.tsx).      *)
(*                                                                         *)
(* One event, the member's ticket to it, one report of theirs, one payment  *)
(* and their membership stand for the rows: an alert's subject is fixed by  *)
(* its kind.  A seen mark keeps an entity id, never the text, so which      *)
(* change of a subject is news again is a matter of how the id is built.    *)
(***************************************************************************)
EXTENDS Naturals, FiniteSets

CONSTANTS
    MaxMarks,       \* bound on the marks in flight
    MaxNews,        \* bound on the changes of the rows
    MaxLosses       \* bound on lost requests and answers

ASSUME AlertsAssumption ==
    /\ MaxNews \in Nat /\ MaxLosses \in Nat /\ MaxMarks \in Nat

VARIABLES
    news,       \* the rows the alerts are derived from
    marked,     \* NotificationSeen: pairs of a kind and an entity id
    listed,     \* the alerts the page has shown (history)
    feedPage,   \* the notifications page and its query
    marks,      \* marks in flight, each a set of such pairs
    changes, losses

alertVars == <<news, marked, listed, feedPage, marks, changes, losses>>

EventKinds == {"EVENT_PUBLISHED", "EVENT_REMINDER", "EVENT_UPDATED", "EVENT_CANCELLED"}
OtherKinds == {"SUBSCRIPTION_EXPIRING", "REPORT_STATUS_UPDATED", "PAYMENT_FAILED"}
Kind == EventKinds \cup OtherKinds \cup {"TICKET_CONFIRMED"}

\* status, updatedAt (edits counted), startsAt, and how far the start is.
EventRow == [status : {"DRAFT", "PUBLISHED", "CANCELLED"}, version : 0..MaxNews, start : 0..MaxNews,
         when : {"far", "near", "past"}]
\* FAILED_PAYMENT_STATUSES
Failures == {"FAILED", "ABANDONED", "REVERSED"}
SeatRow == [status : {"none", "RESERVED", "PAID"}, since : 0..MaxNews]
News == [show : EventRow, seat : SeatRow, report : {"OPEN", "REVIEWED", "DISMISSED", "ACTIONED"},
         payment : {"PENDING", "SUCCESS"} \cup Failures, ends : 0..MaxNews, expiring : BOOLEAN]

-----------------------------------------------------------------------------
(* What is news: the queries of getFeed.                                      *)

Upcoming(n) == n.show.status = "PUBLISHED" /\ n.show.when # "past"
Seated(n) == n.seat.status # "none"

UpcomingEvent(n) == Upcoming(n) /\ ~Seated(n)
ConfirmedTicket(n) == n.seat.status = "PAID"
EventAlert(n, k) ==
    \/ k = "EVENT_REMINDER" /\ Upcoming(n) /\ Seated(n) /\ n.show.when = "near"
    \/ k = "EVENT_UPDATED" /\ Upcoming(n) /\ Seated(n) /\ n.show.version > n.seat.since
    \/ k = "EVENT_CANCELLED" /\ n.show.status = "CANCELLED" /\ Seated(n)
SubscriptionAlert(n) == n.expiring
ReportUpdate(n) == n.report # "OPEN"
PaymentAlert(n) == n.payment \in Failures

\* Whether a kind has an alert at all, seen or not.
Announces(n, k) ==
    \/ k = "EVENT_PUBLISHED" /\ UpcomingEvent(n)
    \/ k = "TICKET_CONFIRMED" /\ ConfirmedTicket(n)
    \/ EventAlert(n, k)
    \/ k = "SUBSCRIPTION_EXPIRING" /\ SubscriptionAlert(n)
    \/ k = "REPORT_STATUS_UPDATED" /\ ReportUpdate(n)
    \/ k = "PAYMENT_FAILED" /\ PaymentAlert(n)

\* What the alert tells: the event as it is, the end of the membership, the status of the
\* report and of the payment.
Tells(n, k) ==
    CASE k \in EventKinds -> <<n.show.version, n.show.start>>
      [] k = "SUBSCRIPTION_EXPIRING" -> n.ends
      [] k = "REPORT_STATUS_UPDATED" -> n.report
      [] k = "PAYMENT_FAILED" -> n.payment
      [] OTHER -> "same"

\* An alert is a kind and what it tells.
AlertsIn(n) == {<<k, Tells(n, k)>> : k \in {x \in Kind : Announces(n, x)}}

\* Variant: a report's mark names the report and not its status.
EntityId_ReportOnly(k, told) ==
    CASE k = "EVENT_UPDATED" -> <<k, told[1]>>
      [] k = "EVENT_REMINDER" -> <<k, told[2]>>
      [] k = "SUBSCRIPTION_EXPIRING" -> <<k, told>>
      [] OTHER -> <<k, "subject">>

\* getEventUpdatedEntityId, getEventReminderEntityId, getSubscriptionExpiringEntityId,
\* getReportStatusEntityId; the subject alone for the other kinds.
EntityId(k, told) ==
    CASE k = "EVENT_UPDATED" -> <<k, told[1]>>
      [] k = "EVENT_REMINDER" -> <<k, told[2]>>
      [] k \in {"SUBSCRIPTION_EXPIRING", "REPORT_STATUS_UPDATED"} -> <<k, told>>
      [] OTHER -> <<k, "subject">>

\* The alerts of the rows n whose ids are not among the marks seen.
UnseenOf(n, seen) == {a \in AlertsIn(n) : EntityId(a[1], a[2]) \notin seen}

\* Of a membership and a report the rows are read first, of the rest the marks.
EarlyKinds == {"SUBSCRIPTION_EXPIRING", "REPORT_STATUS_UPDATED"}
Early(n) == [report |-> n.report, ends |-> n.ends, expiring |-> n.expiring]
NoNews == [report |-> "OPEN", ends |-> 0, expiring |-> FALSE]

EmptyPage == [tab |-> "messages", feed |-> {}, effects |-> {}, submitted |-> {},
              loading |-> FALSE, before |-> {}, rows |-> Early(NoNews)]

AlertsInit ==
    /\ \E st \in {"DRAFT", "PUBLISHED"}, seat \in {"none", "PAID"} :
          /\ st = "DRAFT" => seat = "none"
          /\ news = [show |-> [status |-> st, version |-> 0, start |-> 0, when |-> "far"],
                     seat |-> [status |-> seat, since |-> 0], report |-> "OPEN", payment |-> "PENDING",
                     ends |-> 0, expiring |-> FALSE]
    /\ marked = {} /\ listed = {}
    /\ feedPage = EmptyPage
    /\ marks = {}
    /\ changes = 0 /\ losses = 0

pageVars == <<marked, listed, feedPage, marks, losses>>

-----------------------------------------------------------------------------
(* The rows change: organisers, the member's bookings, moderation, payments,   *)
(* time.                                                                       *)

Happens(n) ==
    /\ changes < MaxNews
    /\ changes' = changes + 1
    /\ news' = n
    /\ UNCHANGED pageVars

EventChanges ==
    LET e == news.show IN
    /\ \/ e.status = "DRAFT" /\ Happens([news EXCEPT !.show.status = "PUBLISHED", !.show.version = @ + 1])
       \/ e.status = "PUBLISHED" /\ Happens([news EXCEPT !.show.status = "CANCELLED", !.show.version = @ + 1])
       \/ e.status = "PUBLISHED" /\ Happens([news EXCEPT !.show.version = @ + 1])
       \/ /\ e.status = "PUBLISHED"
          /\ Happens([news EXCEPT !.show.version = @ + 1, !.show.start = @ + 1, !.show.when = "far"])

\* A booking is confirmed, at once or after its reservation; a reservation runs out.
SeatChanges ==
    /\ \/ /\ Upcoming(news) /\ ~Seated(news)
          /\ \E st \in {"RESERVED", "PAID"} :
                Happens([news EXCEPT !.seat = [status |-> st, since |-> news.show.version]])
       \/ news.seat.status = "RESERVED" /\ \E st \in {"none", "PAID"} : Happens([news EXCEPT !.seat.status = st])

\* A charge succeeds or fails; recordNonSuccessPayment writes any failure over another.
PaymentChanges ==
    /\ news.payment # "SUCCESS"
    /\ \E p \in (Failures \cup {"SUCCESS"}) \ {news.payment} : Happens([news EXCEPT !.payment = p])

\* The end of the membership comes near, or is put off by a renewal.
MembershipChanges ==
    /\ \/ ~news.expiring /\ Happens([news EXCEPT !.expiring = TRUE])
       \/ news.expiring /\ Happens([news EXCEPT !.expiring = FALSE, !.ends = @ + 1])

TimePasses ==
    /\ \/ news.show.when = "far" /\ Happens([news EXCEPT !.show.when = "near"])
       \/ news.show.when = "near" /\ Happens([news EXCEPT !.show.when = "past"])

\* An administrator dismisses, acts on or, restoring the account, reviews the report.
ReportChanges ==
    /\ \/ news.report # "ACTIONED" /\ Happens([news EXCEPT !.report = "DISMISSED"])
       \/ \E st \in {"ACTIONED", "REVIEWED"} : Happens([news EXCEPT !.report = st])

-----------------------------------------------------------------------------
(* The page: the query of the feed and the marks its effects send.            *)

\* loadFeed: a new fetch replaces the one in flight.
Loads(p) == [p EXCEPT !.loading = TRUE, !.before = marked, !.rows = Early(news)]

\* The kinds of each tab's list.
KindsOf(tab) ==
    CASE tab = "events" -> EventKinds \cup {"TICKET_CONFIRMED"}
      [] tab = "notifications" -> OtherKinds
      [] OTHER -> {}

\* What the member sees of a feed: the tab in front, and that there are new events.
Sees(tab, feed) == listed \cup {a \in feed : a[1] \in KindsOf(tab) \cup {"EVENT_PUBLISHED"}}

SwitchesTab ==
    \E t \in {"messages", "events", "notifications"} \ {feedPage.tab} :
        /\ feedPage' = [feedPage EXCEPT !.tab = t, !.effects = @ \cup {"tab"}]
        /\ listed' = Sees(t, feedPage.feed)
        /\ UNCHANGED <<news, marked, marks, changes, losses>>

\* refetchInterval, the timer a socket event sets, a new connection, the button.
Refetches ==
    /\ feedPage' = Loads(feedPage)
    /\ UNCHANGED <<news, marked, listed, marks, changes, losses>>

FeedOf(p) ==
    LET early == [news EXCEPT !.report = p.rows.report, !.ends = p.rows.ends, !.expiring = p.rows.expiring]
    IN {a \in UnseenOf(news, p.before) : a[1] \notin EarlyKinds} \cup {a \in UnseenOf(early, marked) : a[1] \in EarlyKinds}

\* The answer: an equal feed keeps its identity and wakes no effect.
FeedArrives ==
    LET feed == FeedOf(feedPage) IN
    /\ feedPage.loading
    /\ feedPage' = [feedPage EXCEPT !.loading = FALSE, !.before = {}, !.rows = Early(NoNews), !.feed = feed,
                            !.effects = IF feed # feedPage.feed THEN {"feed", "tab"} ELSE @]
    /\ listed' = Sees(feedPage.tab, feed)
    /\ UNCHANGED <<news, marked, marks, changes, losses>>

\* The kinds an effect marks: published events at once, the rest when their tab is in front.
KindsMarked(effect) ==
    IF effect = "feed" THEN {"EVENT_PUBLISHED"} ELSE KindsOf(feedPage.tab) \ {"EVENT_PUBLISHED"}

ItemsOf(kinds) == {EntityId(a[1], a[2]) : a \in {x \in feedPage.feed : x[1] \in kinds}} \ feedPage.submitted

Sends(items) ==
    IF items = {} THEN UNCHANGED marks
    ELSE /\ Cardinality(marks) < MaxMarks
         /\ marks' = marks \cup {items}

\* markFeedItemsSeen and markActiveTabSeen, run after the render that woke them.
RunsEffect(effect) ==
    /\ effect \in feedPage.effects
    /\ Sends(ItemsOf(KindsMarked(effect)))
    /\ feedPage' = [feedPage EXCEPT !.effects = @ \ {effect}]
    /\ UNCHANGED <<news, marked, listed, changes, losses>>

\* markFeedItemSeen: a click on an alert of the tab in front, published events excepted.
Clicks(k) ==
    /\ k \in KindsMarked("tab") /\ ItemsOf({k}) # {}
    /\ Sends(ItemsOf({k}))
    /\ UNCHANGED <<news, marked, listed, feedPage, changes, losses>>

\* POST /notifications/feed/seen: every item in one transaction; then the answer, which
\* the page remembers.
MarksSeen(m) ==
    /\ marked' = marked \cup m
    /\ marks' = marks \ {m}
    /\ feedPage' = [feedPage EXCEPT !.submitted = @ \cup m]
    /\ UNCHANGED <<news, listed, changes, losses>>

\* The request, or its answer, is lost: nothing counts as submitted.
MarkFails(m) ==
    /\ losses < MaxLosses
    /\ losses' = losses + 1
    /\ \/ UNCHANGED marked
       \/ marked' = marked \cup m
    /\ marks' = marks \ {m}
    /\ UNCHANGED <<news, listed, feedPage, changes>>

-----------------------------------------------------------------------------
AlertsNext ==
    \/ EventChanges \/ SeatChanges \/ PaymentChanges \/ MembershipChanges \/ TimePasses \/ ReportChanges
    \/ SwitchesTab \/ Refetches \/ FeedArrives
    \/ \E x \in {"feed", "tab"} : RunsEffect(x)
    \/ \E k \in Kind : Clicks(k)
    \/ \E m \in marks : MarksSeen(m) \/ MarkFails(m)

AlertsSpec == AlertsInit /\ [][AlertsNext]_alertVars

-----------------------------------------------------------------------------
AlertsTypeOK ==
    /\ news \in News
    /\ IsFiniteSet(marked) /\ \A i \in marked : i[1] \in Kind
    /\ IsFiniteSet(listed) /\ \A a \in listed : a[1] \in Kind
    /\ feedPage.tab \in {"messages", "events", "notifications"}
    /\ Cardinality(marks) <= MaxMarks

\* What an alert is about, of all it tells.  A payment is only about its failure: its mark
\* is the payment's id, and hides an ABANDONED one that is FAILED or REVERSED later.
About(k, told) ==
    CASE k = "EVENT_UPDATED" -> told[1]
      [] k = "EVENT_REMINDER" -> told[2]
      [] k \in {"SUBSCRIPTION_EXPIRING", "REPORT_STATUS_UPDATED"} -> told
      [] OTHER -> k

\* An alert in force that is marked seen was shown to the member, with what it is about as
\* it is now: marking an older version of an event, start, end of the membership or status
\* of a report, or another tab's list, never hides the newer one.  The status of a failed
\* payment and the details of a published or cancelled event are not part of this.
NewsIsNotLost ==
    \A a \in AlertsIn(news) :
        EntityId(a[1], a[2]) \in marked =>
            \E b \in listed : b[1] = a[1] /\ About(a[1], b[2]) = About(a[1], a[2])
=============================================================================

------------------------------- MODULE MCPages -------------------------------
(* Pages of the web application that share no state, each with small sets: the *)
(* administrators' lists of users and of reports and their event form, a       *)
(* member's messages and profile, the ordering of what a guest has chosen, the *)
(* pages of the events, and the phone at the door.  A behaviour is about one   *)
(* of them (focus), the others stand still, and their states add up.           *)
EXTENDS AdminUsers, ReportDesk, Inbox, ProfileEditor, EventEditor, Checkout, EventPages, DoorPage

CONSTANT h1     \* the conversation that is opened first

VARIABLE focus

vars == <<focus, adminVars, deskVars, inboxVars, editorVars, editorPageVars, checkoutVars, eventPageVars, doorVars>>

Pages == {"users", "reports", "messages", "profile", "event form", "checkout", "events", "door"}

\* Where the initial states of a page differ, only those about the page do.  One
\* conversation is open when the page is, the other may have ended.
Init ==
    /\ focus \in Pages
    /\ AdminUsersInit /\ DeskInit /\ InboxInit /\ EditorInit /\ EventEditorInit /\ CheckoutInit /\ EventPagesInit
    /\ DoorPageInit
    /\ chatStatus[h1] = "open"
    /\ focus # "users" => \A u \in Registered : accountStatus[u] = "ACTIVE"
    /\ focus # "profile" => ~setup
    /\ focus # "event form" => ev = NotCreated
    /\ focus # "messages" => \A c \in Chat : chatStatus[c] = "open"
    /\ focus # "checkout" => ~offered.free /\ account = "member"
    /\ focus # "events" => viewer = Nobody
    /\ focus # "door" => \A t \in Pass : pass[t] = "valid"

Still(p, v) == focus # p => UNCHANGED v

\* A decision whose answer is lost has two loads beside it, not three.
OneStoryOfReports == reloads' + lostDecisions' <= MaxReloads

\* Of a new access token, a change from another device and a failure a behaviour has one, and
\* two only without an upload.
OneStoryOfTheProfile ==
    budget'.renewals + budget'.elsewhere + budget'.refusals >= IF budget'.uploads = 0 THEN 2 ELSE 1

\* The conversations are alike until one has ended: the first that is opened is h1.  Of
\* the rare steps, a message that arrives, a break and an end, a behaviour has one.
OneStoryOfMessages ==
    /\ visits' = 0 \/ visits > 0 \/ inbox'.selected = h1
    /\ arrivals' + breaks' + Cardinality({c \in Chat : chatStatus'[c] = "closed"}) <= 1
    /\ Cardinality(listings') <= 1

\* A second request follows only upon a guest's first one, and reads, requests, effects
\* and changes are five together.
OneStoryOfEvents ==
    /\ Len(asks') = 2 => asks'[1].kind = "code" /\ asks'[2].kind = "confirm"
    /\ Len(asks') + Len(reads') + changes' + screen'.effect <= 5

\* A second check is sent while the list is the first and the staff stays.
OneStoryAtTheDoor == Len(checks') = 2 => posts' = 0 /\ workspace'.loads = 1

Next ==
    /\ UNCHANGED focus
    /\ Still("users", adminVars) /\ Still("reports", deskVars) /\ Still("messages", inboxVars)
    /\ Still("profile", editorVars) /\ Still("event form", editorPageVars)
    /\ Still("checkout", checkoutVars) /\ Still("events", eventPageVars) /\ Still("door", doorVars)
    /\ \/ focus = "users" /\ AdminUsersNext
       \/ focus = "reports" /\ DeskNext /\ OneStoryOfReports
       \/ focus = "messages" /\ InboxNext /\ OneStoryOfMessages
       \/ focus = "profile" /\ EditorNext /\ OneStoryOfTheProfile
       \/ focus = "event form" /\ EventEditorNext
       \/ focus = "checkout" /\ CheckoutNext
       \/ focus = "events" /\ EventPagesNext /\ OneStoryOfEvents
       \/ focus = "door" /\ DoorPageNext /\ OneStoryAtTheDoor

Spec == Init /\ [][Next]_vars

\* What the pages of administrators and staff show is what they asked for and what they
\* did: the list of users answers the filters on the screen (users-tab.tsx), a report does
\* not fall back behind the decision its page has confirmed unless a load was under way
\* when the answer came (reports-tab.tsx), an event is stored with what its form submitted
\* (events.service.ts), and the phone at the door tells what became of the ticket it
\* scanned (ticket-check-in-modal.tsx).
AdminPagesAgree == ListAnswersTheQuery /\ DeskShowsItsDecision /\ SavedAsSubmitted /\ DoorScreenIsTrue

\* A member's page is about what the member has open: the thread on the screen is the one
\* that was opened (matches-tab.tsx), words typed into the profile stay until a save or the
\* load of a new access token writes the form (profile-tab.tsx), one visit has one order on
\* its way and only an answer or half an hour loses the choice (app/page.tsx), and the
\* events do not fall back behind what the page has read (member-events-tab.tsx).
MemberPagesAgree == ScreenIsTheOpenThread /\ TypedWordsStay /\ ChoiceIsOrderedOnce /\ PagesKeepUp
=============================================================================

------------------------------ MODULE MCMembers ------------------------------
(* Parts of the site that share no rows, each with small sets: guest          *)
(* bookings, the scans at the door, a conversation, an event chat, the photos *)
(* of a profile, a support request, the alerts and the walk through the       *)
(* people of a state.  A behaviour is about one of them (focus), the others   *)
(* stand still, and their states add up.                                      *)
EXTENDS GuestBookings, Admissions, Conversations, LiveThreads, ProfilePhotos, Support, Alerts, DiscoveryWalk

CONSTANTS ad1, ad2      \* the administrators of the support request

VARIABLE focus

vars == <<focus, guestVars, admissionVars, chatVars, threadVars, photoVars, supportVars, alertVars, discoveryVars>>

Parts == {"guests", "door", "chat", "threads", "photos", "support", "alerts", "people"}

\* Where the initial states of a part differ, only those about the part do.  The support
\* request is a guest's: a member's is the same without the end of the link.
Init ==
    /\ focus \in Parts
    /\ GuestInit /\ AdmissionInit /\ ChatInit /\ ThreadsInit /\ PhotosInit
    /\ SupportInit /\ AlertsInit /\ DiscoveryInit
    /\ focus # "threads" => guest = {}
    /\ focus # "photos" => photos = {}
    /\ isGuest = (focus = "support")
    /\ focus # "alerts" => news.show.status = "DRAFT"
    /\ focus # "people" => standing = [x \in Others |-> [home |-> Away, score |-> 0]]

Still(part, v) == focus # part => UNCHANGED v

\* The subjects whose rows are no longer as they began: in a behaviour about the alerts
\* one of them changes, since no alert is about two of them, twice or once with a loss.
Subjects ==
    {s \in {"event", "report", "payment", "membership"} :
        CASE s = "event" -> news.show.version > 0 \/ news.show.when # "far" \/ news.seat.status = "RESERVED" \/ news.seat.since > 0
          [] s = "report" -> news.report # "OPEN"
          [] s = "payment" -> news.payment # "PENDING"
          [] s = "membership" -> news.expiring \/ news.ends > 0}

\* The administrators are alike: the first to open the request is ad1.
InTurn == call'[ad2] # Resting => call[ad1] # Resting \/ screen[ad1] # NotSent \/ call[ad2] # Resting \/ screen[ad2] # NotSent

\* Of the rare steps, the end of the link, a lost answer and a change of status alone,
\* a behaviour has one.
OneRareStep == (IF linkEnded' THEN 1 ELSE 0) + lostAnswers' + updates' <= 1

Next ==
    /\ UNCHANGED focus
    /\ Still("guests", guestVars) /\ Still("door", admissionVars) /\ Still("chat", chatVars)
    /\ Still("threads", threadVars) /\ Still("photos", photoVars) /\ Still("support", supportVars)
    /\ Still("alerts", alertVars) /\ Still("people", discoveryVars)
    /\ \/ focus = "guests" /\ GuestNext
       \/ focus = "door" /\ AdmissionNext
       \/ focus = "chat" /\ ChatNext
       \/ focus = "threads" /\ ThreadsNext
       \/ focus = "photos" /\ PhotosNext
       \/ focus = "support" /\ SupportNext /\ InTurn /\ OneRareStep
       \/ focus = "alerts" /\ AlertsNext /\ Cardinality(Subjects') <= 1 /\ changes' + losses' <= 2
       \/ focus = "people" /\ DiscoveryNext

Spec == Init /\ [][Next]_vars

\* The rows, requests and pages of the part in focus have the shapes they declare.
MembersTypeOK ==
    /\ focus = "guests" => GuestTypeOK
    /\ focus = "door" => AdmissionTypeOK
    /\ focus = "chat" => ChatTypeOK
    /\ focus = "threads" => ThreadsTypeOK
    /\ focus = "photos" => PhotosTypeOK
    /\ focus = "support" => SupportTypeOK
    /\ focus = "alerts" => AlertsTypeOK
    /\ focus = "people" => DiscoveryTypeOK
=============================================================================

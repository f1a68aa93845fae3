-------------------------------- MODULE Inbox --------------------------------
(***************************************************************************)
(* The messages page of a member (matches-tab.tsx): the list of            *)
(* conversations and requests, the open thread, the cache of threads that  *)
(* outlives the page, the events of the socket, and a message being sent.  *)
(*                                                                         *)
(* Opening and closing a thread change the page at once and ask the router *)
(* for another route; when the route is there, a new page takes over.  The *)
(* timers of no delay belong to the step that sets them.  Messages of the  *)
(* other side only; how broadcasts travel is module LiveThreads.           *)
(***************************************************************************)
EXTENDS Naturals, FiniteSets

CONSTANTS
    Chat,           \* the member's conversations
    NoChat,
    NotCached,      \* a thread the query cache does not have
    MaxArrivals,    \* bound on the messages stored while the page is open
    MaxVisits,      \* bound on the threads opened
    MaxListings,    \* bound on the loads of the list
    MaxBreaks       \* bound on lost connections and answers

ASSUME InboxAssumption ==
    NoChat \notin Chat /\ {MaxArrivals, MaxVisits, MaxListings, MaxBreaks} \subseteq Nat

VARIABLES
    chatStatus,     \* of each conversation: a request to the member, open, or closed
    written,        \* of each conversation: the number of its messages
    cached,         \* the query cache: of each conversation its messages, or NotCached
    inbox,          \* the page: matches, requests, selectedMatchId, the messages on the screen, isLoadingMessages
    route,          \* the route asked for, or "here"
    live,           \* the socket of the page is connected, and has joined the thread
    listings,       \* the loads of the list under way
    fetching,       \* of each conversation: the query under way, and whether the page waits for it
    answering,      \* the request being accepted or declined
    outgoing,       \* the message being sent, by its conversation
    arrivals, visits, listed, breaks

inboxVars == <<chatStatus, written, cached, inbox, route, live, listings, fetching, answering, outgoing,
               arrivals, visits, listed, breaks>>

NoQuery == [at |-> "none", got |-> {}, removed |-> FALSE, awaited |-> FALSE]
NoAnswer == [chat |-> NoChat, verb |-> "", at |-> ""]
NoMessage == [chat |-> NoChat, at |-> "", number |-> 0]
Of(c, N) == {<<c, n>> : n \in N}
OnScreen(c) == IF c # NoChat /\ cached[c] # NotCached THEN Of(c, cached[c]) ELSE {}

\* One conversation is open, the other may be a request.
InboxInit ==
    /\ chatStatus \in [Chat -> {"request", "open"}] /\ \E c \in Chat : chatStatus[c] = "open"
    /\ written = [c \in Chat |-> 1]
    /\ cached = [c \in Chat |-> NotCached]
    /\ inbox = [matches |-> {}, requests |-> {}, selected |-> NoChat, screen |-> {}, loading |-> FALSE]
    /\ route = "here" /\ live = [connected |-> FALSE, joined |-> FALSE]
    /\ listings = {[id |-> 0, read |-> FALSE, matches |-> {}, requests |-> {}]}
    /\ fetching = [c \in Chat |-> NoQuery]
    /\ answering = NoAnswer /\ outgoing = NoMessage
    /\ arrivals = 0 /\ visits = 0 /\ listed = 1 /\ breaks = 0

Breaks == breaks < MaxBreaks /\ breaks' = breaks + 1

-----------------------------------------------------------------------------
(* loadMessages: with a cached thread it shows that first, and it asks only  *)
(* if forced or if the cache is stale; a query under way is shared.          *)

LoadsThread(c, forced) ==
    \/ fetching' = [fetching EXCEPT ![c] =
            IF @.at # "none" /\ ~@.removed THEN [@ EXCEPT !.awaited = TRUE]
            ELSE [NoQuery EXCEPT !.at = "sent", !.awaited = TRUE]]
    \/ cached[c] # NotCached /\ ~forced /\ fetching[c].at = "none" /\ UNCHANGED fetching

ThreadReads(c) ==
    /\ fetching[c].at = "sent"
    /\ fetching' = [fetching EXCEPT ![c].at = "answered", ![c].got = 1..written[c]]
    /\ UNCHANGED <<chatStatus, written, cached, inbox, route, live, listings, answering, outgoing,
                   arrivals, visits, listed, breaks>>

\* Variant: the page does not ask which thread is open by now.
StillOpen_Unasked(c) == TRUE

StillOpen(c) == inbox.selected = c

\* The answer is merged with the cache, unless the query was removed from it, and shown
\* where the page still waits for it.
ThreadArrives(c) ==
    /\ fetching[c].at = "answered"
    /\ LET q == fetching[c]
           merged == (IF cached[c] = NotCached THEN {} ELSE cached[c]) \cup q.got
       IN /\ cached' = IF q.removed THEN cached ELSE [cached EXCEPT ![c] = merged]
          /\ inbox' = IF q.awaited /\ StillOpen(c)
                      THEN [inbox EXCEPT !.screen = Of(c, merged), !.loading = FALSE] ELSE inbox
    /\ fetching' = [fetching EXCEPT ![c] = NoQuery]
    /\ UNCHANGED <<chatStatus, written, route, live, listings, answering, outgoing,
                   arrivals, visits, listed, breaks>>

ThreadFails(c) ==
    /\ fetching[c].at # "none" /\ Breaks
    /\ inbox' = IF fetching[c].awaited /\ StillOpen(c) THEN [inbox EXCEPT !.loading = FALSE] ELSE inbox
    /\ fetching' = [fetching EXCEPT ![c] = NoQuery]
    /\ UNCHANGED <<chatStatus, written, cached, route, live, listings, answering, outgoing,
                   arrivals, visits, listed>>

-----------------------------------------------------------------------------
(* Opening and closing.                                                      *)

\* openMatch: the screen changes only if the thread is cached.
Shows(p, c) ==
    [p EXCEPT !.selected = c, !.loading = cached[c] = NotCached,
              !.screen = IF cached[c] = NotCached THEN @ ELSE Of(c, cached[c])]
Cleared(p) == [p EXCEPT !.selected = NoChat, !.screen = {}]

OpensChat(c) ==
    /\ inbox.selected = NoChat /\ c \in inbox.matches /\ answering = NoAnswer
    /\ visits < MaxVisits /\ visits' = visits + 1
    /\ inbox' = Shows(inbox, c)
    /\ route' = c
    /\ LoadsThread(c, FALSE)
    /\ live' = [live EXCEPT !.joined = FALSE]
    /\ UNCHANGED <<chatStatus, written, cached, listings, answering, outgoing, arrivals, listed, breaks>>

Closes ==
    /\ inbox.selected # NoChat
    /\ inbox' = Cleared(inbox)
    /\ route' = NoChat
    /\ live' = [live EXCEPT !.joined = FALSE]
    /\ UNCHANGED <<chatStatus, written, cached, listings, fetching, answering, outgoing,
                   arrivals, visits, listed, breaks>>

Listing == [id |-> listed, read |-> FALSE, matches |-> {}, requests |-> {}]

\* The new page begins with what is cached; what the old one waited for is not for it.
Mounts ==
    /\ route # "here" /\ listed < MaxListings
    /\ LET c == route
       IN /\ inbox' = [matches |-> {}, requests |-> {}, selected |-> c, screen |-> OnScreen(c),
                       loading |-> c # NoChat /\ cached[c] = NotCached]
          /\ fetching' = [x \in Chat |->
                IF x = c THEN IF fetching[x].at # "none" /\ ~fetching[x].removed
                              THEN [fetching[x] EXCEPT !.awaited = TRUE]
                              ELSE [NoQuery EXCEPT !.at = "sent", !.awaited = TRUE]
                ELSE [fetching[x] EXCEPT !.awaited = FALSE]]
    /\ listings' = {Listing} /\ listed' = listed + 1
    /\ live' = [connected |-> FALSE, joined |-> FALSE]
    /\ answering' = NoAnswer /\ outgoing' = NoMessage
    /\ route' = "here"
    /\ UNCHANGED <<chatStatus, written, cached, arrivals, visits, breaks>>

-----------------------------------------------------------------------------
(* The list: loadMatches.                                                    *)

In(st) == {c \in Chat : chatStatus[c] = st}

ListReads(l) ==
    /\ ~l.read
    /\ listings' = (listings \ {l}) \cup {[l EXCEPT !.read = TRUE, !.matches = In("open"), !.requests = In("request")]}
    /\ UNCHANGED <<chatStatus, written, cached, inbox, route, live, fetching, answering, outgoing,
                   arrivals, visits, listed, breaks>>

\* A thread that the list does not name is no longer selected.
ListComes(l) ==
    /\ l.read
    /\ LET p == [inbox EXCEPT !.matches = l.matches, !.requests = l.requests]
       IN inbox' = IF p.selected \in l.matches THEN p ELSE Cleared(p)
    /\ listings' = listings \ {l}
    /\ UNCHANGED <<chatStatus, written, cached, route, live, fetching, answering, outgoing,
                   arrivals, visits, listed, breaks>>

ListIsLost(l) ==
    /\ Breaks
    /\ listings' = listings \ {l}
    /\ UNCHANGED <<chatStatus, written, cached, inbox, route, live, fetching, answering, outgoing,
                   arrivals, visits, listed>>

-----------------------------------------------------------------------------
(* The socket.                                                               *)

Connects ==
    /\ ~live.connected /\ listed < MaxListings
    /\ live' = [connected |-> TRUE, joined |-> FALSE]
    /\ listings' = listings \cup {Listing} /\ listed' = listed + 1
    /\ UNCHANGED <<chatStatus, written, cached, inbox, route, fetching, answering, outgoing,
                   arrivals, visits, breaks>>

\* onJoined of the open thread: a forced load.
Joins ==
    /\ live.connected /\ ~live.joined /\ inbox.selected # NoChat
    /\ live' = [live EXCEPT !.joined = TRUE]
    /\ inbox' = [inbox EXCEPT !.screen = IF cached[inbox.selected] = NotCached THEN @ ELSE OnScreen(inbox.selected),
                              !.loading = cached[inbox.selected] = NotCached]
    /\ LoadsThread(inbox.selected, TRUE)
    /\ UNCHANGED <<chatStatus, written, cached, route, listings, answering, outgoing,
                   arrivals, visits, listed, breaks>>

Disconnects ==
    /\ live.connected /\ Breaks
    /\ live' = [connected |-> FALSE, joined |-> FALSE]
    /\ UNCHANGED <<chatStatus, written, cached, inbox, route, listings, fetching, answering, outgoing,
                   arrivals, visits, listed>>

\* upsertMessage: into the cache, and onto the screen of the open thread.
Upserted(c, n) ==
    /\ cached' = [cached EXCEPT ![c] = (IF @ = NotCached THEN {} ELSE @) \cup {n}]
    /\ inbox' = IF inbox.selected = c THEN [inbox EXCEPT !.screen = Of(c, cached'[c])] ELSE inbox

\* A message of the other side, with its event if the page is connected.
MessageArrives(c) ==
    /\ chatStatus[c] = "open" /\ arrivals < MaxArrivals
    /\ arrivals' = arrivals + 1
    /\ written' = [written EXCEPT ![c] = @ + 1]
    /\ IF live.connected THEN Upserted(c, written[c] + 1) ELSE UNCHANGED <<cached, inbox>>
    /\ UNCHANGED <<chatStatus, route, live, listings, fetching, answering, outgoing, visits, listed, breaks>>

\* What match:unmatched, or the member's own unmatchMatch, does to the page and the cache.
ForgetsChat(c) ==
    /\ cached' = [cached EXCEPT ![c] = NotCached]
    /\ fetching' = [fetching EXCEPT ![c].removed = @ \/ fetching[c].at # "none"]
    /\ LET p == [inbox EXCEPT !.matches = @ \ {c}]
       IN IF inbox.selected = c THEN inbox' = Cleared(p) /\ route' = NoChat ELSE inbox' = p /\ UNCHANGED route

ConversationEnds(c) ==
    /\ chatStatus[c] = "open"
    /\ chatStatus' = [chatStatus EXCEPT ![c] = "closed"]
    /\ IF live.connected THEN ForgetsChat(c) ELSE UNCHANGED <<cached, fetching, inbox, route>>
    /\ UNCHANGED <<written, live, listings, answering, outgoing, arrivals, visits, listed, breaks>>

-----------------------------------------------------------------------------
(* acceptRequest and declineRequest: one at a time.                          *)

Responds(c, verb) ==
    /\ inbox.selected = NoChat /\ c \in inbox.requests /\ answering = NoAnswer
    /\ answering' = [chat |-> c, verb |-> verb, at |-> "sent"]
    /\ UNCHANGED <<chatStatus, written, cached, inbox, route, live, listings, fetching, outgoing,
                   arrivals, visits, listed, breaks>>

RequestIsAnswered ==
    /\ answering.at = "sent"
    /\ IF chatStatus[answering.chat] = "request"
       THEN /\ chatStatus' = [chatStatus EXCEPT ![answering.chat] = IF answering.verb = "accept" THEN "open" ELSE "closed"]
            /\ answering' = [answering EXCEPT !.at = "done"]
       ELSE UNCHANGED chatStatus /\ answering' = [answering EXCEPT !.at = "refused"]
    /\ UNCHANGED <<written, cached, inbox, route, live, listings, fetching, outgoing,
                   arrivals, visits, listed, breaks>>

\* An accepted conversation is put in the list and opened.
AnswerComes ==
    /\ answering.at \in {"done", "refused"}
    /\ LET c == answering.chat
           p == [inbox EXCEPT !.requests = @ \ {c}]
       IN IF answering.at = "done" /\ answering.verb = "accept"
          THEN /\ inbox' = Shows([p EXCEPT !.matches = @ \cup {c}], c)
               /\ route' = c /\ LoadsThread(c, FALSE)
          ELSE /\ inbox' = IF answering.at = "done" THEN p ELSE inbox
               /\ UNCHANGED <<route, fetching>>
    /\ answering' = NoAnswer
    /\ UNCHANGED <<chatStatus, written, cached, live, listings, outgoing, arrivals, visits, listed, breaks>>

-----------------------------------------------------------------------------
(* sendMessage.                                                              *)

Sends ==
    /\ inbox.selected \in inbox.matches /\ live.joined /\ outgoing = NoMessage
    /\ arrivals < MaxArrivals /\ arrivals' = arrivals + 1
    /\ outgoing' = [chat |-> inbox.selected, at |-> "sent", number |-> 0]
    /\ UNCHANGED <<chatStatus, written, cached, inbox, route, live, listings, fetching, answering,
                   visits, listed, breaks>>

SendIsStored ==
    /\ outgoing.at = "sent" /\ chatStatus[outgoing.chat] = "open"
    /\ written' = [written EXCEPT ![outgoing.chat] = @ + 1]
    /\ outgoing' = [outgoing EXCEPT !.at = "stored", !.number = written'[outgoing.chat]]
    /\ UNCHANGED <<chatStatus, cached, inbox, route, live, listings, fetching, answering,
                   arrivals, visits, listed, breaks>>

\* The acknowledgement: for the thread that is open by now, or for nobody.
SendIsAcknowledged ==
    /\ outgoing.at = "stored"
    /\ IF StillOpen(outgoing.chat) THEN Upserted(outgoing.chat, outgoing.number) ELSE UNCHANGED <<cached, inbox>>
    /\ outgoing' = NoMessage
    /\ UNCHANGED <<chatStatus, written, route, live, listings, fetching, answering, arrivals, visits, listed, breaks>>

\* A refusal, or ten seconds without an answer: then the thread is loaded again.
SendFails ==
    /\ outgoing # NoMessage
    /\ \/ outgoing.at = "sent" /\ chatStatus[outgoing.chat] = "closed" /\ UNCHANGED <<breaks, inbox, fetching>>
       \/ /\ Breaks
          /\ IF StillOpen(outgoing.chat)
             THEN /\ LoadsThread(outgoing.chat, TRUE)
                  /\ inbox' = [inbox EXCEPT !.loading = cached[outgoing.chat] = NotCached,
                        !.screen = IF cached[outgoing.chat] = NotCached THEN @ ELSE OnScreen(outgoing.chat)]
             ELSE UNCHANGED <<inbox, fetching>>
    /\ outgoing' = NoMessage
    /\ UNCHANGED <<chatStatus, written, cached, route, live, listings, answering, arrivals, visits, listed>>

-----------------------------------------------------------------------------
InboxNext ==
    \/ \E c \in Chat :
        \/ ThreadReads(c) \/ ThreadArrives(c) \/ ThreadFails(c) \/ OpensChat(c)
        \/ MessageArrives(c) \/ ConversationEnds(c) \/ Responds(c, "accept") \/ Responds(c, "decline")
    \/ Closes \/ Mounts \/ Connects \/ Joins \/ Disconnects
    \/ \E l \in listings : ListReads(l) \/ ListComes(l) \/ ListIsLost(l)
    \/ RequestIsAnswered \/ AnswerComes
    \/ Sends \/ SendIsStored \/ SendIsAcknowledged \/ SendFails

InboxSpec == InboxInit /\ [][InboxNext]_inboxVars

-----------------------------------------------------------------------------
InboxTypeOK ==
    /\ chatStatus \in [Chat -> {"request", "open", "closed"}]
    /\ \A c \in Chat : cached[c] = NotCached \/ cached[c] \subseteq 1..written[c]
    /\ inbox.matches \subseteq Chat /\ inbox.requests \subseteq Chat /\ inbox.selected \in Chat \cup {NoChat}
    /\ route \in Chat \cup {NoChat, "here"}
    /\ live.joined => live.connected

\* What is on the screen is the open conversation's: an answer, an acknowledgement or an
\* event for a thread that was left does not come up in the one that is read now.
ScreenIsTheOpenThread ==
    \A m \in inbox.screen : m[1] = inbox.selected
=============================================================================

----------------------------- MODULE LiveThreads -----------------------------
(***************************************************************************)
(* One event chat as its readers see it: the messages stored and broadcast *)
(* by rooms.service.ts and rooms.gateway.ts, carried between the API       *)
(* replicas by Redis (realtime/redis-io.adapter.ts), and the page of a     *)
(* reader, who rejoins after every connection (lib/realtime-room.ts) and   *)
(* then loads the latest messages over HTTP (rooms-tab.tsx; a guest's      *)
(* guest-room-view.tsx).  A replica that stops drains first                *)
(* (lifecycle/api-shutdown.ts).                                            *)
(* The direct messages of matches-tab.tsx are built alike.                 *)
(*                                                                         *)
(* Broadcasts reach a replica at most once and are kept nowhere: what a    *)
(* reader misses while away must come with the load.  MaxMessages stays    *)
(* below the 100 messages of a load, so the page keeps all it has seen.    *)
(***************************************************************************)
EXTENDS Naturals, FiniteSets

CONSTANTS
    Replica,        \* API processes
    Reader,         \* pages that show the chat
    MaxMessages,    \* bound on the messages
    MaxFaults,      \* bound on lost connections, stops and failed requests
    Nowhere

ASSUME LiveThreadsAssumption == MaxMessages \in Nat /\ MaxFaults \in Nat /\ Nowhere \notin Replica

VARIABLES
    guest,      \* the readers who use the public page
    posted,     \* ChatMessage rows: the messages are 1..posted
    handler,    \* where a message's request still runs, or Nowhere
    unsent,     \* messages whose request or process ended before the broadcast
    replica,    \* state of each process
    bridge,     \* a replica's Redis connections: up, broken unnoticed, or down
    outbox,     \* broadcasts a replica has yet to publish
    transit,    \* <<message, replica>>: published, on the way
    socket,     \* a reader's connection: replica, whether it still carries, in the room
    asked,      \* the page's join: none, asked, served, refused, done
    loads,      \* the page's loads in progress
    missing,    \* why the last load after a join may not show everything (history)
    shown,      \* the messages on the page
    faults

threadVars == <<guest, posted, handler, unsent, replica, bridge, outbox, transit, socket, asked,
                loads, missing, shown, faults>>
server == <<posted, handler, unsent, replica, bridge, outbox, transit>>
page == <<socket, asked, loads, missing, shown>>

Message == 1..MaxMessages
ProcessState == {"up", "draining", "gone"}
BridgeState == {"up", "broken", "down"}
JoinState == {"none", "asked", "served", "refused", "done"}
SocketState == [at : Replica \cup {Nowhere}, alive : BOOLEAN, joined : BOOLEAN]
Stored == 1..posted

Off == [at |-> Nowhere, alive |-> FALSE, joined |-> FALSE]
\* A load: whether the database was read, what it returned, and whether it began
\* after the page's present join.
Asked(f) == [read |-> FALSE, got |-> {}, fresh |-> f]

\* The page mounts with a first load, before its socket connects.
ThreadsInit ==
    /\ guest \in SUBSET Reader
    /\ posted = 0
    /\ handler = [m \in Message |-> Nowhere]
    /\ unsent = {}
    /\ replica = [r \in Replica |-> "up"]
    /\ bridge = [r \in Replica |-> "up"]
    /\ outbox = [r \in Replica |-> {}]
    /\ transit = {}
    /\ socket = [c \in Reader |-> Off]
    /\ asked = [c \in Reader |-> "none"]
    /\ loads = [c \in Reader |-> {Asked(FALSE)}]
    /\ missing = [c \in Reader |-> "join"]
    /\ shown = [c \in Reader |-> {}]
    /\ faults = 0

Fault == faults < MaxFaults /\ faults' = faults + 1

\* The sockets of C end: the page knows, and a load in progress may be too old
\* for the next join.
Drop(C) ==
    /\ socket' = [c \in Reader |-> IF c \in C THEN Off ELSE socket[c]]
    /\ asked' = [c \in Reader |-> IF c \in C THEN "none" ELSE asked[c]]
    /\ loads' = [c \in Reader |->
                    IF c \in C THEN {[l EXCEPT !.fresh = FALSE] : l \in loads[c]} ELSE loads[c]]
    /\ missing' = [c \in Reader |-> IF c \in C THEN "join" ELSE missing[c]]
    /\ UNCHANGED shown

SocketsOf(r) == {c \in Reader : socket[c].at = r}
InRoom(r) == {c \in SocketsOf(r) : socket[c].joined /\ socket[c].alive}
\* upsertMessage, or the guest's merge.
Show(C, m) == shown' = [c \in Reader |-> IF c \in C THEN shown[c] \cup {m} ELSE shown[c]]

-----------------------------------------------------------------------------
(* Posting: createRoomMessage, then emitRoomMessage. *)

Serving(r) == replica[r] = "up" /\ bridge[r] # "down"

PostStored(r) ==
    /\ Serving(r) /\ posted < MaxMessages
    /\ posted' = posted + 1
    /\ handler' = [handler EXCEPT ![posted + 1] = r]
    /\ UNCHANGED <<guest, unsent, replica, bridge, outbox, transit, page, faults>>

\* Both namespaces of the replica; the other replicas by way of Redis.
PostEmitted(m) ==
    /\ handler[m] # Nowhere
    /\ LET r == handler[m]
       IN /\ Show(InRoom(r), m)
          /\ outbox' = [outbox EXCEPT ![r] = @ \cup {m}]
    /\ handler' = [handler EXCEPT ![m] = Nowhere]
    /\ UNCHANGED <<guest, posted, unsent, replica, bridge, transit, socket, asked, loads, missing, faults>>

\* markRoomRead asks for the membership again, after the message is stored: the
\* author who has lost it gets an error, and nobody the broadcast.
PostFails(m) ==
    /\ Fault /\ handler[m] # Nowhere
    /\ handler' = [handler EXCEPT ![m] = Nowhere]
    /\ unsent' = unsent \cup {m}
    /\ UNCHANGED <<guest, posted, replica, bridge, outbox, transit, page>>

\* The publisher keeps a command until its connection carries it; a replica whose
\* subscriber is away gets nothing.
Published(r, M) ==
    transit \cup (M \X {q \in Replica \ {r} : replica[q] # "gone" /\ bridge[q] = "up"})
Publish(r, m) ==
    /\ bridge[r] = "up" /\ m \in outbox[r]
    /\ transit' = Published(r, {m})
    /\ outbox' = [outbox EXCEPT ![r] = @ \ {m}]
    /\ UNCHANGED <<guest, posted, handler, unsent, replica, bridge, page, faults>>

Deliver(m, r) ==
    /\ <<m, r>> \in transit
    /\ transit' = transit \ {<<m, r>>}
    /\ Show(InRoom(r), m)
    /\ UNCHANGED <<guest, posted, handler, unsent, replica, bridge, outbox, socket, asked, loads,
                   missing, faults>>

-----------------------------------------------------------------------------
(* The bridge and the process. *)

NotFor(r) == {d \in transit : d[2] # r}

BridgeBreaks(r) ==
    /\ Fault /\ replica[r] # "gone" /\ bridge[r] = "up"
    /\ bridge' = [bridge EXCEPT ![r] = "broken"]
    /\ transit' = NotFor(r)
    /\ UNCHANGED <<guest, posted, handler, unsent, replica, outbox, page>>

\* onUnavailable: every client transport of the replica is closed.
BridgeLost(r) ==
    /\ bridge[r] = "broken"
    /\ bridge' = [bridge EXCEPT ![r] = "down"]
    /\ Drop(SocketsOf(r))
    /\ UNCHANGED <<guest, posted, handler, unsent, replica, outbox, transit, faults>>

BridgeReady(r) ==
    /\ replica[r] # "gone" /\ bridge[r] = "down"
    /\ bridge' = [bridge EXCEPT ![r] = "up"]
    /\ UNCHANGED <<guest, posted, handler, unsent, replica, outbox, transit, page, faults>>

Drain(r) ==
    /\ Fault /\ replica[r] = "up"
    /\ replica' = [replica EXCEPT ![r] = "draining"]
    /\ UNCHANGED <<guest, posted, handler, unsent, bridge, outbox, transit, page>>

Running(r) == {m \in Stored : handler[m] = r}

\* The process ends with its sockets and subscription; what its publisher could
\* not send is gone.
ProcessEnds(r, flushed) ==
    /\ replica' = [replica EXCEPT ![r] = "gone"]
    /\ handler' = [m \in Message |-> IF m \in Running(r) THEN Nowhere ELSE handler[m]]
    /\ transit' = {d \in Published(r, flushed) : d[2] # r}
    /\ outbox' = [outbox EXCEPT ![r] = {}]
    /\ bridge' = [bridge EXCEPT ![r] = "down"]
    /\ Drop(SocketsOf(r))
    /\ UNCHANGED <<guest, posted>>

\* shutdown: after the last handler the local servers close, then Redis quits,
\* with what is queued if it is connected.
\* Mutant: the process does not wait for its handlers.
Close_NoWait(r) ==
    /\ replica[r] = "draining"
    /\ LET flushed == IF bridge[r] = "up" THEN outbox[r] ELSE {}
       IN ProcessEnds(r, flushed) /\ unsent' = unsent \cup (outbox[r] \ flushed)
    /\ UNCHANGED faults

Close(r) ==
    /\ replica[r] = "draining" /\ Running(r) = {}
    /\ LET flushed == IF bridge[r] = "up" THEN outbox[r] ELSE {}
       IN ProcessEnds(r, flushed) /\ unsent' = unsent \cup (outbox[r] \ flushed)
    /\ UNCHANGED faults

\* The deadline, or a crash.
Killed(r) ==
    /\ Fault /\ replica[r] # "gone"
    /\ ProcessEnds(r, {})
    /\ unsent' = unsent \cup Running(r) \cup outbox[r]

Started(r) ==
    /\ replica[r] = "gone"
    /\ replica' = [replica EXCEPT ![r] = "up"]
    /\ bridge' = [bridge EXCEPT ![r] = "up"]
    /\ UNCHANGED <<guest, posted, handler, unsent, outbox, transit, page, faults>>

-----------------------------------------------------------------------------
(* The reader's connection: allowRequest, bindRealtimeRoom, joinRoom. *)

Connect(c, r) ==
    /\ socket[c].at = Nowhere /\ Serving(r)
    /\ socket' = [socket EXCEPT ![c] = [at |-> r, alive |-> TRUE, joined |-> FALSE]]
    /\ asked' = [asked EXCEPT ![c] = "asked"]
    /\ UNCHANGED <<guest, server, loads, missing, shown, faults>>

\* A refusal because the replica drains or has lost its bridge is retried.
JoinServed(c) ==
    /\ asked[c] = "asked" /\ socket[c].alive /\ Serving(socket[c].at)
    /\ socket' = [socket EXCEPT ![c].joined = TRUE]
    /\ asked' = [asked EXCEPT ![c] = "served"]
    /\ UNCHANGED <<guest, server, loads, missing, shown, faults>>

\* assertRoomParticipant, an expired session or too many actions: the page shows the
\* error and asks again only over its next connection.
JoinRefused(c) ==
    /\ Fault /\ asked[c] = "asked" /\ socket[c].alive
    /\ asked' = [asked EXCEPT ![c] = "refused"]
    /\ UNCHANGED <<guest, server, socket, loads, missing, shown>>

\* The answer came after the page's timeout: it asks again.
JoinTimesOut(c) ==
    /\ asked[c] = "served"
    /\ asked' = [asked EXCEPT ![c] = "asked"]
    /\ UNCHANGED <<guest, server, socket, loads, missing, shown, faults>>

\* onJoined.  A guest's page starts a load of its own.  A member's goes through the
\* query cache, which gives a load in progress to a second caller, forced or not.
JoinAcknowledged(c) ==
    /\ asked[c] = "served" /\ socket[c].alive
    /\ asked' = [asked EXCEPT ![c] = "done"]
    /\ IF c \in guest \/ loads[c] = {}
       THEN /\ loads' = [loads EXCEPT ![c] = @ \cup {Asked(TRUE)}]
            /\ missing' = [missing EXCEPT ![c] = "load"]
       ELSE /\ missing' = [missing EXCEPT ![c] = "shared"]
            /\ UNCHANGED loads
    /\ UNCHANGED <<guest, server, socket, shown, faults>>

\* getRoomMessages, getPublicRoom: the rows of that moment.
LoadRead(c, l) ==
    /\ l \in loads[c] /\ ~l.read
    /\ loads' = [loads EXCEPT ![c] = (@ \ {l}) \cup {[l EXCEPT !.read = TRUE, !.got = Stored]}]
    /\ UNCHANGED <<guest, server, socket, asked, missing, shown, faults>>

Done(c, l) ==
    /\ loads' = [loads EXCEPT ![c] = @ \ {l}]
    /\ missing' = [missing EXCEPT ![c] = IF l.fresh THEN "nothing" ELSE @]

\* mergeCachedRoomMessages: the page keeps what arrived meanwhile.
LoadAnswered(c, l) ==
    /\ l \in loads[c] /\ l.read
    /\ Done(c, l)
    /\ shown' = [shown EXCEPT ![c] = @ \cup l.got]
    /\ UNCHANGED <<guest, server, socket, asked, faults>>

\* The error is shown at most; no further load follows.
LoadFails(c, l) ==
    /\ Fault /\ l \in loads[c]
    /\ loads' = [loads EXCEPT ![c] = @ \ {l}]
    /\ missing' = [missing EXCEPT ![c] = IF l.fresh \/ @ = "shared" THEN "failed" ELSE @]
    /\ UNCHANGED <<guest, server, socket, asked, shown>>

\* The network takes the connection; both ends notice later.
SocketDies(c) ==
    /\ Fault /\ socket[c].alive
    /\ socket' = [socket EXCEPT ![c].alive = FALSE]
    /\ UNCHANGED <<guest, server, asked, loads, missing, shown>>

SocketEnds(c) ==
    /\ socket[c].at # Nowhere /\ ~socket[c].alive
    /\ Drop({c})
    /\ UNCHANGED <<guest, server, faults>>

ThreadsNext ==
    \/ \E r \in Replica :
        \/ PostStored(r) \/ BridgeBreaks(r) \/ BridgeLost(r) \/ BridgeReady(r)
        \/ Drain(r) \/ Close(r) \/ Killed(r) \/ Started(r)
        \/ \E m \in Message : Publish(r, m) \/ Deliver(m, r)
        \/ \E c \in Reader : Connect(c, r)
    \/ \E m \in Stored : PostEmitted(m) \/ PostFails(m)
    \/ \E c \in Reader :
        \/ JoinServed(c) \/ JoinRefused(c) \/ JoinTimesOut(c) \/ JoinAcknowledged(c)
        \/ SocketDies(c) \/ SocketEnds(c)
        \/ \E l \in loads[c] : LoadRead(c, l) \/ LoadAnswered(c, l) \/ LoadFails(c, l)

ThreadsSpec == ThreadsInit /\ [][ThreadsNext]_threadVars

-----------------------------------------------------------------------------
(* Properties. *)

LoadState == [read : BOOLEAN, got : SUBSET Message, fresh : BOOLEAN]

ThreadsTypeOK ==
    /\ guest \subseteq Reader /\ posted \in 0..MaxMessages /\ faults \in 0..MaxFaults
    /\ handler \in [Message -> Replica \cup {Nowhere}]
    /\ unsent \subseteq Message /\ transit \subseteq Message \X Replica
    /\ replica \in [Replica -> ProcessState]
    /\ bridge \in [Replica -> BridgeState]
    /\ outbox \in [Replica -> SUBSET Message]
    /\ socket \in [Reader -> SocketState]
    /\ asked \in [Reader -> JoinState]
    /\ loads \in [Reader -> SUBSET LoadState]
    /\ missing \in [Reader -> {"join", "load", "shared", "failed", "nothing"}]
    /\ shown \in [Reader -> SUBSET Message]

Live(c) == asked[c] = "done" /\ socket[c].alive /\ bridge[socket[c].at] = "up"

\* What a live page still has to get: the broadcasts under way to its replica, and
\* those that never left because their request or process failed.
UnderWay(c) ==
    unsent \cup {m \in Stored : handler[m] # Nowhere \/ <<m, socket[c].at>> \in transit}
    \cup UNION {outbox[r] : r \in Replica \ {socket[c].at}}

\* A page whose load began after its join shows every message of the chat or is
\* about to get it: between the load and the broadcasts nothing falls through,
\* whatever connections, bridges and processes came and went (redis-io.adapter.ts
\* closes the clients of a lost bridge, api-shutdown.ts waits for the handlers, the
\* pages merge).
LoadedThreadIsWhole ==
    \A c \in Reader : Live(c) /\ missing[c] = "nothing" => Stored \subseteq shown[c] \cup UnderWay(c)
=============================================================================

-------------------------------- MODULE Events --------------------------------
(***************************************************************************)
(* The organiser's side of one event and the e-mails about its venue:      *)
(* events.service.ts (updateEvent), event-venue.ts and                     *)
(* ticket-delivery.service.ts.                                             *)
(*                                                                         *)
(* updateEvent reads the event, decides, and writes in a transaction that  *)
(* does not read it again before the write.  A venue e-mail is a durable   *)
(* delivery (one for each holder and each hash of the details) and a job;  *)
(* an exclusive event's venue is e-mailed when it is revealed, and a       *)
(* recurring scan creates the deliveries that are missing.  Leases and     *)
(* attempts of the jobs are JobQueue's; a worker that dies hands its job   *)
(* back here.                                                              *)
(***************************************************************************)
EXTENDS Naturals, FiniteSets

CONSTANTS
    Organiser,      \* updateEvent requests at a time
    Holder,         \* members and guests who may hold tickets
    Worker,         \* job slots
    Venue,          \* venue, city and state together
    Start,          \* days on which the event may start
    MaxDay,         \* bound on the clock
    MaxEdits,       \* bound on the edits
    MaxCrashes,     \* bound on worker crashes and failed sends
    Nothing

VARIABLES
    event,      \* the Event row
    room,       \* ChatRoom.isActive
    holding,    \* tickets of each holder
    delivery,   \* EventVenueEmail rows, each with its job and the mails it sent
    organiser,  \* progress of each edit
    worker,     \* progress of each slot
    day, edits, crashes

eventVars == <<event, room, holding, delivery, organiser, worker, day, edits, crashes>>

Status == {"DRAFT", "PUBLISHED", "CANCELLED"}
EventType == {"PUBLIC", "EXCLUSIVE"}
Field == {"status", "type", "venue", "start"}
EventRow == [status : Status, type : EventType, version : 0..MaxEdits, venue : Venue, start : Start]
TicketsHeld == {"none", "reserved", "confirmed"}

\* What getVenueDetailsHash covers, and an EventVenueEmail with its job.
Details == [type : EventType, version : 0..MaxEdits, venue : Venue, start : Start]
DeliveryKey == [to : Holder, hash : Details]
DeliveryRow == [to : Holder, hash : Details, sent : BOOLEAN, job : {"PENDING", "RUNNING", "SUCCEEDED"},
                mails : Nat]

\* An edit, from the event it read to the one it wants, and a job.
EditRow == [pc : {"commit"}, read : EventRow, next : EventRow, says : SUBSET Field]
WorkRow == [pc : {"idle", "queue", "recheck", "send", "mark", "done"}, read : EventRow \cup {Nothing},
            row : DeliveryKey \cup {Nothing}]

ASSUME EventsAssumption ==
    /\ Start \subseteq Nat /\ IsFiniteSet(Organiser)
    /\ MaxDay \in Nat /\ MaxEdits \in Nat /\ MaxCrashes \in Nat
    /\ Nothing \notin EventRow \cup DeliveryKey

Away == [pc |-> "idle", read |-> Nothing, next |-> Nothing, says |-> {}]
Spare == [pc |-> "idle", read |-> Nothing, row |-> Nothing]

EventsInit ==
    /\ \E v \in Venue, s \in Start, t \in EventType :
        event = [status |-> "DRAFT", type |-> t, version |-> 0, venue |-> v, start |-> s]
    /\ room = FALSE
    /\ holding = [h \in Holder |-> "none"]
    /\ delivery = {}
    /\ organiser = [o \in Organiser |-> Away]
    /\ worker = [w \in Worker |-> Spare]
    /\ day = 0
    /\ edits = 0
    /\ crashes = 0

-----------------------------------------------------------------------------
(* event-venue.ts *)

\* getVenueDetailsHash: of everything but the status.
Hash(ev) == [type |-> ev.type, version |-> ev.version, venue |-> ev.venue, start |-> ev.start]

\* getVenueRevealAt: a day before the start.
Revealed(d) == day + 1 >= d.start

\* isVenueEventActive
Active(ev) == ev.status = "PUBLISHED" /\ day < ev.start

\* Mutant: deliveries are created only when the details change.
Queues_OnlyChanges(ev, changed) == Active(ev) /\ changed

Queues(ev, changed) == Active(ev) /\ (ev.type = "EXCLUSIVE" \/ changed)

\* Mutant: a job is put back whatever its state, and its delivery counts as unsent.
Requeued_Always(row, hash) ==
    IF row.hash = hash /\ holding[row.to] = "confirmed"
    THEN [row EXCEPT !.job = "PENDING", !.sent = FALSE]
    ELSE row

\* The job of a delivery that was not sent starts again if it has succeeded.
Requeued(row, hash) ==
    IF row.hash = hash /\ ~row.sent /\ row.job = "SUCCEEDED" /\ holding[row.to] = "confirmed"
    THEN [row EXCEPT !.job = "PENDING"]
    ELSE row

\* queueEventVenueEmails: a delivery and a job for every holder of a confirmed ticket
\* that has none for these details.
QueueVenueEmails(ev, changed) ==
    IF Queues(ev, changed)
    THEN delivery' =
            {Requeued(row, Hash(ev)) : row \in delivery} \cup
            {[to |-> h, hash |-> Hash(ev), sent |-> FALSE, job |-> "PENDING", mails |-> 0] :
                h \in {g \in Holder : /\ holding[g] = "confirmed"
                                      /\ \A row \in delivery : row.to = g => row.hash # Hash(ev)}}
    ELSE UNCHANGED delivery

-----------------------------------------------------------------------------
(* updateEvent *)

\* assertEventStatusTransition on the event that was read.
MayBecome(ev, status) ==
    \/ ev.status = status
    \/ ev.status = "DRAFT" /\ status \in {"PUBLISHED", "CANCELLED"}
    \/ ev.status = "PUBLISHED" /\ status = "CANCELLED"
    \/ /\ ev.status = "PUBLISHED" /\ status = "DRAFT"
       /\ \A h \in Holder : holding[h] = "none"
       /\ day < ev.start

\* The event a request asks for: one field of the event it read is changed, or only
\* texts that no property here is about.
Wanted ==
    {[event EXCEPT !.status = s] : s \in {t \in Status : MayBecome(event, t)}} \cup
    {[event EXCEPT !.type = t] : t \in EventType} \cup
    {[event EXCEPT !.venue = v] : v \in Venue} \cup
    {[event EXCEPT !.start = d] : d \in Start}

\* The fields it names: those it changes, or every field of the form.
Names(next, form) == {f \in Field : form \/ next[f] # event[f]}
Says(o, f) == f \in organiser[o].says
Value(o, f) == organiser[o].next[f]

\* venuePolicyChanged: compared with the event that was read.
PolicyChanged(o) ==
    \E field \in {"type", "venue", "start"} : Value(o, field) # organiser[o].read[field]

EditStart(o, next, form) ==
    /\ organiser[o] = Away
    /\ edits < MaxEdits
    /\ organiser' = [organiser EXCEPT ![o] = [pc |-> "commit", read |-> event, next |-> next,
                                              says |-> Names(next, form)]]
    /\ edits' = edits + 1
    /\ UNCHANGED <<event, room, holding, delivery, worker, day, crashes>>

\* The row as the update leaves it: only the fields the request says, over whatever
\* the row holds by now.
Updated(o) ==
    LET next == organiser[o].next IN
    [status |-> IF Says(o, "status") THEN next.status ELSE event.status,
     type |-> IF Says(o, "type") THEN next.type ELSE event.type,
     version |-> event.version + (IF PolicyChanged(o) THEN 1 ELSE 0),
     venue |-> IF Says(o, "venue") THEN next.venue ELSE event.venue,
     start |-> IF Says(o, "start") THEN next.start ELSE event.start]

\* chatRoom.upsert, with the status of the request or of the event that was read.
NextRoom(o) ==
    (IF Says(o, "status") THEN Value(o, "status") ELSE organiser[o].read.status) = "PUBLISHED"

EditCommit(o) ==
    LET read == organiser[o].read
        now == Updated(o)
        cancelling == Says(o, "status") /\ Value(o, "status") = "CANCELLED" /\ read.status # "CANCELLED"
    IN
    /\ organiser[o].pc = "commit"
    /\ event' = now
    /\ room' = NextRoom(o)
    /\ holding' = [h \in Holder |->
                    IF cancelling /\ holding[h] = "reserved" THEN "none" ELSE holding[h]]
    /\ QueueVenueEmails(now, now.venue # read.venue \/ now.start # read.start)
    /\ organiser' = [organiser EXCEPT ![o] = Away]
    /\ UNCHANGED <<worker, day, edits, crashes>>

-----------------------------------------------------------------------------
(* Tickets, the clock. *)

Reserve(h) ==
    /\ holding[h] = "none"
    /\ Active(event)
    /\ holding' = [holding EXCEPT ![h] = "reserved"]
    /\ UNCHANGED <<event, room, delivery, organiser, worker, day, edits, crashes>>

\* The payment of a reservation; its transaction refuses a cancelled event.
Confirm(h) ==
    /\ holding[h] = "reserved"
    /\ event.status # "CANCELLED"
    /\ holding' = [holding EXCEPT ![h] = "confirmed"]
    /\ UNCHANGED <<event, room, delivery, organiser, worker, day, edits, crashes>>

NextDay ==
    /\ day < MaxDay
    /\ day' = day + 1
    /\ UNCHANGED <<event, room, holding, delivery, organiser, worker, edits, crashes>>

-----------------------------------------------------------------------------
(* The worker: EVENT_VENUE_SCAN, TICKET_EMAIL, EVENT_VENUE_EMAIL. *)

\* scanVenueEmails reads the events; deliver reads the event of a confirmed ticket.
ScanRead(w) ==
    /\ worker[w].pc = "idle"
    /\ event.type = "EXCLUSIVE"
    /\ Active(event) \/ (event.status # "CANCELLED" /\ \E h \in Holder : holding[h] = "confirmed")
    /\ worker' = [worker EXCEPT ![w] = [Spare EXCEPT !.pc = "queue", !.read = event]]
    /\ UNCHANGED <<event, room, holding, delivery, organiser, day, edits, crashes>>

\* ... and creates the deliveries of the event it has read.
ScanQueue(w) ==
    /\ worker[w].pc = "queue"
    /\ QueueVenueEmails(worker[w].read, FALSE)
    /\ worker' = [worker EXCEPT ![w] = Spare]
    /\ UNCHANGED <<event, room, holding, organiser, day, edits, crashes>>

With(row, next) == delivery' = (delivery \ {row}) \cup {next}
Key(row) == [to |-> row.to, hash |-> row.hash]
RowOf(w) == CHOOSE row \in delivery : Key(row) = worker[w].row

Current(row) == Active(event) /\ Hash(event) = row.hash

\* deliverVenue, first reads.  A job whose delivery is sent or out of date succeeds.
DeliverRead(w, row) ==
    /\ worker[w].pc = "idle"
    /\ row.job = "PENDING"
    /\ row.hash.type = "EXCLUSIVE" => Revealed(row.hash)
    /\ IF row.sent \/ ~Current(row)
       THEN With(row, [row EXCEPT !.job = "SUCCEEDED"]) /\ UNCHANGED worker
       ELSE /\ With(row, [row EXCEPT !.job = "RUNNING"])
            /\ worker' = [worker EXCEPT ![w] = [Spare EXCEPT !.pc = "recheck", !.row = Key(row)]]
    /\ UNCHANGED <<event, room, holding, organiser, day, edits, crashes>>

\* The tickets, and the event once more.
DeliverRecheck(w) ==
    /\ worker[w].pc = "recheck"
    /\ LET row == RowOf(w) IN
        IF holding[row.to] = "confirmed" /\ Current(row)
        THEN worker' = [worker EXCEPT ![w].pc = "send"] /\ UNCHANGED delivery
        ELSE With(row, [row EXCEPT !.job = "SUCCEEDED"]) /\ worker' = [worker EXCEPT ![w] = Spare]
    /\ UNCHANGED <<event, room, holding, organiser, day, edits, crashes>>

\* Bound: mails counted per delivery.
DeliverSend(w) ==
    /\ worker[w].pc = "send"
    /\ LET row == RowOf(w) IN
        With(row, [row EXCEPT !.mails = IF @ < MaxCrashes + 2 THEN @ + 1 ELSE @])
    /\ worker' = [worker EXCEPT ![w].pc = "mark"]
    /\ UNCHANGED <<event, room, holding, organiser, day, edits, crashes>>

DeliverMark(w) ==
    /\ worker[w].pc = "mark"
    /\ LET row == RowOf(w) IN With(row, [row EXCEPT !.sent = TRUE])
    /\ worker' = [worker EXCEPT ![w].pc = "done"]
    /\ UNCHANGED <<event, room, holding, organiser, day, edits, crashes>>

Acknowledge(w) ==
    /\ worker[w].pc = "done"
    /\ LET row == RowOf(w) IN With(row, [row EXCEPT !.job = "SUCCEEDED"])
    /\ worker' = [worker EXCEPT ![w] = Spare]
    /\ UNCHANGED <<event, room, holding, organiser, day, edits, crashes>>

\* The process dies, or the mail server refuses: the job is tried again.
WorkerFails(w) ==
    /\ worker[w].pc # "idle"
    /\ crashes < MaxCrashes
    /\ crashes' = crashes + 1
    /\ worker' = [worker EXCEPT ![w] = Spare]
    /\ IF worker[w].row = Nothing
       THEN UNCHANGED delivery
       ELSE LET row == RowOf(w) IN With(row, [row EXCEPT !.job = "PENDING"])
    /\ UNCHANGED <<event, room, holding, organiser, day, edits>>

Delivering(w) == DeliverRecheck(w) \/ DeliverSend(w) \/ DeliverMark(w) \/ Acknowledge(w)

EventsNext ==
    \/ \E o \in Organiser :
        \/ EditCommit(o)
        \/ \E next \in Wanted, form \in BOOLEAN : EditStart(o, next, form)
    \/ \E h \in Holder : Reserve(h) \/ Confirm(h)
    \/ \E w \in Worker :
        \/ ScanRead(w) \/ ScanQueue(w) \/ Delivering(w) \/ WorkerFails(w)
        \/ \E row \in delivery : DeliverRead(w, row)
    \/ NextDay

EventsSpec == EventsInit /\ [][EventsNext]_eventVars

\* A due job is claimed in its turn and runs to its end, and the scan recurs
\* (job-queue.service.ts, background-worker.service.ts; shown in JobQueue).
EventsFairness ==
    /\ \A w \in Worker : WF_eventVars(Delivering(w)) /\ WF_eventVars(ScanQueue(w))
    /\ SF_eventVars(\E w \in Worker : ScanRead(w))
    /\ \A v \in Venue :
        SF_eventVars(\E w \in Worker, row \in delivery : row.hash.venue = v /\ DeliverRead(w, row))

EventsFairSpec == EventsSpec /\ EventsFairness

-----------------------------------------------------------------------------
(* Properties. *)

EventsTypeOK ==
    /\ event \in EventRow
    /\ room \in BOOLEAN
    /\ holding \in [Holder -> TicketsHeld]
    /\ delivery \subseteq DeliveryRow
    /\ organiser \in [Organiser -> {Away} \cup EditRow]
    /\ worker \in [Worker -> WorkRow]
    /\ day \in 0..MaxDay /\ edits \in 0..MaxEdits /\ crashes \in 0..MaxCrashes

\* However often edits, scans and ticket e-mails queue the same details, a holder has
\* one delivery of them and gets one mail, and one more only for an attempt whose end
\* was lost (event-venue.ts:56; ticket-delivery.service.ts:90).
OneMailPerDetails ==
    /\ \A r, q \in delivery : Key(r) = Key(q) => r = q
    /\ \A row \in delivery : row.mails <= 1 + crashes

\* Every holder of a confirmed ticket of an exclusive event that stays published and
\* revealed is sent the details that are in force, whoever edited what in between
\* (ticket-delivery.service.ts:48, "catches purchases whose confirmation email is delayed").
Told(h) == \E row \in delivery : row.to = h /\ row.hash = Hash(event) /\ row.mails > 0
HoldersAreTold ==
    \A h \in Holder :
        <>[](/\ holding[h] = "confirmed" /\ event.type = "EXCLUSIVE"
             /\ Active(event) /\ Revealed(event)) => <>[]Told(h)
=============================================================================

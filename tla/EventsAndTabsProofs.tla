------------------------- MODULE EventsAndTabsProofs --------------------------
(*************************************************************************)
(* Proofs about the venue e-mails of an event, the session of a browser  *)
(* and the lock of its cookie, for any number of edits, holders and job  *)
(* slots, of tabs, accounts and logins, and of claims.                   *)
(*************************************************************************)
EXTENDS Events, BrowserSession, CookieLock, SequenceTheorems, FiniteSetTheorems, TLAPS

-----------------------------------------------------------------------------
(*************************************************************************)
(* The venue e-mails. A slot that delivers has a running job of its      *)
(* own, and a job is put back only once it has ended and its delivery    *)
(* was not sent; so a mail beyond the lost attempts is of the attempt    *)
(* that runs now, or of the one that has marked its delivery as sent     *)
(* (MailsOK).                                                            *)
(*************************************************************************)

Delivers(w) == worker[w].pc \in {"recheck", "send", "mark", "done"}
Editing == {o \in Organiser : organiser[o].pc = "commit"}

\* Each edit under way may raise the version once.
VersionsAreCounted == event.version + Cardinality(Editing) <= edits

OneRowEach == \A r, q \in delivery : Key(r) = Key(q) => r = q

\* A slot that delivers has a running job of its own, and sent is what it marks last.
DeliversIts(w, row) ==
    /\ Key(row) = worker[w].row /\ row.job = "RUNNING"
    /\ row.sent <=> worker[w].pc = "done"
    /\ worker[w].pc \in {"recheck", "send"} => row.mails <= crashes
SlotsOK ==
    /\ \A w \in Worker : IF Delivers(w) THEN \E row \in delivery : DeliversIts(w, row)
                                        ELSE worker[w].row = Nothing
    /\ \A w \in Worker : worker[w].pc = "queue" => worker[w].read \in EventRow
    /\ \A w, v \in Worker : w # v /\ Delivers(w) => worker[w].row # worker[v].row

\* A mail beyond the lost attempts is of the attempt that runs, or of the one that ended.
MailsOK(row) ==
    /\ row.mails <= 1 + crashes
    /\ ~row.sent /\ row.job # "RUNNING" => row.mails <= crashes
MailsCounted == \A row \in delivery : MailsOK(row)

EventsInv == EventsTypeOK /\ VersionsAreCounted /\ OneRowEach /\ SlotsOK /\ MailsCounted

LEMMA SpareIs == Spare \in WorkRow /\ Spare.pc = "idle" /\ Spare.row = Nothing
  BY DEF Spare, WorkRow

LEMMA EventsStart == EventsInit => EventsInv
<1> SUFFICES ASSUME EventsInit PROVE EventsInv
  OBVIOUS
<1> USE EventsAssumption DEF EventsInit
<1>1. event \in EventRow /\ event.version = 0
  BY DEF EventRow, Status
<1>2. \A o \in Organiser : organiser[o] = Away
  OBVIOUS
<1>3. \A w \in Worker : worker[w] = Spare
  OBVIOUS
<1>4. Spare \in WorkRow /\ Spare.pc = "idle" /\ Spare.row = Nothing
  BY SpareIs
<1>5. EventsTypeOK
  <2>1. organiser \in [Organiser -> {Away} \cup EditRow] /\ worker \in [Worker -> WorkRow]
    BY <1>4
  <2>2. holding \in [Holder -> TicketsHeld] /\ delivery \subseteq DeliveryRow /\ room \in BOOLEAN
    BY DEF TicketsHeld
  <2>3. day \in 0..MaxDay /\ edits \in 0..MaxEdits /\ crashes \in 0..MaxCrashes
    OBVIOUS
  <2> QED
    BY <1>1, <2>1, <2>2, <2>3 DEF EventsTypeOK
<1>6. VersionsAreCounted
  <2>1. Editing = {}
    BY <1>2 DEF Editing, Away
  <2> QED
    BY <1>1, <2>1, FS_EmptySet DEF VersionsAreCounted
<1>7. OneRowEach /\ MailsCounted
  BY DEF OneRowEach, MailsCounted
<1>8. SlotsOK
  BY <1>3, <1>4 DEF SlotsOK, Delivers
<1> QED
  BY <1>5, <1>6, <1>7, <1>8 DEF EventsInv

\* The row of a slot that delivers.
LEMMA ItsRow ==
    ASSUME EventsInv, NEW w \in Worker, Delivers(w)
    PROVE  RowOf(w) \in delivery /\ RowOf(w) \in DeliveryRow /\ DeliversIts(w, RowOf(w)) /\ MailsOK(RowOf(w))
<1>1. PICK row \in delivery : DeliversIts(w, row)
  BY DEF EventsInv, SlotsOK
<1>2. RowOf(w) = row
  BY <1>1 DEF RowOf, DeliversIts, EventsInv, OneRowEach
<1> QED
  BY <1>1, <1>2 DEF EventsInv, EventsTypeOK, MailsCounted

\* One delivery is written and one slot moves.
LEMMA OneDelivery ==
    ASSUME EventsInv, NEW w \in Worker, NEW x \in WorkRow, NEW r \in delivery, NEW n \in DeliveryRow,
           worker' = [worker EXCEPT ![w] = x], With(r, n), Key(n) = Key(r),
           crashes' \in 0..MaxCrashes, crashes <= crashes',
           UNCHANGED <<event, room, holding, organiser, day, edits>>,
           worker[w].row = Key(r) \/ r.job = "PENDING",
           n.mails <= 1 + crashes', ~n.sent /\ n.job # "RUNNING" => n.mails <= crashes',
           \/ x.pc = "idle" /\ x.row = Nothing
           \/ /\ x.pc \in {"recheck", "send", "mark", "done"} /\ x.row = Key(r)
              /\ n.job = "RUNNING" /\ (n.sent <=> x.pc = "done")
              /\ (x.pc \in {"recheck", "send"} => n.mails <= crashes')
    PROVE  EventsInv'
<1>1. worker \in [Worker -> WorkRow] /\ worker'[w] = x /\ \A v \in Worker \ {w} : worker'[v] = worker[v]
  BY DEF EventsInv, EventsTypeOK
<1>2. delivery' = (delivery \ {r}) \cup {n} /\ delivery \subseteq DeliveryRow /\ crashes \in Nat /\ crashes' \in Nat
  BY EventsAssumption DEF With, EventsInv, EventsTypeOK
<1>3. EventsTypeOK'
  <2>1. worker' \in [Worker -> WorkRow] /\ delivery' \subseteq DeliveryRow
    BY <1>1, <1>2
  <2> QED
    BY <2>1 DEF EventsInv, EventsTypeOK
<1>4. VersionsAreCounted'
  BY DEF EventsInv, VersionsAreCounted, Editing
<1>5. OneRowEach'
  BY <1>2 DEF EventsInv, OneRowEach
<1>6. \A q \in delivery : Key(q) # Key(r) => q \in delivery'
  BY <1>2
<1>7. MailsCounted'
  <2>1. ASSUME NEW q \in delivery PROVE MailsOK(q)'
    <3>1. MailsOK(q) /\ q.mails \in Nat
      BY <1>2 DEF EventsInv, MailsCounted, DeliveryRow
    <3> QED
      BY <1>2, <3>1 DEF MailsOK
  <2>2. MailsOK(n)'
    BY DEF MailsOK
  <2> QED
    BY <1>2, <2>1, <2>2 DEF MailsCounted
<1>8. ASSUME NEW v \in Worker, v # w, Delivers(v)
      PROVE  \E row \in delivery : DeliversIts(v, row)' /\ row \in delivery' /\ worker[v].row # Key(r)
  <2>1. PICK row \in delivery : DeliversIts(v, row)
    BY <1>8 DEF EventsInv, SlotsOK
  <2>2. worker[v].row # Key(r)
    <3>1. CASE worker[w].row = Key(r)
      BY <1>8, <3>1 DEF EventsInv, SlotsOK
    <3>2. CASE r.job = "PENDING"
      BY <2>1, <3>2 DEF DeliversIts, EventsInv, OneRowEach
    <3> QED
      BY <3>1, <3>2
  <2>3. row \in delivery'
    BY <1>6, <2>1, <2>2 DEF DeliversIts
  <2>4. row.mails \in Nat
    BY <1>2 DEF DeliveryRow
  <2>5. DeliversIts(v, row)'
    BY <1>1, <1>2, <1>8, <2>1, <2>4 DEF DeliversIts
  <2> QED
    BY <2>2, <2>3, <2>5
<1>9. \/ x.pc = "idle" /\ x.row = Nothing /\ ~Delivers(w)'
      \/ n \in delivery' /\ DeliversIts(w, n)' /\ x.row = Key(r) /\ Delivers(w)'
  BY <1>1, <1>2 DEF DeliversIts, Delivers
<1>10. Key(r) # Nothing /\ \A v \in Worker : Delivers(v) => worker[v].row # Nothing
  <2>1. \A row \in delivery : Key(row) \in DeliveryKey
    BY <1>2 DEF DeliveryRow, DeliveryKey, Key
  <2>2. \A v \in Worker : Delivers(v) => \E row \in delivery : Key(row) = worker[v].row
    BY DEF EventsInv, SlotsOK, DeliversIts
  <2> QED
    BY <2>1, <2>2, EventsAssumption
<1>11. SlotsOK'
  <2>1. ASSUME NEW v \in Worker
        PROVE  IF Delivers(v)' THEN \E row \in delivery' : DeliversIts(v, row)' ELSE worker'[v].row = Nothing
    <3>1. CASE v = w
      BY <1>1, <1>9, <3>1
    <3>2. CASE v # w /\ Delivers(v)
      BY <1>1, <1>8, <3>2 DEF Delivers
    <3>3. CASE v # w /\ ~Delivers(v)
      <4>1. worker[v].row = Nothing
        BY <3>3 DEF EventsInv, SlotsOK
      <4> QED
        BY <1>1, <3>3, <4>1 DEF Delivers
    <3> QED
      BY <3>1, <3>2, <3>3
  <2>2. \A v \in Worker : worker'[v].pc = "queue" => worker'[v].read \in EventRow
    <3>1. x.pc # "queue"
      BY <1>1, <1>9 DEF Delivers
    <3> QED
      BY <1>1, <3>1 DEF EventsInv, SlotsOK
  <2>3. ASSUME NEW u \in Worker, NEW v \in Worker, u # v, Delivers(u)' PROVE worker'[u].row # worker'[v].row
    <3>1. CASE u = w
      <4>1. worker'[u].row = Key(r) /\ worker'[v].row = worker[v].row
        BY <1>1, <1>9, <2>3, <3>1
      <4>2. CASE Delivers(v)
        BY <1>8, <2>3, <3>1, <4>1, <4>2
      <4>3. CASE ~Delivers(v)
        BY <1>10, <4>1, <4>3 DEF EventsInv, SlotsOK
      <4> QED
        BY <4>2, <4>3
    <3>2. CASE u # w /\ v = w
      <4>1. Delivers(u) /\ worker'[u].row = worker[u].row
        BY <1>1, <2>3, <3>2 DEF Delivers
      <4>2. worker[u].row # Key(r) /\ worker[u].row # Nothing
        BY <1>8, <1>10, <3>2, <4>1
      <4> QED
        BY <1>1, <1>9, <3>2, <4>1, <4>2
    <3>3. CASE u # w /\ v # w
      BY <1>1, <2>3, <3>3 DEF EventsInv, SlotsOK, Delivers
    <3> QED
      BY <3>1, <3>2, <3>3
  <2> QED
    BY <2>1, <2>2, <2>3 DEF SlotsOK
<1> QED
  BY <1>3, <1>4, <1>5, <1>7, <1>11 DEF EventsInv
\* The rows change but no running job does, and no slot begins to deliver.
LEMMA SlotsStay ==
    ASSUME EventsInv, EventsTypeOK', \A row \in delivery : row.job = "RUNNING" => row \in delivery',
           crashes <= crashes', crashes' \in 0..MaxCrashes,
           \A w \in Worker : \/ worker'[w] = worker[w]
                             \/ ~Delivers(w) /\ ~Delivers(w)' /\ worker'[w].row = Nothing
                                /\ (worker'[w].pc = "queue" => worker'[w].read \in EventRow)
    PROVE  SlotsOK'
<1>1. ASSUME NEW w \in Worker, Delivers(w)'
      PROVE  /\ worker'[w] = worker[w] /\ Delivers(w)
             /\ \E row \in delivery : DeliversIts(w, row) /\ DeliversIts(w, row)' /\ row \in delivery'
  <2>1. worker'[w] = worker[w] /\ Delivers(w)
    BY <1>1 DEF Delivers
  <2>2. PICK row \in delivery : DeliversIts(w, row)
    BY <2>1 DEF EventsInv, SlotsOK
  <2>3. row \in delivery' /\ row.mails \in Nat /\ crashes \in Nat /\ crashes' \in Nat
    BY <2>2, EventsAssumption DEF DeliversIts, EventsInv, EventsTypeOK, DeliveryRow
  <2>4. DeliversIts(w, row)'
    BY <2>1, <2>2, <2>3 DEF DeliversIts
  <2> QED
    BY <2>1, <2>2, <2>3, <2>4
<1>2. ASSUME NEW w \in Worker, ~Delivers(w)' PROVE worker'[w].row = Nothing
  BY <1>2 DEF EventsInv, SlotsOK, Delivers
<1>3. \A w \in Worker : worker'[w].pc = "queue" => worker'[w].read \in EventRow
  BY DEF EventsInv, SlotsOK
<1>4. ASSUME NEW w \in Worker, NEW v \in Worker, w # v, Delivers(w)' PROVE worker'[w].row # worker'[v].row
  <2>1. worker'[w].row = worker[w].row /\ Delivers(w) /\ worker[w].row # worker[v].row
    BY <1>1, <1>4 DEF EventsInv, SlotsOK
  <2>2. worker[w].row # Nothing
    <3>1. PICK row \in delivery : Key(row) = worker[w].row
      BY <2>1 DEF EventsInv, SlotsOK, DeliversIts
    <3>2. Key(row) \in DeliveryKey
      BY DEF EventsInv, EventsTypeOK, DeliveryRow, DeliveryKey, Key
    <3> QED
      BY <3>1, <3>2, EventsAssumption
  <2> QED
    BY <1>4, <2>1, <2>2
<1> QED
  BY <1>1, <1>2, <1>3, <1>4 DEF SlotsOK

\* queueEventVenueEmails keeps the rows it finds, but for jobs that have ended, and adds
\* none for details a holder has a row of.
LEMMA Queued ==
    ASSUME EventsInv, NEW ev \in EventRow, NEW changed, QueueVenueEmails(ev, changed)
    PROVE  /\ delivery' \subseteq DeliveryRow /\ OneRowEach'
           /\ \A row \in delivery : row.job = "RUNNING" => row \in delivery'
           /\ \A row \in delivery' : MailsOK(row)
<1>1. delivery \subseteq DeliveryRow /\ crashes \in Nat
  BY EventsAssumption DEF EventsInv, EventsTypeOK
<1>2. CASE UNCHANGED delivery
  BY <1>1, <1>2 DEF EventsInv, OneRowEach, MailsCounted
<1>3. CASE Queues(ev, changed)
  <2> DEFINE h == Hash(ev)
             new == {[to |-> g, hash |-> h, sent |-> FALSE, job |-> "PENDING", mails |-> 0] :
                        g \in {x \in Holder : /\ holding[x] = "confirmed"
                                              /\ \A row \in delivery : row.to = x => row.hash # h}}
  <2>1. delivery' = {Requeued(row, h) : row \in delivery} \cup new
    BY <1>3 DEF QueueVenueEmails
  <2>2. h \in Details
    BY DEF Hash, EventRow, Details
  <2>3. ASSUME NEW n \in new
        PROVE  /\ n \in DeliveryRow /\ MailsOK(n)
               /\ \A row \in delivery : Key(row) # Key(n)
               /\ \A m \in new : Key(m) = Key(n) => m = n
    <3>1. \A m \in new : /\ m.to \in Holder /\ m.hash = h /\ \A row \in delivery : row.to = m.to => row.hash # h
                         /\ m = [to |-> m.to, hash |-> h, sent |-> FALSE, job |-> "PENDING", mails |-> 0]
      OBVIOUS
    <3> HIDE DEF h, new
    <3>2. n \in DeliveryRow
      <4>1. PICK g \in Holder : n = [to |-> g, hash |-> h, sent |-> FALSE, job |-> "PENDING", mails |-> 0]
        BY <3>1
      <4> QED
        BY <2>2, <4>1 DEF DeliveryRow
    <3>3. MailsOK(n)
      BY <1>1, <3>1 DEF MailsOK
    <3>4. \A row \in delivery : Key(row) # Key(n)
      BY <3>1 DEF Key
    <3>5. \A m \in new : Key(m) = Key(n) => m = n
      BY <3>1 DEF Key
    <3> QED
      BY <3>2, <3>3, <3>4, <3>5
  <2>4. ASSUME NEW row \in delivery
        PROVE  /\ Requeued(row, h) \in DeliveryRow /\ Key(Requeued(row, h)) = Key(row) /\ MailsOK(Requeued(row, h))
               /\ row.job = "RUNNING" => Requeued(row, h) = row
    <3>1. MailsOK(row) /\ row \in DeliveryRow
      BY <1>1 DEF EventsInv, MailsCounted
    <3>2. CASE Requeued(row, h) = row
      BY <3>1, <3>2
    <3>3. CASE Requeued(row, h) # row
      <4>1. Requeued(row, h) = [row EXCEPT !.job = "PENDING"] /\ row.job = "SUCCEEDED"
        BY <3>3 DEF Requeued
      <4>2. PICK n \in DeliveryRow : n = [row EXCEPT !.job = "PENDING"]
        BY <3>1 DEF DeliveryRow
      <4>3. n.to = row.to /\ n.hash = row.hash /\ n.sent = row.sent /\ n.mails = row.mails
        BY <3>1, <4>2 DEF DeliveryRow
      <4> QED
        BY <3>1, <4>1, <4>2, <4>3 DEF MailsOK, Key
    <3> QED
      BY <3>2, <3>3
  <2> HIDE DEF h, new
  <2>5. OneRowEach'
    BY <2>1, <2>3, <2>4 DEF EventsInv, OneRowEach
  <2> QED
    BY <2>1, <2>3, <2>4, <2>5
<1> QED
  BY <1>2, <1>3 DEF QueueVenueEmails

\* Tickets, the clock and the first step of a scan.
LEMMA QuietSteps ==
    ASSUME EventsInv,
           \/ \E h \in Holder : Reserve(h) \/ Confirm(h)
           \/ NextDay \/ UNCHANGED eventVars
           \/ \E w \in Worker : ScanRead(w)
    PROVE  EventsInv'
<1>1. UNCHANGED <<event, room, organiser, delivery, edits, crashes>>
  BY DEF Reserve, Confirm, NextDay, ScanRead, eventVars
<1>2. VersionsAreCounted' /\ OneRowEach' /\ MailsCounted'
  BY <1>1 DEF EventsInv, VersionsAreCounted, Editing, OneRowEach, MailsCounted, MailsOK
<1>3. holding' \in [Holder -> TicketsHeld] /\ day' \in 0..MaxDay
  <2>1. holding \in [Holder -> TicketsHeld] /\ day \in 0..MaxDay
    BY DEF EventsInv, EventsTypeOK
  <2>2. day' \in 0..MaxDay
    BY <2>1, EventsAssumption DEF Reserve, Confirm, NextDay, ScanRead, eventVars
  <2>3. holding' \in [Holder -> TicketsHeld]
    BY <2>1 DEF Reserve, Confirm, NextDay, ScanRead, eventVars, TicketsHeld
  <2> QED
    BY <2>2, <2>3
<1>4. CASE UNCHANGED worker
  <2>1. EventsTypeOK'
    BY <1>1, <1>3, <1>4 DEF EventsInv, EventsTypeOK
  <2>2. crashes' \in 0..MaxCrashes /\ crashes <= crashes'
    BY <1>1, EventsAssumption DEF EventsInv, EventsTypeOK
  <2>3. \A w \in Worker : worker'[w] = worker[w]
    BY <1>4
  <2> QED
    BY <1>1, <1>2, <2>1, <2>2, <2>3, SlotsStay DEF EventsInv
<1>5. ASSUME NEW w \in Worker, ScanRead(w) PROVE EventsInv'
  <2>1. worker \in [Worker -> WorkRow] /\ event \in EventRow
    BY DEF EventsInv, EventsTypeOK
  <2>2. PICK s \in WorkRow : s = Spare /\ s.row = Nothing
    BY SpareIs
  <2>3. PICK x \in WorkRow : x = [s EXCEPT !.pc = "queue", !.read = event]
    BY <2>1 DEF WorkRow
  <2>0. worker' = [worker EXCEPT ![w] = x] /\ ~Delivers(w)
    BY <1>5, <2>2, <2>3 DEF ScanRead, Delivers
  <2>4. worker' \in [Worker -> WorkRow] /\ worker'[w] = x /\ \A v \in Worker \ {w} : worker'[v] = worker[v]
    BY <2>0, <2>1
  <2>5. EventsTypeOK'
    BY <1>1, <1>3, <2>4 DEF EventsInv, EventsTypeOK
  <2>6. crashes' \in 0..MaxCrashes /\ crashes <= crashes'
    BY <1>1, EventsAssumption DEF EventsInv, EventsTypeOK
  <2>7. x.pc = "queue" /\ x.read \in EventRow /\ x.row = Nothing
    BY <2>1, <2>2, <2>3 DEF WorkRow
  <2>8. ~Delivers(w)' /\ worker'[w].row = Nothing /\ worker'[w].read \in EventRow
    BY <2>4, <2>7 DEF Delivers
  <2> QED
    BY <1>1, <1>2, <2>0, <2>4, <2>5, <2>6, <2>8, SlotsStay DEF EventsInv
<1> QED
  BY <1>4, <1>5 DEF Reserve, Confirm, NextDay, eventVars

LEMMA WorkerSteps ==
    ASSUME EventsInv, NEW w \in Worker,
           ScanQueue(w) \/ Delivering(w) \/ WorkerFails(w) \/ \E row \in delivery : DeliverRead(w, row)
    PROVE  EventsInv'
<1>1. /\ worker \in [Worker -> WorkRow] /\ delivery \subseteq DeliveryRow /\ crashes \in 0..MaxCrashes /\ event \in EventRow
      /\ crashes \in Nat /\ MaxCrashes \in Nat
  BY EventsAssumption DEF EventsInv, EventsTypeOK
<1>2. PICK x \in WorkRow : x = worker[w]
  BY <1>1
<1>3. PICK spare \in WorkRow : spare = Spare /\ spare.pc = "idle" /\ spare.row = Nothing
  BY SpareIs
<1>4. CASE ScanQueue(w)
  <2>1. x.pc = "queue" /\ QueueVenueEmails(x.read, FALSE) /\ worker' = [worker EXCEPT ![w] = spare]
        /\ UNCHANGED <<event, room, holding, organiser, day, edits, crashes>>
    BY <1>2, <1>3, <1>4 DEF ScanQueue
  <2>2. PICK ev \in EventRow : ev = x.read
    BY <1>2, <2>1 DEF EventsInv, SlotsOK
  <2>3. /\ delivery' \subseteq DeliveryRow /\ OneRowEach'
        /\ \A row \in delivery : row.job = "RUNNING" => row \in delivery'
        /\ \A row \in delivery' : MailsOK(row)
    BY <2>1, <2>2, Queued
  <2>4. worker' \in [Worker -> WorkRow] /\ worker'[w] = spare /\ \A v \in Worker \ {w} : worker'[v] = worker[v]
    BY <1>1, <2>1
  <2>5. EventsTypeOK'
    BY <2>1, <2>3, <2>4 DEF EventsInv, EventsTypeOK
  <2>6. VersionsAreCounted' /\ MailsCounted'
    BY <2>1, <2>3 DEF EventsInv, VersionsAreCounted, Editing, MailsCounted, MailsOK
  <2>7. ~Delivers(w) /\ ~Delivers(w)' /\ worker'[w].row = Nothing /\ worker'[w].pc # "queue"
    BY <1>2, <1>3, <2>1, <2>4 DEF Delivers
  <2> QED
    BY <1>1, <2>1, <2>3, <2>4, <2>5, <2>6, <2>7, SlotsStay DEF EventsInv
<1>5. CASE WorkerFails(w) /\ worker[w].row = Nothing
  <2>1. x.pc # "idle" /\ worker' = [worker EXCEPT ![w] = spare] /\ crashes < MaxCrashes /\ crashes' = crashes + 1
        /\ UNCHANGED <<event, room, holding, organiser, day, edits, delivery>>
    BY <1>2, <1>3, <1>5 DEF WorkerFails
  <2>2. ~Delivers(w)
    <3>1. ASSUME NEW row \in delivery PROVE Key(row) # Nothing
      <4>1. Key(row) \in DeliveryKey
        BY <1>1 DEF DeliveryRow, DeliveryKey, Key
      <4> QED
        BY <4>1, EventsAssumption
    <3> QED
      BY <1>5, <3>1 DEF EventsInv, SlotsOK, DeliversIts
  <2>3. worker' \in [Worker -> WorkRow] /\ worker'[w] = spare /\ \A v \in Worker \ {w} : worker'[v] = worker[v]
    BY <1>1, <2>1
  <2>4. crashes' \in 0..MaxCrashes /\ crashes <= crashes'
    BY <1>1, <2>1
  <2>5. EventsTypeOK'
    BY <2>1, <2>3, <2>4 DEF EventsInv, EventsTypeOK
  <2>6. VersionsAreCounted' /\ OneRowEach'
    BY <2>1 DEF EventsInv, VersionsAreCounted, Editing, OneRowEach
  <2>7. MailsCounted'
    <3>1. \A row \in delivery : row.mails \in Nat /\ MailsOK(row)
      BY <1>1 DEF EventsInv, MailsCounted, DeliveryRow
    <3> QED
      BY <1>1, <2>1, <3>1 DEF MailsCounted, MailsOK
  <2>8. ~Delivers(w)' /\ worker'[w].row = Nothing /\ worker'[w].pc # "queue"
    BY <1>3, <2>3 DEF Delivers
  <2> QED
    BY <2>1, <2>2, <2>3, <2>4, <2>5, <2>6, <2>7, <2>8, SlotsStay DEF EventsInv
<1>6. ASSUME Delivers(w), Delivering(w) \/ (WorkerFails(w) /\ worker[w].row # Nothing) PROVE EventsInv'
  <2>1. PICK r \in delivery : /\ r = RowOf(w) /\ r \in DeliveryRow /\ MailsOK(r)
                              /\ Key(r) = x.row /\ r.job = "RUNNING" /\ (r.sent <=> x.pc = "done")
                              /\ (x.pc \in {"recheck", "send"} => r.mails <= crashes)
    BY <1>2, <1>6, ItsRow DEF DeliversIts
  <2>2. r.mails \in Nat /\ r.sent \in BOOLEAN
    BY <2>1 DEF DeliveryRow
  <2>3. CASE DeliverRecheck(w) /\ worker' = [worker EXCEPT ![w].pc = "send"] /\ UNCHANGED delivery
    <3>1. PICK y \in WorkRow : y = [x EXCEPT !.pc = "send"]
      BY DEF WorkRow
    <3>2. y.pc = "send" /\ y.row = x.row /\ x.pc = "recheck"
      BY <1>2, <2>3, <3>1 DEF WorkRow, DeliverRecheck
    <3>3. With(r, r) /\ worker' = [worker EXCEPT ![w] = y] /\ UNCHANGED <<event, room, holding, organiser, day, edits, crashes>>
      BY <1>1, <1>2, <2>3, <3>1 DEF With, DeliverRecheck
    <3>4. r.mails <= 1 + crashes' /\ (~r.sent /\ r.job # "RUNNING" => r.mails <= crashes')
          /\ crashes' \in 0..MaxCrashes /\ crashes <= crashes'
      BY <1>1, <2>1, <2>2, <3>3 DEF MailsOK
    <3>5. y.row = Key(r) /\ (r.sent <=> y.pc = "done") /\ r.mails <= crashes'
      BY <1>1, <2>1, <3>2, <3>3
    <3> QED
      BY <1>2, <2>1, <3>2, <3>3, <3>4, <3>5, OneDelivery
  <2>4. CASE DeliverRecheck(w) /\ ~(worker' = [worker EXCEPT ![w].pc = "send"] /\ UNCHANGED delivery)
    <3>1. PICK n \in DeliveryRow : n = [r EXCEPT !.job = "SUCCEEDED"]
      BY <1>1, <2>1, <2>2 DEF DeliveryRow
    <3>2. n.to = r.to /\ n.hash = r.hash /\ n.job = "SUCCEEDED" /\ n.sent = r.sent /\ n.mails = r.mails
      BY <2>1, <3>1 DEF DeliveryRow
    <3>3. PICK y \in WorkRow : y = spare
      OBVIOUS
    <3>4. y.pc = "idle" /\ y.row = Nothing
      BY <1>3, <3>3
    <3>5. /\ worker' = [worker EXCEPT ![w] = y] /\ With(r, n)
          /\ UNCHANGED <<event, room, holding, organiser, day, edits, crashes>>
      BY <1>1, <1>2, <1>3, <2>4, <2>1, <3>1, <3>3 DEF DeliverRecheck
    <3>6. x.pc = "recheck"
      BY <1>2, <2>4 DEF DeliverRecheck
    <3>7. Key(n) = Key(r) /\ crashes' \in 0..MaxCrashes /\ crashes <= crashes'
      BY <1>1, <3>2, <3>5 DEF Key
    <3>8. n.mails <= 1 + crashes' /\ (~n.sent /\ n.job # "RUNNING" => n.mails <= crashes')
      BY <1>1, <2>1, <2>2, <3>2, <3>5, <3>6 DEF MailsOK
    <3> QED
      BY <1>2, <2>1, <3>4, <3>5, <3>7, <3>8, OneDelivery
  <2>5. CASE DeliverSend(w)
    <3>0. PICK m \in Nat : m = IF r.mails < MaxCrashes + 2 THEN r.mails + 1 ELSE r.mails
      BY <1>1, <2>2
    <3>1. PICK n \in DeliveryRow : n = [r EXCEPT !.mails = m]
      BY <2>1, <3>0 DEF DeliveryRow
    <3>2. n.to = r.to /\ n.hash = r.hash /\ n.job = r.job /\ n.sent = r.sent /\ n.mails = m
      BY <2>1, <3>1 DEF DeliveryRow
    <3>3. PICK y \in WorkRow : y = [x EXCEPT !.pc = "mark"]
      BY DEF WorkRow
    <3>4. y.pc = "mark" /\ y.row = x.row
      BY <3>3 DEF WorkRow
    <3>5. /\ worker' = [worker EXCEPT ![w] = y] /\ With(r, n)
          /\ UNCHANGED <<event, room, holding, organiser, day, edits, crashes>>
      BY <1>1, <1>2, <2>5, <2>1, <3>0, <3>1, <3>3 DEF DeliverSend
    <3>6. x.pc = "send"
      BY <1>2, <2>5 DEF DeliverSend
    <3>7. Key(n) = Key(r) /\ crashes' \in 0..MaxCrashes /\ crashes <= crashes'
      BY <1>1, <3>2, <3>5 DEF Key
    <3>8. n.mails <= 1 + crashes' /\ (~n.sent /\ n.job # "RUNNING" => n.mails <= crashes')
      BY <1>1, <2>1, <2>2, <3>0, <3>2, <3>5, <3>6 DEF MailsOK
    <3>9. y.row = Key(r) /\ n.job = "RUNNING" /\ (n.sent <=> y.pc = "done") /\ (y.pc \in {"recheck", "send"} => n.mails <= crashes')
      BY <1>1, <2>1, <3>2, <3>4, <3>5, <3>6
    <3> QED
      BY <1>2, <2>1, <3>4, <3>5, <3>7, <3>8, <3>9, OneDelivery
  <2>6. CASE DeliverMark(w)
    <3>1. PICK n \in DeliveryRow : n = [r EXCEPT !.sent = TRUE]
      BY <1>1, <2>1, <2>2 DEF DeliveryRow
    <3>2. n.to = r.to /\ n.hash = r.hash /\ n.sent = TRUE /\ n.job = r.job /\ n.mails = r.mails
      BY <2>1, <3>1 DEF DeliveryRow
    <3>3. PICK y \in WorkRow : y = [x EXCEPT !.pc = "done"]
      BY DEF WorkRow
    <3>4. y.pc = "done" /\ y.row = x.row
      BY <3>3 DEF WorkRow
    <3>5. /\ worker' = [worker EXCEPT ![w] = y] /\ With(r, n)
          /\ UNCHANGED <<event, room, holding, organiser, day, edits, crashes>>
      BY <1>1, <1>2, <1>3, <2>6, <2>1, <3>1, <3>3 DEF DeliverMark
    <3>6. x.pc = "mark"
      BY <1>2, <2>6 DEF DeliverMark
    <3>7. Key(n) = Key(r) /\ crashes' \in 0..MaxCrashes /\ crashes <= crashes'
      BY <1>1, <3>2, <3>5 DEF Key
    <3>8. n.mails <= 1 + crashes' /\ (~n.sent /\ n.job # "RUNNING" => n.mails <= crashes')
      BY <1>1, <2>1, <2>2, <3>2, <3>5, <3>6 DEF MailsOK
    <3>9. y.row = Key(r) /\ n.job = "RUNNING" /\ (n.sent <=> y.pc = "done") /\ (y.pc \in {"recheck", "send"} => n.mails <= crashes')
      BY <1>1, <2>1, <3>2, <3>4, <3>5, <3>6
    <3> QED
      BY <1>2, <2>1, <3>4, <3>5, <3>7, <3>8, <3>9, OneDelivery
  <2>7. CASE Acknowledge(w)
    <3>1. PICK n \in DeliveryRow : n = [r EXCEPT !.job = "SUCCEEDED"]
      BY <1>1, <2>1, <2>2 DEF DeliveryRow
    <3>2. n.to = r.to /\ n.hash = r.hash /\ n.job = "SUCCEEDED" /\ n.sent = r.sent /\ n.mails = r.mails
      BY <2>1, <3>1 DEF DeliveryRow
    <3>3. PICK y \in WorkRow : y = spare
      OBVIOUS
    <3>4. y.pc = "idle" /\ y.row = Nothing
      BY <1>3, <3>3
    <3>5. /\ worker' = [worker EXCEPT ![w] = y] /\ With(r, n)
          /\ UNCHANGED <<event, room, holding, organiser, day, edits, crashes>>
      BY <1>1, <1>2, <1>3, <2>7, <2>1, <3>1, <3>3 DEF Acknowledge
    <3>6. x.pc = "done"
      BY <1>2, <2>7 DEF Acknowledge
    <3>7. Key(n) = Key(r) /\ crashes' \in 0..MaxCrashes /\ crashes <= crashes'
      BY <1>1, <3>2, <3>5 DEF Key
    <3>8. n.mails <= 1 + crashes' /\ (~n.sent /\ n.job # "RUNNING" => n.mails <= crashes')
      BY <1>1, <2>1, <2>2, <3>2, <3>5, <3>6 DEF MailsOK
    <3> QED
      BY <1>2, <2>1, <3>4, <3>5, <3>7, <3>8, OneDelivery
  <2>8. CASE WorkerFails(w) /\ worker[w].row # Nothing
    <3>1. PICK n \in DeliveryRow : n = [r EXCEPT !.job = "PENDING"]
      BY <1>1, <2>1, <2>2 DEF DeliveryRow
    <3>2. n.to = r.to /\ n.hash = r.hash /\ n.job = "PENDING" /\ n.sent = r.sent /\ n.mails = r.mails
      BY <2>1, <3>1 DEF DeliveryRow
    <3>3. PICK y \in WorkRow : y = spare
      OBVIOUS
    <3>4. y.pc = "idle" /\ y.row = Nothing
      BY <1>3, <3>3
    <3>5. /\ worker' = [worker EXCEPT ![w] = y] /\ With(r, n)
          /\ UNCHANGED <<event, room, holding, organiser, day, edits>>
          /\ crashes < MaxCrashes /\ crashes' = crashes + 1
      BY <1>1, <1>2, <1>3, <2>8, <2>1, <3>1, <3>3 DEF WorkerFails
    <3>6. x.pc \in {"recheck", "send", "mark", "done"}
      BY <1>2, <1>6 DEF Delivers
    <3>7. Key(n) = Key(r) /\ crashes' \in 0..MaxCrashes /\ crashes <= crashes'
      BY <1>1, <3>2, <3>5 DEF Key
    <3>8. n.mails <= 1 + crashes' /\ (~n.sent /\ n.job # "RUNNING" => n.mails <= crashes')
      BY <1>1, <2>1, <2>2, <3>2, <3>5, <3>6 DEF MailsOK
    <3> QED
      BY <1>2, <2>1, <3>4, <3>5, <3>7, <3>8, OneDelivery
  <2> QED
    BY <1>6, <2>3, <2>4, <2>5, <2>6, <2>7, <2>8 DEF Delivering
<1>7. ASSUME NEW r \in delivery, DeliverRead(w, r) PROVE EventsInv'
  <2>1. x.pc = "idle" /\ x.row = Nothing /\ r \in DeliveryRow /\ r.job = "PENDING" /\ MailsOK(r)
        /\ UNCHANGED <<event, room, holding, organiser, day, edits, crashes>>
    BY <1>1, <1>2, <1>7 DEF DeliverRead, EventsInv, MailsCounted, SlotsOK, Delivers
  <2>2. crashes' \in 0..MaxCrashes /\ crashes <= crashes' /\ crashes' = crashes /\ r.mails \in Nat /\ r.sent \in BOOLEAN
    BY <1>1, <2>1 DEF DeliveryRow
  <2>3. CASE r.sent \/ ~Current(r)
    <3>1. PICK n \in DeliveryRow : n = [r EXCEPT !.job = "SUCCEEDED"]
      BY <2>1 DEF DeliveryRow
    <3>2. n.to = r.to /\ n.hash = r.hash /\ n.job = "SUCCEEDED" /\ n.sent = r.sent /\ n.mails = r.mails
      BY <2>1, <3>1 DEF DeliveryRow
    <3>3. worker' = [worker EXCEPT ![w] = x] /\ With(r, n)
      BY <1>1, <1>2, <1>7, <2>3, <3>1 DEF DeliverRead
    <3>4. Key(n) = Key(r) /\ n.mails <= 1 + crashes' /\ (~n.sent /\ n.job # "RUNNING" => n.mails <= crashes')
      BY <2>1, <2>2, <3>2 DEF Key, MailsOK
    <3> QED
      BY <2>1, <2>2, <3>3, <3>4, OneDelivery
  <2>4. CASE ~(r.sent \/ ~Current(r))
    <3>1. PICK n \in DeliveryRow : n = [r EXCEPT !.job = "RUNNING"]
      BY <2>1 DEF DeliveryRow
    <3>2. n.to = r.to /\ n.hash = r.hash /\ n.job = "RUNNING" /\ n.sent = r.sent /\ n.mails = r.mails
      BY <2>1, <3>1 DEF DeliveryRow
    <3>3. PICK key \in DeliveryKey : key = Key(r)
      BY <2>1 DEF DeliveryKey, DeliveryRow, Key
    <3>4. PICK y \in WorkRow : y = [spare EXCEPT !.pc = "recheck", !.row = key]
      BY DEF WorkRow
    <3>5. y.pc = "recheck" /\ y.row = key
      BY <3>4 DEF WorkRow
    <3>6. worker' = [worker EXCEPT ![w] = y] /\ With(r, n)
      BY <1>3, <1>7, <2>4, <3>1, <3>3, <3>4 DEF DeliverRead
    <3>7. Key(n) = Key(r) /\ n.mails <= 1 + crashes' /\ (~n.sent /\ n.job # "RUNNING" => n.mails <= crashes')
      BY <2>1, <2>2, <3>2 DEF Key, MailsOK
    <3>8. y.row = Key(r) /\ (n.sent <=> y.pc = "done") /\ n.mails <= crashes'
      BY <2>1, <2>2, <2>4, <3>2, <3>3, <3>5 DEF MailsOK
    <3> QED
      BY <2>1, <2>2, <3>2, <3>5, <3>6, <3>7, <3>8, OneDelivery
  <2> QED
    BY <2>3, <2>4
<1> QED
  <2>1. CASE Delivering(w) \/ (WorkerFails(w) /\ worker[w].row # Nothing)
    <3>1. Delivers(w)
      BY <2>1 DEF Delivering, DeliverRecheck, DeliverSend, DeliverMark, Acknowledge, Delivers, EventsInv, SlotsOK
    <3> QED
      BY <1>6, <2>1, <3>1
  <2> QED
    BY <1>4, <1>5, <1>7, <2>1
LEMMA EditSteps ==
    ASSUME EventsInv, NEW o \in Organiser,
           EditCommit(o) \/ \E next \in Wanted, form \in BOOLEAN : EditStart(o, next, form)
    PROVE  EventsInv'
<1>1. /\ organiser \in [Organiser -> {Away} \cup EditRow] /\ event \in EventRow /\ crashes \in 0..MaxCrashes
      /\ crashes \in Nat /\ edits \in Nat /\ MaxEdits \in Nat /\ edits <= MaxEdits /\ event.version \in Nat
  BY EventsAssumption DEF EventsInv, EventsTypeOK, EventRow
<1>2. IsFiniteSet(Editing) /\ Cardinality(Editing) \in Nat
  BY FS_Subset, FS_CardinalityType, EventsAssumption DEF Editing
<1>3. Away.pc = "idle"
  BY DEF Away
<1>4. event.version + Cardinality(Editing) <= edits
  BY DEF EventsInv, VersionsAreCounted
<1>5. ASSUME NEW next \in Wanted, NEW form \in BOOLEAN, EditStart(o, next, form) PROVE EventsInv'
  <2>1. next \in EventRow
    BY <1>1 DEF Wanted, EventRow
  <2>2. PICK e \in EditRow : e = [pc |-> "commit", read |-> event, next |-> next, says |-> Names(next, form)] /\ e.pc = "commit"
    <3>1. Names(next, form) \in SUBSET Field
      BY DEF Names
    <3>2. [pc |-> "commit", read |-> event, next |-> next, says |-> Names(next, form)] \in EditRow
      BY <1>1, <2>1, <3>1 DEF EditRow
    <3> QED
      BY <3>2
  <2>3. /\ organiser' = [organiser EXCEPT ![o] = e] /\ organiser[o] = Away /\ edits < MaxEdits /\ edits' = edits + 1
        /\ UNCHANGED <<event, room, holding, delivery, worker, day, crashes>>
    BY <1>5, <2>2 DEF EditStart
  <2>4. organiser' \in [Organiser -> {Away} \cup EditRow] /\ edits' \in 0..MaxEdits
    BY <1>1, <2>3
  <2>5. EventsTypeOK'
    BY <2>3, <2>4 DEF EventsInv, EventsTypeOK
  <2>6. Editing' = Editing \cup {o} /\ o \notin Editing
    BY <1>1, <1>3, <2>2, <2>3 DEF Editing
  <2>7. Cardinality(Editing') = Cardinality(Editing) + 1
    BY <1>2, <2>6, FS_AddElement
  <2>8. VersionsAreCounted'
    BY <1>1, <1>2, <1>4, <2>3, <2>7 DEF VersionsAreCounted
  <2>9. OneRowEach' /\ MailsCounted'
    BY <2>3 DEF EventsInv, OneRowEach, MailsCounted, MailsOK
  <2> QED
    BY <1>1, <2>3, <2>5, <2>8, <2>9, SlotsStay DEF EventsInv
<1>6. CASE EditCommit(o)
  <2>1. PICK e \in EditRow : e = organiser[o] /\ o \in Editing
    BY <1>1, <1>3, <1>6 DEF EditCommit, Editing
  <2>2. /\ event' = Updated(o) /\ room' = NextRoom(o) /\ organiser' = [organiser EXCEPT ![o] = Away]
        /\ \E c : QueueVenueEmails(Updated(o), c)
        /\ UNCHANGED <<worker, day, edits, crashes>>
    BY <1>6 DEF EditCommit
  <2>3. holding' \in [Holder -> TicketsHeld]
    BY <1>6 DEF EditCommit, EventsInv, EventsTypeOK, TicketsHeld
  <2>4. Editing' = Editing \ {o}
    BY <1>1, <1>3, <2>2 DEF Editing
  <2>5. Cardinality(Editing') = Cardinality(Editing) - 1 /\ Cardinality(Editing') \in Nat
    BY <1>2, <2>1, <2>4, FS_RemoveElement, FS_CardinalityType
  <2>6. PICK v \in Nat : v = event.version + (IF PolicyChanged(o) THEN 1 ELSE 0)
    BY <1>1
  <2>7. v + Cardinality(Editing') <= edits /\ v \in 0..MaxEdits
    BY <1>1, <1>2, <1>4, <2>5, <2>6
  <2>8. Updated(o) \in EventRow /\ Updated(o).version = v
    <3>1. /\ e.next.status \in Status /\ e.next.type \in EventType /\ e.next.venue \in Venue /\ e.next.start \in Start
          /\ event.status \in Status /\ event.type \in EventType /\ event.venue \in Venue /\ event.start \in Start
      BY <1>1 DEF EditRow, EventRow
    <3> QED
      BY <2>1, <2>6, <2>7, <3>1 DEF Updated, EventRow
  <2>9. VersionsAreCounted'
    BY <2>2, <2>7, <2>8 DEF VersionsAreCounted
  <2>10. /\ delivery' \subseteq DeliveryRow /\ OneRowEach'
         /\ \A row \in delivery : row.job = "RUNNING" => row \in delivery'
         /\ \A row \in delivery' : MailsOK(row)
    BY <2>2, <2>8, Queued
  <2>11. MailsCounted'
    BY <2>2, <2>10 DEF MailsCounted, MailsOK
  <2>12. EventsTypeOK'
    <3>1. organiser' \in [Organiser -> {Away} \cup EditRow]
      BY <1>1, <2>2
    <3>2. room' \in BOOLEAN /\ event' \in EventRow
      BY <2>2, <2>8 DEF NextRoom
    <3> QED
      BY <2>2, <2>3, <2>10, <3>1, <3>2 DEF EventsInv, EventsTypeOK
  <2> QED
    BY <1>1, <2>2, <2>9, <2>10, <2>11, <2>12, SlotsStay DEF EventsInv
<1> QED
  BY <1>5, <1>6

LEMMA EventsSteps == EventsInv /\ [EventsNext]_eventVars => EventsInv'
  BY QuietSteps, EditSteps, WorkerSteps DEF EventsNext

LEMMA EventsHold == EventsSpec => []EventsInv
  BY EventsStart, EventsSteps, PTL DEF EventsSpec

\* The event's version counts at most the edits that began, and deliveries, edits and jobs
\* are rows of their tables (events.service.ts, ticket-delivery.service.ts).
THEOREM EventsAreWellTyped == EventsSpec => []EventsTypeOK
<1>1. EventsInv => EventsTypeOK
  BY DEF EventsInv
<1> QED
  BY <1>1, EventsHold, PTL

\* A holder has one delivery of the same details, and gets one mail of it and one more
\* for each attempt whose end was lost (event-venue.ts:56, ticket-delivery.service.ts:90).
THEOREM DetailsAreMailedOnce == EventsSpec => []OneMailPerDetails
<1>1. EventsInv => OneMailPerDetails
  BY DEF EventsInv, OneRowEach, MailsCounted, MailsOK, OneMailPerDetails
<1> QED
  BY <1>1, EventsHold, PTL

-----------------------------------------------------------------------------
(***************************************************************************)
(* Proof that a tab which has heard of the browser's last login or logout  *)
(* holds no other account's session or data, for any number of tabs,       *)
(* accounts, logins and requests.                                          *)
(*                                                                         *)
(* The argument: what answers a refresh is the cookie, which is the last   *)
(* login's because logins and refreshes exclude each other and a login     *)
(* writes its revision before it leaves the lock; an answer that is late   *)
(* carries an older revision; and no refresh is begun after a logout.      *)
(***************************************************************************)

\* Nothing carries a revision that was not written yet.
Heard ==
    /\ stored <= written
    /\ \A t \in Tab : \A i \in 1..Len(mail[t]) : mail[t][i].rev <= written

\* What a tab may hold at its revision.
Honest(x) ==
    /\ x.revision <= written
    /\ x.shown \subseteq {x.auth} \ {NoOne}
    /\ x.revision = written /\ ~stray => x.auth \in {NoOne, owner[written]}

\* What a request may carry at its revision.
Fine(y) ==
    /\ y = Idle \/ y.tab \in Tab
    /\ y.rev <= written
    /\ y.kind = "login" => y.who \in Account
    /\ y.kind = "load" => y.who # NoOne
    /\ y.kind = "refresh" => ~LoggedOut(y.rev)
    /\ y.kind = "refresh" /\ y.pc = "answered" =>
        y.who \in Account /\ (y.rev = written /\ ~stray => y.who = owner[written])

\* A request that has begun to change the cookie holds the lock.
LockIsHeld ==
    \A o \in Op : op[o].pc \in {"asked", "answered"} /\ op[o].kind # "load" => cookieLock = o

\* The cookie is of the login that was answered last, and of the revision once it is written.
CookieIsKnown ==
    /\ \A o \in Op : At(o, "login", "answered") => cookie \in {NoOne, op[o].who}
    /\ ~stray /\ ~LoggedOut(written) /\ (\A o \in Op : ~At(o, "login", "answered"))
        => cookie \in {NoOne, owner[written]}

TabsAreHonest == \A t \in Tab : Honest(tab[t])
RequestsAreFine == \A o \in Op : Fine(op[o])

BInv ==
    /\ BrowserTypeOK /\ Heard
    /\ TabsAreHonest /\ RequestsAreFine
    /\ LockIsHeld /\ CookieIsKnown

-----------------------------------------------------------------------------
(* What holds between two revisions stays, and passes with the next one. *)

OpRow == [kind : {"none", "login", "refresh", "logout", "load"}, tab : Tab \cup {NoOne},
          pc : {"idle", "waiting", "asked", "answered"}, rev : Revision, who : MaybeAccount]

\* A step that writes no revision takes nothing away.
LEMMA SameRevision ==
    ASSUME UNCHANGED <<written, owner>>, stray => stray'
    PROVE  /\ \A x : Honest(x) => Honest(x)'
           /\ \A y : Fine(y) => Fine(y)'
           /\ \A r : LoggedOut(r)' = LoggedOut(r)
  BY DEF Honest, Fine, LoggedOut

\* A tab that hears of a revision forgets its session, unless the revision is its own.
LEMMA Observes ==
    ASSUME NEW x \in TabState, Honest(x), NEW r \in Revision, r <= written
    PROVE  Observe(x, r) \in TabState /\ Honest(Observe(x, r))
<1>1. CASE r = x.revision
  BY <1>1 DEF Observe
<1>2. CASE r # x.revision
  <2>1. Observe(x, r) = [x EXCEPT !.revision = r, !.auth = NoOne, !.pending = NoOp, !.shown = {}]
    BY <1>2 DEF Observe
  <2> QED
    BY <2>1 DEF TabState, Honest, MaybeAccount
<1> QED
  BY <1>1, <1>2

\* A tab that looks at the version.
LEMMA Looks ==
    ASSUME BInv, NEW t \in Tab
    PROVE  Synced(t) \in TabState /\ Honest(Synced(t))
<1>1. tab[t] \in TabState /\ Honest(tab[t]) /\ stored \in Revision /\ stored <= written
  BY DEF BInv, BrowserTypeOK, Heard, TabsAreHonest
<1>2. Read(tab[t], tab[t].revision) \in Revision /\ Read(tab[t], tab[t].revision) <= written
  BY <1>1 DEF Read, TabState, Honest
<1> QED
  BY <1>1, <1>2, Observes DEF Synced

\* A request settles, a session ends, a page is loaded anew.
LEMMA TabValues ==
    ASSUME NEW x \in TabState, Honest(x), NEW o \in Op
    PROVE  /\ Settled(o, x) \in TabState /\ Honest(Settled(o, x))
           /\ SignedOut(x) \in TabState /\ Honest(SignedOut(x))
           /\ Settled(o, SignedOut(x)) \in TabState /\ Honest(Settled(o, SignedOut(x)))
  BY DEF Settled, SignedOut, TabState, Honest, MaybeAccount

\* A tab takes the credentials of an account.
LEMMA SigningIn ==
    ASSUME NEW x \in TabState, x.shown \subseteq {x.auth} \ {NoOne}, NEW a \in Account
    PROVE  /\ SignedIn(x, a) \in TabState
           /\ SignedIn(x, a).revision = x.revision /\ SignedIn(x, a).auth = a
           /\ SignedIn(x, a).shown \subseteq {a} \ {NoOne}
  BY BrowserSessionAssumption DEF SignedIn, TabState, MaybeAccount

\* The lock passes on when a request ends, and its holder is who it was otherwise.
LEMMA Ends ==
    ASSUME BInv, NEW o \in Op, OpEnds(o)
    PROVE  /\ op' = [op EXCEPT ![o] = Idle] /\ begun' = begun
           /\ op' \in [Op -> OpRow] /\ cookieLock' \in Op \cup {NoOp} /\ LockIsHeld'
           /\ op'[o] = Idle /\ \A p \in Op \ {o} : op'[p] = op[p]
<1>1. op' = [op EXCEPT ![o] = Idle] /\ begun' = begun /\ op \in [Op -> OpRow]
      /\ cookieLock' = IF cookieLock = o THEN NoOp ELSE cookieLock
  BY DEF OpEnds, Unlocked, BInv, BrowserTypeOK, OpRow
<1>2. Idle \in OpRow /\ Idle.pc = "idle"
  BY BrowserSessionAssumption DEF Idle, OpRow, Revision, MaybeAccount
<1>3. op' \in [Op -> OpRow] /\ cookieLock' \in Op \cup {NoOp}
  BY <1>1, <1>2 DEF BInv, BrowserTypeOK
<1>4. op'[o] = Idle /\ \A p \in Op \ {o} : op'[p] = op[p]
  BY <1>1
<1>5. LockIsHeld'
  BY <1>1, <1>2, <1>4 DEF BInv, LockIsHeld
<1> QED
  BY <1>1, <1>3, <1>4, <1>5

\* A request ends without a new revision, and gives its tab an honest value: nobody's
\* login is left answered, unless the cookie went astray or there was a logout.
LEMMA EndsQuietly ==
    ASSUME BInv, NEW o \in Op, OpEnds(o), op[o] # Idle,
           NEW x \in TabState, Honest(x), tab' = [tab EXCEPT ![op[o].tab] = x],
           UNCHANGED <<stored, written, owner, mail>>,
           stray' \in BOOLEAN, stray => stray', Astray(o) => stray',
           cookie' \in {cookie, NoOne}
    PROVE  BInv'
<1>1. /\ begun' = begun /\ op' \in [Op -> OpRow] /\ cookieLock' \in Op \cup {NoOp} /\ LockIsHeld'
      /\ op'[o] = Idle /\ \A p \in Op \ {o} : op'[p] = op[p]
  BY Ends
<1>2. op[o].tab \in Tab /\ tab' \in [Tab -> TabState] /\ \A t \in Tab : tab'[t] = x \/ tab'[t] = tab[t]
  BY DEF BInv, RequestsAreFine, Fine, BrowserTypeOK
<1>3. BrowserTypeOK'
  BY <1>1, <1>2 DEF BInv, BrowserTypeOK, OpRow, MaybeAccount
<1>4. Heard'
  BY DEF BInv, Heard
<1>5. TabsAreHonest'
  <2>1. \A t \in Tab : Honest(tab'[t])
    BY <1>2 DEF BInv, TabsAreHonest
  <2> QED
    BY <2>1, SameRevision DEF TabsAreHonest, Honest
<1>6. RequestsAreFine'
  <2>1. \A p \in Op : Fine(op'[p])
    <3>1. Fine(Idle)
      BY DEF Fine, Idle, BInv, Heard, BrowserTypeOK, Revision
    <3> QED
      BY <1>1, <3>1 DEF BInv, RequestsAreFine
  <2> QED
    BY <2>1, SameRevision DEF RequestsAreFine, Fine, LoggedOut
<1>7. CookieIsKnown'
  <2>1. \A p \in Op : At(p, "login", "answered")' => At(p, "login", "answered") /\ op'[p].who = op[p].who
    BY <1>1 DEF At, Idle
  <2>2. ASSUME ~stray', ~LoggedOut(written)', \A p \in Op : ~At(p, "login", "answered")'
        PROVE  cookie' \in {NoOne, owner[written]}
    <3>1. ~stray /\ ~LoggedOut(written) /\ ~Astray(o)
      BY <2>2 DEF LoggedOut
    <3>2. \A p \in Op : ~At(p, "login", "answered")
      BY <1>1, <2>2, <3>1 DEF At, Astray
    <3> QED
      BY <3>1, <3>2 DEF BInv, CookieIsKnown
  <2> QED
    BY <2>1, <2>2 DEF BInv, CookieIsKnown
<1> QED
  BY <1>1, <1>3, <1>4, <1>5, <1>6, <1>7 DEF BInv

-----------------------------------------------------------------------------
(* Preservation, action by action. *)

\* A login that was answered too late, or failed; every other request that ends.
LEMMA EndSteps ==
    ASSUME BInv, NEW o \in Op,
           \/ RefreshDone(o) \/ RefreshRefused(o) \/ LogoutDone(o) \/ LoadDone(o) \/ Fails(o)
           \/ LoginDone(o) /\ ~Holds(o)
           \/ EnterLock(o) /\ ~Holds(o)
    PROVE  BInv'
<1> DEFINE t == op[o].tab
           s == Synced(t)
<1>1. op[o] # Idle /\ OpEnds(o) /\ UNCHANGED <<stored, written, owner, mail>>
  BY DEF RefreshDone, RefreshRefused, LogoutDone, LoadDone, Fails, LoginDone, EnterLock, At, Idle
<1>2. t \in Tab
  BY <1>1 DEF BInv, RequestsAreFine, Fine
<1>3. s \in TabState /\ Honest(s) /\ tab[t] \in TabState /\ Honest(tab[t]) /\ tab \in [Tab -> TabState]
  BY <1>2, Looks DEF BInv, BrowserTypeOK, TabsAreHonest
<1>4. /\ stray' \in BOOLEAN /\ (stray => stray') /\ (Astray(o) => stray')
      /\ cookie' \in {cookie, NoOne}
  <2>1. stray \in BOOLEAN
    BY DEF BInv, BrowserTypeOK
  <2>2. CASE Fails(o) \/ (LoginDone(o) /\ ~Holds(o))
    BY <2>1, <2>2 DEF Fails, LoginDone
  <2>3. CASE ~(Fails(o) \/ (LoginDone(o) /\ ~Holds(o)))
    <3>1. ~Astray(o)
      BY <2>3 DEF RefreshDone, RefreshRefused, LogoutDone, LoadDone, EnterLock, At, Astray
    <3>2. UNCHANGED stray /\ cookie' \in {cookie, NoOne}
      BY <2>3 DEF RefreshDone, RefreshRefused, LogoutDone, LoadDone, EnterLock
    <3> QED
      BY <2>1, <3>1, <3>2
  <2> QED
    BY <2>2, <2>3
<1>5. \E x \in TabState : Honest(x) /\ tab' = [tab EXCEPT ![t] = x]
  <2>1. CASE RefreshDone(o)
    <3> DEFINE x == IF Holds(o) THEN SignedIn(s, op[o].who) ELSE s
    <3>1. tab' = [tab EXCEPT ![t] = Settled(o, x)]
      BY <2>1 DEF RefreshDone, Of
    <3>2. x \in TabState /\ Honest(x)
      <4>1. CASE Holds(o)
        <5>1. /\ op[o].who \in Account /\ s.revision = op[o].rev
              /\ op[o].rev = written /\ ~stray => op[o].who = owner[written]
          BY <2>1, <4>1 DEF BInv, RequestsAreFine, Fine, RefreshDone, At, Holds, Of
        <5> QED
          BY <1>3, <4>1, <5>1, SigningIn DEF Honest
      <4>2. CASE ~Holds(o)
        BY <1>3, <4>2
      <4> QED
        BY <4>1, <4>2
    <3> HIDE DEF x
    <3> QED
      BY <3>1, <3>2, TabValues
  <2>2. CASE RefreshRefused(o)
    <3>1. tab' = [tab EXCEPT ![t] = Settled(o, IF Holds(o) THEN SignedOut(s) ELSE s)]
      BY <2>2 DEF RefreshRefused, Of
    <3> HIDE DEF s
    <3> QED
      BY <1>3, <3>1, TabValues
  <2>3. CASE LogoutDone(o)
    <3>1. tab' = [tab EXCEPT ![t] = tab[t]]
      BY <1>3, <2>3 DEF LogoutDone
    <3> QED
      BY <1>3, <3>1
  <2>4. CASE LoadDone(o)
    <3> DEFINE x == IF Holds(o) /\ s.auth = op[o].who THEN [s EXCEPT !.shown = @ \cup {op[o].who}] ELSE s
    <3>1. tab' = [tab EXCEPT ![t] = x]
      BY <2>4 DEF LoadDone, Of
    <3>2. op[o].who # NoOne => x \in TabState /\ Honest(x)
      <4> HIDE DEF s
      <4> QED
        BY <1>3 DEF TabState, Honest, MaybeAccount
    <3>3. op[o].who # NoOne
      BY <2>4, <1>3 DEF LoadDone, At, BInv, RequestsAreFine, Fine
    <3> HIDE DEF x
    <3> QED
      BY <3>1, <3>2, <3>3
  <2>5. CASE Fails(o)
    <3>1. tab' = [tab EXCEPT ![t] = Settled(o, tab[t])]
      BY <1>3, <2>5 DEF Fails, Of
    <3> QED
      BY <1>3, <3>1, TabValues
  <2>6. CASE LoginDone(o) /\ ~Holds(o)
    BY <1>3, <2>6 DEF LoginDone, Of
  <2>7. CASE EnterLock(o) /\ ~Holds(o)
    <3>1. tab' = [tab EXCEPT ![t] = Settled(o, s)]
      BY <2>7 DEF EnterLock, Of
    <3> HIDE DEF s
    <3> QED
      BY <1>3, <3>1, TabValues
  <2> QED
    BY <2>1, <2>2, <2>3, <2>4, <2>5, <2>6, <2>7
<1> HIDE DEF s
<1> QED
  BY <1>1, <1>4, <1>5, EndsQuietly

\* A request begins or goes on: it is fine, and holds the lock if it changes the cookie.
LEMMA GoesOn ==
    ASSUME BInv, NEW o \in Op, NEW y \in OpRow, Fine(y), op' = [op EXCEPT ![o] = y],
           NEW t \in Tab, NEW x \in TabState, Honest(x), tab' = [tab EXCEPT ![t] = x],
           begun' \in 0..MaxRequests, cookieLock' \in Op \cup {NoOp}, cookie' \in MaybeAccount,
           UNCHANGED <<stored, written, owner, mail, stray>>,
           LockIsHeld', CookieIsKnown'
    PROVE  BInv'
<1>1. BrowserTypeOK'
  BY DEF BInv, BrowserTypeOK, OpRow
<1>2. Heard'
  BY DEF BInv, Heard
<1>3. TabsAreHonest'
  <2>1. \A u \in Tab : Honest(tab'[u])
    BY DEF BInv, BrowserTypeOK, TabsAreHonest
  <2> QED
    BY <2>1, SameRevision DEF TabsAreHonest, Honest
<1>4. RequestsAreFine'
  <2>1. \A p \in Op : Fine(op'[p])
    BY DEF BInv, BrowserTypeOK, RequestsAreFine
  <2> QED
    BY <2>1, SameRevision DEF RequestsAreFine, Fine, LoggedOut
<1> QED
  BY <1>1, <1>2, <1>3, <1>4 DEF BInv

\* The cookie is known to the same extent while no login is answered or ends.
LEMMA SameCookie ==
    ASSUME BInv, UNCHANGED <<cookie, written, owner, stray>>,
           \A p \in Op : At(p, "login", "answered")' <=> At(p, "login", "answered"),
           \A p \in Op : At(p, "login", "answered") => op'[p].who = op[p].who
    PROVE  CookieIsKnown'
  BY DEF BInv, CookieIsKnown, LoggedOut

\* Requests begin.
LEMMA StartSteps ==
    ASSUME BInv, NEW o \in Op, NEW t \in Tab,
           (\E a \in Account : Login(o, t, a)) \/ Refresh(o, t) \/ LoadStart(o, t)
    PROVE  BInv'
<1> DEFINE s == Synced(t)
<1>1. s \in TabState /\ Honest(s)
  BY Looks
<1>2. /\ op[o] = Idle /\ begun' \in 0..MaxRequests
      /\ UNCHANGED <<cookie, stored, written, owner, mail, cookieLock, stray>>
  BY BrowserSessionAssumption DEF Login, Refresh, LoadStart, Starts, BInv, BrowserTypeOK
<1>3. \E x \in TabState : Honest(x) /\ tab' = [tab EXCEPT ![t] = x]
  <2>1. [s EXCEPT !.pending = o] \in TabState /\ Honest([s EXCEPT !.pending = o])
    <3> HIDE DEF s
    <3> QED
      BY <1>1 DEF TabState, Honest
  <2> QED
    BY <1>1, <2>1 DEF Login, Refresh, LoadStart
<1>4. \E y \in OpRow :
        /\ Fine(y) /\ op' = [op EXCEPT ![o] = y]
        /\ y.pc = "waiting" \/ (y.pc = "asked" /\ y.kind = "load")
  <2>1. s.revision \in Revision /\ s.revision <= written /\ s.auth \in MaybeAccount
    BY <1>1 DEF TabState, Honest
  <2>2. ASSUME NEW a \in Account, Login(o, t, a)
        PROVE  \E y \in OpRow :
                /\ Fine(y) /\ op' = [op EXCEPT ![o] = y]
                /\ y.pc = "waiting" \/ (y.pc = "asked" /\ y.kind = "load")
    <3> DEFINE y == [kind |-> "login", tab |-> t, pc |-> "waiting", rev |-> s.revision, who |-> a]
    <3>1. op' = [op EXCEPT ![o] = y]
      BY <2>2 DEF Login, Starts
    <3>2. y \in OpRow /\ Fine(y)
      BY <2>1 DEF OpRow, MaybeAccount, Fine
    <3> QED
      BY <3>1, <3>2
  <2>3. CASE Refresh(o, t)
    <3> DEFINE y == [kind |-> "refresh", tab |-> t, pc |-> "waiting", rev |-> s.revision, who |-> NoOne]
    <3>1. op' = [op EXCEPT ![o] = y] /\ ~LoggedOut(s.revision)
      BY <2>3 DEF Refresh, Starts
    <3>2. y \in OpRow /\ Fine(y)
      BY <2>1, <3>1 DEF OpRow, MaybeAccount, Fine
    <3> QED
      BY <3>1, <3>2
  <2>4. CASE LoadStart(o, t)
    <3> DEFINE y == [kind |-> "load", tab |-> t, pc |-> "asked", rev |-> s.revision, who |-> s.auth]
    <3>1. op' = [op EXCEPT ![o] = y] /\ s.auth # NoOne
      BY <2>4 DEF LoadStart, Starts
    <3>2. y \in OpRow /\ Fine(y)
      BY <2>1, <3>1 DEF OpRow, MaybeAccount, Fine
    <3> QED
      BY <3>1, <3>2
  <2> QED
    BY <2>2, <2>3, <2>4
<1>5. PICK x \in TabState : Honest(x) /\ tab' = [tab EXCEPT ![t] = x]
  BY <1>3
<1>6. PICK y \in OpRow :
        /\ Fine(y) /\ op' = [op EXCEPT ![o] = y]
        /\ y.pc = "waiting" \/ (y.pc = "asked" /\ y.kind = "load")
  BY <1>4
<1>7. /\ op'[o] = y /\ \A p \in Op \ {o} : op'[p] = op[p]
      /\ op[o].pc = "idle"
  BY <1>2, <1>6 DEF BInv, BrowserTypeOK, Idle
<1>8. LockIsHeld'
  BY <1>2, <1>6, <1>7 DEF BInv, LockIsHeld
<1>9. CookieIsKnown'
  <2>1. \A p \in Op : At(p, "login", "answered")' <=> At(p, "login", "answered")
    BY <1>6, <1>7 DEF At
  <2>2. \A p \in Op : At(p, "login", "answered") => op'[p].who = op[p].who
    BY <1>7 DEF At
  <2> QED
    BY <1>2, <2>1, <2>2, SameCookie
<1>10. cookie \in MaybeAccount /\ cookieLock \in Op \cup {NoOp}
  BY DEF BInv, BrowserTypeOK
<1> QED
  BY <1>2, <1>5, <1>6, <1>8, <1>9, <1>10, GoesOn

\* A request gets the lock and finds its revision unchanged.
LEMMA EnterStep == ASSUME BInv, NEW o \in Op, EnterLock(o), Holds(o) PROVE BInv'
<1> DEFINE t == op[o].tab
           y == [op[o] EXCEPT !.pc = "asked"]
<1>1. /\ op[o].pc = "waiting" /\ cookieLock = NoOp /\ cookieLock' = o /\ begun' = begun
      /\ op' = [op EXCEPT ![o] = y] /\ tab' = [tab EXCEPT ![t] = Synced(t)]
      /\ UNCHANGED <<cookie, stored, written, owner, mail, stray>>
  BY DEF EnterLock, Of, BInv, BrowserTypeOK
<1>2. op[o] \in OpRow /\ Fine(op[o]) /\ op[o] # Idle
  BY <1>1 DEF BInv, BrowserTypeOK, RequestsAreFine, OpRow, Idle
<1>3. t \in Tab
  BY <1>2 DEF Fine
<1>4. y \in OpRow /\ y.pc = "asked" /\ y.kind = op[o].kind /\ y.tab = op[o].tab /\ y.rev = op[o].rev /\ y.who = op[o].who
  BY <1>2 DEF OpRow
<1> HIDE DEF y
<1>5. Fine(y)
  BY <1>2, <1>3, <1>4 DEF Fine
<1>6. op'[o] = y /\ \A p \in Op \ {o} : op'[p] = op[p]
  BY <1>1 DEF BInv, BrowserTypeOK
<1>7. LockIsHeld'
  BY <1>1, <1>6, BrowserSessionAssumption DEF BInv, LockIsHeld
<1>8. CookieIsKnown'
  <2>1. \A p \in Op : At(p, "login", "answered")' <=> At(p, "login", "answered")
    BY <1>1, <1>4, <1>6 DEF At
  <2>2. \A p \in Op : At(p, "login", "answered") => op'[p].who = op[p].who
    BY <1>4, <1>6 DEF At
  <2> QED
    BY <1>1, <2>1, <2>2, SameCookie
<1>9. begun \in 0..MaxRequests /\ cookie \in MaybeAccount
  BY DEF BInv, BrowserTypeOK
<1> QED
  BY <1>1, <1>3, <1>4, <1>5, <1>7, <1>8, <1>9, Looks, GoesOn

\* A login is answered: the cookie is its account's, and no other request is inside.
LEMMA LoginAnsweredStep == ASSUME BInv, NEW o \in Op, LoginAnswered(o) PROVE BInv'
<1> DEFINE t == op[o].tab
           y == [op[o] EXCEPT !.pc = "answered"]
<1>1. /\ op[o].kind = "login" /\ op[o].pc = "asked" /\ cookie' = op[o].who
      /\ op' = [op EXCEPT ![o] = y]
      /\ UNCHANGED <<stored, written, owner, tab, mail, cookieLock, begun, stray>>
  BY DEF LoginAnswered, At, BInv, BrowserTypeOK
<1>2. op[o] \in OpRow /\ Fine(op[o]) /\ op[o] # Idle /\ cookieLock = o
  BY <1>1 DEF BInv, BrowserTypeOK, RequestsAreFine, OpRow, Idle, LockIsHeld
<1>3. t \in Tab /\ tab' = [tab EXCEPT ![t] = tab[t]] /\ tab[t] \in TabState /\ Honest(tab[t])
  BY <1>1, <1>2 DEF Fine, BInv, BrowserTypeOK, TabsAreHonest
<1>4. y \in OpRow /\ y.pc = "answered" /\ y.kind = "login" /\ y.tab = op[o].tab /\ y.rev = op[o].rev /\ y.who = op[o].who
  BY <1>1, <1>2 DEF OpRow
<1> HIDE DEF y
<1>5. Fine(y)
  BY <1>1, <1>2, <1>3, <1>4 DEF Fine
<1>6. op'[o] = y /\ \A p \in Op \ {o} : op'[p] = op[p]
  BY <1>1 DEF BInv, BrowserTypeOK
<1>7. LockIsHeld'
  BY <1>1, <1>2, <1>6 DEF BInv, LockIsHeld
<1>8. CookieIsKnown'
  <2>1. \A p \in Op : At(p, "login", "answered")' => p = o
    BY <1>2, <1>6 DEF At, BInv, LockIsHeld
  <2>2. At(o, "login", "answered")' /\ cookie' = op'[o].who
    BY <1>1, <1>4, <1>6 DEF At
  <2> QED
    BY <2>1, <2>2 DEF CookieIsKnown
<1>9. begun \in 0..MaxRequests /\ op[o].who \in MaybeAccount /\ cookieLock \in Op \cup {NoOp}
  BY <1>2 DEF BInv, BrowserTypeOK, OpRow
<1> QED
  BY <1>1, <1>3, <1>4, <1>5, <1>7, <1>8, <1>9, GoesOn

\* A refresh is answered for whoever the cookie is of: the account of the revision.
LEMMA RefreshAnsweredStep == ASSUME BInv, NEW o \in Op, RefreshAnswered(o) PROVE BInv'
<1> DEFINE t == op[o].tab
           y == [op[o] EXCEPT !.pc = "answered", !.who = cookie]
<1>1. /\ op[o].kind = "refresh" /\ op[o].pc = "asked" /\ cookie # NoOne
      /\ op' = [op EXCEPT ![o] = y]
      /\ UNCHANGED <<cookie, stored, written, owner, tab, mail, cookieLock, begun, stray>>
  BY DEF RefreshAnswered, At, BInv, BrowserTypeOK
<1>2. op[o] \in OpRow /\ Fine(op[o]) /\ op[o] # Idle /\ cookieLock = o /\ cookie \in MaybeAccount
  BY <1>1 DEF BInv, BrowserTypeOK, RequestsAreFine, OpRow, Idle, LockIsHeld
<1>3. t \in Tab /\ tab' = [tab EXCEPT ![t] = tab[t]] /\ tab[t] \in TabState /\ Honest(tab[t])
  BY <1>1, <1>2 DEF Fine, BInv, BrowserTypeOK, TabsAreHonest
<1>4. y \in OpRow /\ y.pc = "answered" /\ y.kind = "refresh" /\ y.tab = op[o].tab /\ y.rev = op[o].rev /\ y.who = cookie
  BY <1>1, <1>2 DEF OpRow
<1> HIDE DEF y
<1>5. \A p \in Op : ~At(p, "login", "answered")
  BY <1>1, <1>2 DEF At, BInv, LockIsHeld
<1>6. op[o].rev = written /\ ~stray => cookie = owner[written]
  BY <1>1, <1>2, <1>5 DEF Fine, BInv, CookieIsKnown
<1>7. Fine(y)
  BY <1>1, <1>2, <1>3, <1>4, <1>6 DEF Fine, MaybeAccount
<1>8. op'[o] = y /\ \A p \in Op \ {o} : op'[p] = op[p]
  BY <1>1 DEF BInv, BrowserTypeOK
<1>9. LockIsHeld'
  BY <1>1, <1>2, <1>8 DEF BInv, LockIsHeld
<1>10. CookieIsKnown'
  <2>1. \A p \in Op : ~At(p, "login", "answered")'
    BY <1>4, <1>5, <1>8 DEF At
  <2> QED
    BY <1>1, <1>5, <2>1, SameCookie
<1>11. begun \in 0..MaxRequests /\ cookieLock \in Op \cup {NoOp}
  BY DEF BInv, BrowserTypeOK
<1> QED
  BY <1>1, <1>2, <1>3, <1>4, <1>7, <1>9, <1>10, <1>11, GoesOn

\* A private request is refused: it is made again for the tab's account, or the session ends.
LEMMA LoadRefusedStep == ASSUME BInv, NEW o \in Op, LoadRefused(o) PROVE BInv'
<1> DEFINE t == op[o].tab
           s == Synced(t)
           y == [op[o] EXCEPT !.who = s.auth]
<1>1. /\ op[o].kind = "load" /\ op[o].pc = "asked"
      /\ UNCHANGED <<cookie, stored, written, owner, mail, stray>>
      /\ \/ /\ s.auth # NoOne /\ op' = [op EXCEPT ![o] = y]
            /\ tab' = [tab EXCEPT ![t] = s] /\ UNCHANGED <<cookieLock, begun>>
         \/ OpEnds(o) /\ tab' = [tab EXCEPT ![t] = SignedOut(s)]
         \/ OpEnds(o) /\ tab' = [tab EXCEPT ![t] = s]
  BY DEF LoadRefused, At, Of, BInv, BrowserTypeOK
<1>2. op[o] \in OpRow /\ Fine(op[o]) /\ op[o] # Idle
  BY <1>1 DEF BInv, BrowserTypeOK, RequestsAreFine, OpRow, Idle
<1>3. t \in Tab /\ s \in TabState /\ Honest(s) /\ SignedOut(s) \in TabState /\ Honest(SignedOut(s))
  BY <1>2, Looks, TabValues DEF Fine
<1>4. ~Astray(o) /\ stray \in BOOLEAN
  BY <1>1 DEF Astray, At, BInv, BrowserTypeOK
<1>5. CASE OpEnds(o) /\ \E x \in {s, SignedOut(s)} : tab' = [tab EXCEPT ![t] = x]
  <2> HIDE DEF s
  <2>1. \E x \in TabState : Honest(x) /\ tab' = [tab EXCEPT ![t] = x]
    BY <1>3, <1>5
  <2> QED
    BY <1>1, <1>2, <1>4, <1>5, <2>1, EndsQuietly
<1>6. CASE /\ s.auth # NoOne /\ op' = [op EXCEPT ![o] = y]
           /\ tab' = [tab EXCEPT ![t] = s] /\ UNCHANGED <<cookieLock, begun>>
  <2>1. s.auth \in MaybeAccount
    BY <1>3 DEF TabState
  <2>2. y \in OpRow /\ y.pc = "asked" /\ y.kind = "load" /\ y.tab = op[o].tab /\ y.rev = op[o].rev /\ y.who = s.auth
    <3> HIDE DEF s
    <3> QED
      BY <1>1, <1>2, <2>1 DEF OpRow
  <2> HIDE DEF y, s
  <2>3. Fine(y)
    BY <1>2, <1>3, <1>6, <2>2 DEF Fine
  <2>4. op'[o] = y /\ \A p \in Op \ {o} : op'[p] = op[p]
    BY <1>6 DEF BInv, BrowserTypeOK
  <2>5. LockIsHeld'
    BY <1>6, <2>2, <2>4 DEF BInv, LockIsHeld
  <2>6. CookieIsKnown'
    <3>1. \A p \in Op : At(p, "login", "answered")' <=> At(p, "login", "answered")
      BY <1>1, <2>2, <2>4 DEF At
    <3>2. \A p \in Op : At(p, "login", "answered") => op'[p].who = op[p].who
      BY <1>1, <2>4 DEF At
    <3> QED
      BY <1>1, <3>1, <3>2, SameCookie
  <2>7. begun \in 0..MaxRequests /\ cookieLock \in Op \cup {NoOp} /\ cookie \in MaybeAccount
    BY DEF BInv, BrowserTypeOK
  <2> QED
    BY <1>1, <1>3, <1>6, <2>2, <2>3, <2>5, <2>6, <2>7, GoesOn
<1> QED
  BY <1>1, <1>5, <1>6

\* A revision is written.  Whatever carries an older one says nothing of it.
LEMMA NewRevision ==
    ASSUME BInv, NEW t \in Tab, NEW a \in MaybeAccount,
           NEW x \in TabState, x.auth \in {NoOne, a}, x.shown \subseteq {x.auth} \ {NoOne},
           Written(t, a, x)
    PROVE  /\ written' = written + 1 /\ written' \in Revision /\ stored' \in Revision
           /\ owner' \in [Revision -> MaybeAccount] /\ owner'[written'] = a
           /\ \A r \in 0..written : LoggedOut(r)' = LoggedOut(r)
           /\ stray' = FALSE
           /\ tab' \in [Tab -> TabState] /\ mail' \in [Tab -> Seq([rev : Revision, persisted : BOOLEAN])]
           /\ Heard' /\ TabsAreHonest'
<1>1. PICK persisted \in BOOLEAN :
        /\ stored' = IF persisted THEN written + 1 ELSE stored
        /\ tab' = [tab EXCEPT ![t] = [x EXCEPT !.revision = written + 1, !.reads = persisted]]
        /\ mail' = [u \in Tab |-> IF u = t THEN mail[u]
                                  ELSE Append(mail[u], [rev |-> written + 1, persisted |-> persisted])]
  BY DEF Written
<1>2. /\ written' = written + 1 /\ owner' = [owner EXCEPT ![written + 1] = a] /\ stray' = FALSE
      /\ written + 1 \in Revision /\ written \in Revision /\ stored \in Revision
      /\ owner \in [Revision -> MaybeAccount]
  BY BrowserSessionAssumption DEF Written, BInv, BrowserTypeOK, Revision
<1>3. /\ owner' \in [Revision -> MaybeAccount] /\ owner'[written'] = a
      /\ \A r \in 0..written : owner'[r] = owner[r]
  BY <1>2 DEF Revision
<1> DEFINE z == [x EXCEPT !.revision = written + 1, !.reads = persisted]
           Msg == [rev : Revision, persisted : BOOLEAN]
           m == [rev |-> written + 1, persisted |-> persisted]
<1>4. z \in TabState /\ z.revision = written + 1 /\ z.auth = x.auth /\ z.shown = x.shown
  BY <1>2 DEF TabState
<1>5. tab' = [tab EXCEPT ![t] = z] /\ tab \in [Tab -> TabState]
  BY <1>1 DEF BInv, BrowserTypeOK
<1> HIDE DEF z
<1>6. tab' \in [Tab -> TabState] /\ tab'[t] = z /\ \A u \in Tab \ {t} : tab'[u] = tab[u]
  BY <1>4, <1>5
<1>7. TabsAreHonest'
  <2>1. \A u \in Tab : Honest(tab[u]) /\ tab[u].revision \in Revision
    BY <1>5 DEF BInv, TabsAreHonest, TabState
  <2>2. ASSUME NEW u \in Tab
        PROVE  /\ tab'[u].revision <= written' /\ tab'[u].shown \subseteq {tab'[u].auth} \ {NoOne}
               /\ tab'[u].revision = written' => tab'[u].auth \in {NoOne, owner'[written']}
    <3>1. CASE u = t
      BY <1>2, <1>3, <1>4, <1>6, <3>1 DEF Revision
    <3>2. CASE u # t
      BY <1>2, <1>6, <2>1, <3>2 DEF Honest, Revision
    <3> QED
      BY <3>1, <3>2
  <2> QED
    BY <2>2 DEF TabsAreHonest, Honest
<1>8. ASSUME NEW u \in Tab
      PROVE  /\ mail'[u] \in Seq(Msg)
             /\ \A i \in 1..Len(mail'[u]) : mail'[u][i].rev <= written + 1
  <2>1. mail[u] \in Seq(Msg) /\ \A i \in 1..Len(mail[u]) : mail[u][i] \in Msg /\ mail[u][i].rev <= written
    <3>1. mail[u] \in Seq(Msg) /\ \A i \in 1..Len(mail[u]) : mail[u][i].rev <= written
      BY DEF BInv, BrowserTypeOK, Heard
    <3> HIDE DEF Msg
    <3>2. \A i \in 1..Len(mail[u]) : mail[u][i] \in Msg
      BY <3>1, ElementOfSeq
    <3> QED
      BY <3>1, <3>2
  <2>2. m \in Msg /\ m.rev = written + 1
    BY <1>2
  <2>3. CASE u = t
    <3>1. mail'[u] = mail[u]
      BY <1>1, <2>3
    <3> HIDE DEF Msg
    <3>2. \A i \in 1..Len(mail[u]) : mail[u][i].rev <= written + 1
      BY <1>2, <2>1 DEF Msg, Revision
    <3> QED
      BY <2>1, <3>1, <3>2
  <2>4. CASE u # t
    <3>1. mail'[u] = Append(mail[u], m)
      BY <1>1, <2>4
    <3> HIDE DEF Msg, m
    <3>2. /\ Append(mail[u], m) \in Seq(Msg) /\ Len(Append(mail[u], m)) = Len(mail[u]) + 1
          /\ \A i \in 1..Len(mail[u]) : Append(mail[u], m)[i] = mail[u][i]
          /\ Append(mail[u], m)[Len(mail[u]) + 1] = m
      BY <2>1, <2>2, AppendProperties
    <3>3. ASSUME NEW i \in 1..(Len(mail[u]) + 1) PROVE mail'[u][i].rev <= written + 1
      <4>1. Len(mail[u]) \in Nat
        BY <2>1, LenProperties
      <4>2. CASE i = Len(mail[u]) + 1
        BY <1>2, <2>2, <3>1, <3>2, <4>2 DEF Revision
      <4>3. CASE i # Len(mail[u]) + 1
        <5>1. i \in 1..Len(mail[u])
          BY <4>1, <4>3
        <5> QED
          BY <1>2, <2>1, <3>1, <3>2, <5>1 DEF Msg, Revision
      <4> QED
        BY <4>2, <4>3
    <3> QED
      BY <3>1, <3>2, <3>3
  <2> QED
    BY <2>3, <2>4
<1>9. Heard'
  <2>1. stored' <= written'
    BY <1>1, <1>2 DEF BInv, Heard, Revision
  <2> QED
    BY <1>2, <1>8, <2>1 DEF Heard
<1>10. mail' \in [Tab -> Seq(Msg)]
  BY <1>1, <1>8
<1>11. \A r \in 0..written : LoggedOut(r)' = LoggedOut(r)
  BY <1>3 DEF LoggedOut
<1>12. stored' \in Revision
  BY <1>1, <1>2
<1> QED
  BY <1>2, <1>3, <1>6, <1>7, <1>9, <1>10, <1>11, <1>12

\* A request is as fine after the next revision as before it: its own is older then.
LEMMA OlderRequests ==
    ASSUME BInv, written' = written + 1, \A r \in 0..written : LoggedOut(r)' = LoggedOut(r)
    PROVE  \A y \in OpRow : Fine(y) => Fine(y)'
<1>1. written \in Nat /\ \A y \in OpRow : y.rev \in Nat
  BY BrowserSessionAssumption DEF BInv, BrowserTypeOK, OpRow, Revision
<1> SUFFICES ASSUME NEW y \in OpRow, Fine(y) PROVE Fine(y)'
  OBVIOUS
<1>2. y.rev \in 0..written /\ y.rev <= written' /\ y.rev # written'
  BY <1>1 DEF Fine
<1>3. LoggedOut(y.rev)' = LoggedOut(y.rev)
  BY <1>2
<1> QED
  BY <1>2, <1>3 DEF Fine

\* A login completes: its account is the new revision's, and the cookie is its own.
LEMMA LoginDoneStep == ASSUME BInv, NEW o \in Op, LoginDone(o), Holds(o) PROVE BInv'
<1> DEFINE t == op[o].tab
           a == op[o].who
           x == SignedIn(Synced(t), a)
<1>1. /\ op[o].kind = "login" /\ op[o].pc = "answered" /\ Written(t, a, x) /\ OpEnds(o) /\ cookie' = cookie
  BY DEF LoginDone, At, Of
<1>2. Fine(op[o]) /\ op[o] # Idle /\ cookieLock = o
  BY <1>1 DEF BInv, RequestsAreFine, LockIsHeld, Idle
<1>3. t \in Tab /\ a \in Account /\ a \in MaybeAccount
  BY <1>1, <1>2 DEF Fine, MaybeAccount
<1>4. x \in TabState /\ x.auth = a /\ x.shown \subseteq {x.auth} \ {NoOne}
  BY <1>3, Looks, SigningIn DEF Honest
<1> HIDE DEF x, t, a
<1>5. /\ written' = written + 1 /\ written' \in Revision /\ stored' \in Revision
      /\ owner' \in [Revision -> MaybeAccount] /\ owner'[written'] = a
      /\ \A r \in 0..written : LoggedOut(r)' = LoggedOut(r)
      /\ stray' = FALSE
      /\ tab' \in [Tab -> TabState] /\ mail' \in [Tab -> Seq([rev : Revision, persisted : BOOLEAN])]
      /\ Heard' /\ TabsAreHonest'
  BY <1>1, <1>3, <1>4, NewRevision
<1>6. /\ op' \in [Op -> OpRow] /\ cookieLock' \in Op \cup {NoOp} /\ LockIsHeld' /\ begun' = begun
      /\ op'[o] = Idle /\ \A p \in Op \ {o} : op'[p] = op[p]
  BY <1>1, Ends
<1>7. BrowserTypeOK'
  BY <1>1, <1>5, <1>6 DEF BInv, BrowserTypeOK, OpRow
<1>8. RequestsAreFine'
  <2>1. \A p \in Op : Fine(op'[p])
    <3>1. Fine(Idle)
      BY BrowserSessionAssumption DEF Fine, Idle, BInv, BrowserTypeOK, Revision
    <3> QED
      BY <1>6, <3>1 DEF BInv, RequestsAreFine
  <2>2. \A p \in Op : Fine(op[p])'
    <3>1. \A y \in OpRow : Fine(y) => Fine(y)'
      BY <1>5, OlderRequests
    <3> QED
      BY <1>6, <2>1, <3>1 DEF Fine, LoggedOut
  <2> QED
    BY <2>2 DEF RequestsAreFine
<1>9. CookieIsKnown'
  <2>1. \A p \in Op : ~At(p, "login", "answered")'
    BY <1>2, <1>6 DEF At, BInv, LockIsHeld, Idle
  <2>2. cookie \in {NoOne, a}
    BY <1>1 DEF BInv, CookieIsKnown, At, a
  <2> QED
    BY <1>1, <1>5, <2>1, <2>2 DEF CookieIsKnown
<1> QED
  BY <1>5, <1>6, <1>7, <1>8, <1>9 DEF BInv

\* A logout begins: its revision is nobody's.
LEMMA LogoutStep == ASSUME BInv, NEW o \in Op, NEW t \in Tab, Logout(o, t) PROVE BInv'
<1> DEFINE x == [tab[t] EXCEPT !.auth = NoOne, !.shown = {}]
           y == [kind |-> "logout", tab |-> t, pc |-> "waiting", rev |-> written + 1, who |-> NoOne]
<1>1. /\ Written(t, NoOne, x) /\ op[o] = Idle /\ op' = [op EXCEPT ![o] = y] /\ begun' \in 0..MaxRequests
      /\ UNCHANGED <<cookie, cookieLock>>
  BY BrowserSessionAssumption DEF Logout, Starts, BInv, BrowserTypeOK
<1>2. x \in TabState /\ x.auth = NoOne /\ x.shown = {} /\ NoOne \in MaybeAccount
  BY DEF BInv, BrowserTypeOK, TabState, MaybeAccount
<1> HIDE DEF x
<1>3. /\ written' = written + 1 /\ written' \in Revision /\ stored' \in Revision
      /\ owner' \in [Revision -> MaybeAccount] /\ owner'[written'] = NoOne
      /\ \A r \in 0..written : LoggedOut(r)' = LoggedOut(r)
      /\ stray' = FALSE
      /\ tab' \in [Tab -> TabState] /\ mail' \in [Tab -> Seq([rev : Revision, persisted : BOOLEAN])]
      /\ Heard' /\ TabsAreHonest'
  BY <1>1, <1>2, NewRevision
<1>4. y \in OpRow /\ op'[o] = y /\ op \in [Op -> OpRow] /\ \A p \in Op \ {o} : op'[p] = op[p]
  BY <1>1, <1>2, <1>3 DEF BInv, BrowserTypeOK, OpRow
<1>5. BrowserTypeOK'
  BY <1>1, <1>3, <1>4 DEF BInv, BrowserTypeOK, OpRow
<1>6. RequestsAreFine'
  <2>1. \A z \in OpRow : Fine(z) => Fine(z)'
    BY <1>3, OlderRequests
  <2>2. ASSUME NEW p \in Op, p # o PROVE Fine(op[p])'
    <3>1. op'[p] = op[p] /\ op[p] \in OpRow /\ Fine(op[p])
      BY <1>4, <2>2 DEF BInv, RequestsAreFine
    <3> QED
      BY <2>1, <3>1 DEF Fine, LoggedOut
  <2>3. Fine(op[o])'
    BY <1>3, <1>4, BrowserSessionAssumption DEF Fine, Revision
  <2> QED
    BY <2>2, <2>3 DEF RequestsAreFine
<1>7. LockIsHeld'
  BY <1>1, <1>4 DEF BInv, LockIsHeld
<1>8. CookieIsKnown'
  <2>1. \A p \in Op : At(p, "login", "answered")' => At(p, "login", "answered") /\ op'[p].who = op[p].who
    BY <1>4 DEF At
  <2>2. LoggedOut(written)'
    BY <1>3, BrowserSessionAssumption DEF LoggedOut, BInv, BrowserTypeOK, Revision
  <2> QED
    BY <1>1, <2>1, <2>2 DEF BInv, CookieIsKnown
<1> QED
  BY <1>3, <1>5, <1>6, <1>7, <1>8 DEF BInv

\* A tab that hears of a revision changes nothing else.
LEMMA TabHears ==
    ASSUME BInv, NEW t \in Tab, NEW x \in TabState, Honest(x), tab' = [tab EXCEPT ![t] = x],
           mail' \in [Tab -> Seq([rev : Revision, persisted : BOOLEAN])], Heard',
           UNCHANGED <<cookie, stored, written, owner, cookieLock, op, begun, stray>>
    PROVE  BInv'
<1>1. BrowserTypeOK'
  BY DEF BInv, BrowserTypeOK
<1>2. TabsAreHonest'
  <2>1. \A u \in Tab : Honest(tab'[u])
    BY DEF BInv, BrowserTypeOK, TabsAreHonest
  <2> QED
    BY <2>1, SameRevision DEF TabsAreHonest, Honest
<1>3. RequestsAreFine' /\ LockIsHeld' /\ CookieIsKnown'
  BY DEF BInv, RequestsAreFine, Fine, LockIsHeld, CookieIsKnown, LoggedOut, At
<1> QED
  BY <1>1, <1>2, <1>3 DEF BInv

\* Storage events and channel messages.
LEMMA HearSteps == ASSUME BInv, NEW t \in Tab, Receive(t) \/ Notice(t) PROVE BInv'
<1>1. CASE Notice(t)
  <2>1. /\ tab' = [tab EXCEPT ![t] = Synced(t)]
        /\ UNCHANGED <<cookie, stored, written, owner, mail, cookieLock, op, begun, stray>>
    BY <1>1 DEF Notice
  <2>2. Heard' /\ mail' \in [Tab -> Seq([rev : Revision, persisted : BOOLEAN])]
    BY <2>1 DEF BInv, Heard, BrowserTypeOK
  <2> QED
    BY <2>1, <2>2, Looks, TabHears
<1>2. CASE Receive(t)
  <2> DEFINE Msg == [rev : Revision, persisted : BOOLEAN]
             x == [tab[t] EXCEPT !.reads = Head(mail[t]).persisted]
  <2>1. /\ mail[t] # <<>> /\ mail' = [mail EXCEPT ![t] = Tail(mail[t])]
        /\ tab' = [tab EXCEPT ![t] = Observe(x, Read(x, Head(mail[t]).rev))]
        /\ UNCHANGED <<cookie, stored, written, owner, cookieLock, op, begun, stray>>
    BY <1>2 DEF Receive
  <2>2. mail \in [Tab -> Seq(Msg)] /\ \A i \in 1..Len(mail[t]) : mail[t][i].rev <= written
    BY DEF BInv, BrowserTypeOK, Heard
  <2> HIDE DEF Msg
  <2>3. mail[t] \in Seq(Msg) /\ Len(mail[t]) \in Nat /\ Len(mail[t]) # 0
    BY <2>1, <2>2, LenProperties, EmptySeq
  <2>4. /\ Head(mail[t]) \in Msg /\ Tail(mail[t]) \in Seq(Msg) /\ Len(Tail(mail[t])) = Len(mail[t]) - 1
        /\ \A i \in 1..Len(Tail(mail[t])) : Tail(mail[t])[i] = mail[t][i + 1]
    BY <2>1, <2>3, HeadTailProperties
  <2>5. Head(mail[t]).rev <= written
    BY <2>2, <2>3
  <2>6. mail' \in [Tab -> Seq(Msg)]
    BY <2>1, <2>2, <2>4
  <2>7. Heard'
    <3>1. ASSUME NEW u \in Tab, NEW i \in 1..Len(mail'[u]) PROVE mail'[u][i].rev <= written
      <4>1. CASE u = t
        <5>1. mail'[u] = Tail(mail[t])
          BY <2>1, <2>2, <4>1
        <5>2. i + 1 \in 1..Len(mail[t]) /\ mail'[u][i] = mail[t][i + 1]
          BY <2>3, <2>4, <5>1
        <5> QED
          BY <2>2, <5>2
      <4>2. CASE u # t
        <5>1. mail'[u] = mail[u]
          BY <2>1, <2>2, <4>2
        <5> QED
          BY <5>1 DEF BInv, Heard
      <4> QED
        BY <4>1, <4>2
    <3> QED
      BY <2>1, <3>1 DEF BInv, Heard
  <2>8. x \in TabState /\ Honest(x)
    <3>1. tab[t] \in TabState /\ Honest(tab[t]) /\ Head(mail[t]).persisted \in BOOLEAN
      BY <2>4 DEF BInv, BrowserTypeOK, TabsAreHonest, Msg
    <3> QED
      BY <3>1 DEF TabState, Honest
  <2> HIDE DEF x
  <2>9. Read(x, Head(mail[t]).rev) \in Revision /\ Read(x, Head(mail[t]).rev) <= written
    BY <2>4, <2>5 DEF Read, Msg, BInv, BrowserTypeOK, Heard
  <2>10. Observe(x, Read(x, Head(mail[t]).rev)) \in TabState /\ Honest(Observe(x, Read(x, Head(mail[t]).rev)))
    BY <2>8, <2>9, Observes
  <2> QED
    BY <2>1, <2>6, <2>7, <2>10, TabHears DEF Msg
<1> QED
  BY <1>1, <1>2

\* The server ends the session.
LEMMA SessionEndsStep == ASSUME BInv, SessionEnds PROVE BInv'
<1>1. cookie' = NoOne /\ UNCHANGED <<stored, written, owner, tab, mail, cookieLock, op, begun, stray>>
  BY DEF SessionEnds
<1>2. BrowserTypeOK'
  BY <1>1 DEF BInv, BrowserTypeOK, MaybeAccount
<1>3. Heard' /\ TabsAreHonest' /\ RequestsAreFine' /\ LockIsHeld'
  BY <1>1 DEF BInv, Heard, TabsAreHonest, Honest, RequestsAreFine, Fine, LockIsHeld, LoggedOut
<1>4. CookieIsKnown'
  BY <1>1 DEF CookieIsKnown
<1> QED
  BY <1>2, <1>3, <1>4 DEF BInv

\* A page is loaded anew: its requests end with it, wherever they were.
LEMMA ReloadStep == ASSUME BInv, NEW t \in Tab, Reload(t) PROVE BInv'
<1>1. /\ tab' = [tab EXCEPT ![t] = Fresh(stored)] /\ mail' = [mail EXCEPT ![t] = <<>>]
      /\ op' = [o \in Op |-> IF op[o].tab = t THEN Idle ELSE op[o]]
      /\ cookieLock' = IF cookieLock # NoOp /\ op[cookieLock].tab = t THEN NoOp ELSE cookieLock
      /\ stray' = (stray \/ \E o \in Op : op[o].tab = t /\ Astray(o))
      /\ UNCHANGED <<cookie, stored, written, owner, begun>>
  BY DEF Reload, Of
<1>2. Fresh(stored) \in TabState /\ Honest(Fresh(stored))
  BY DEF Fresh, TabState, MaybeAccount, Honest, BInv, BrowserTypeOK, Heard
<1>3. Idle \in OpRow /\ Fine(Idle) /\ Idle.pc = "idle"
  BY BrowserSessionAssumption DEF Idle, OpRow, Revision, MaybeAccount, Fine, BInv, BrowserTypeOK
<1>4. \A o \in Op : op'[o] = IF op[o].tab = t THEN Idle ELSE op[o]
  BY <1>1
<1>5. BrowserTypeOK'
  <2>1. <<>> \in Seq([rev : Revision, persisted : BOOLEAN])
    BY EmptySeq
  <2>2. mail' \in [Tab -> Seq([rev : Revision, persisted : BOOLEAN])]
    BY <1>1, <2>1 DEF BInv, BrowserTypeOK
  <2>3. op' \in [Op -> OpRow]
    BY <1>1, <1>3 DEF BInv, BrowserTypeOK, OpRow
  <2>4. stray' \in BOOLEAN /\ tab' \in [Tab -> TabState] /\ cookieLock' \in Op \cup {NoOp}
    BY <1>1, <1>2 DEF BInv, BrowserTypeOK
  <2> QED
    BY <1>1, <2>2, <2>3, <2>4 DEF BInv, BrowserTypeOK, OpRow
<1>6. Heard'
  <2>1. \A u \in Tab : mail'[u] = mail[u] \/ Len(mail'[u]) = 0
    BY <1>1, EmptySeq DEF BInv, BrowserTypeOK
  <2> QED
    BY <1>1, <2>1 DEF BInv, Heard
<1>7. TabsAreHonest'
  <2>1. \A u \in Tab : Honest(tab'[u])
    BY <1>1, <1>2 DEF BInv, BrowserTypeOK, TabsAreHonest
  <2> QED
    BY <1>1, <2>1, SameRevision DEF TabsAreHonest, Honest
<1>8. RequestsAreFine'
  <2>1. \A o \in Op : Fine(op'[o])
    BY <1>3, <1>4 DEF BInv, RequestsAreFine
  <2> QED
    BY <1>1, <2>1, SameRevision DEF RequestsAreFine, Fine, LoggedOut
<1>9. LockIsHeld'
  BY <1>1, <1>3, <1>4, BrowserSessionAssumption DEF BInv, LockIsHeld
<1>10. CookieIsKnown'
  <2>1. \A o \in Op : At(o, "login", "answered")' => At(o, "login", "answered") /\ op'[o].who = op[o].who
    BY <1>3, <1>4 DEF At
  <2>2. ASSUME ~stray', ~LoggedOut(written)', \A o \in Op : ~At(o, "login", "answered")'
        PROVE  cookie' \in {NoOne, owner'[written']}
    <3>1. ~stray /\ ~LoggedOut(written) /\ \A o \in Op : op[o].tab = t => ~Astray(o)
      BY <1>1, <2>2 DEF LoggedOut
    <3>2. \A o \in Op : ~At(o, "login", "answered")
      BY <1>4, <2>2, <3>1 DEF At, Astray
    <3> QED
      BY <1>1, <3>1, <3>2 DEF BInv, CookieIsKnown
  <2> QED
    BY <1>1, <2>1, <2>2 DEF BInv, CookieIsKnown
<1> QED
  BY <1>5, <1>6, <1>7, <1>8, <1>9, <1>10 DEF BInv

\* A browser that is opened.
LEMMA Opened == BrowserInit => BInv
<1> SUFFICES ASSUME BrowserInit PROVE BInv
  OBVIOUS
<1> USE BrowserSessionAssumption DEF BrowserInit
<1>1. 0 \in Revision /\ Idle \in OpRow /\ Idle.pc = "idle" /\ Idle.kind = "none" /\ Idle.rev = 0
  BY DEF Idle, OpRow, Revision, MaybeAccount
<1>2. Fresh(0) \in TabState /\ Fresh(0).revision = 0 /\ Fresh(0).auth = NoOne /\ Fresh(0).shown = {}
  BY <1>1 DEF Fresh, TabState, MaybeAccount
<1>3. <<>> \in Seq([rev : Revision, persisted : BOOLEAN]) /\ Len(<<>>) = 0
  BY EmptySeq
<1>4. BrowserTypeOK
  <2>1. mail \in [Tab -> Seq([rev : Revision, persisted : BOOLEAN])]
    BY <1>3
  <2>2. op \in [Op -> OpRow] /\ tab \in [Tab -> TabState]
    BY <1>1, <1>2
  <2> QED
    BY <1>1, <2>1, <2>2 DEF BrowserTypeOK, OpRow, MaybeAccount
<1>5. Heard
  BY <1>3 DEF Heard
<1>6. TabsAreHonest /\ RequestsAreFine /\ LockIsHeld
  BY <1>1, <1>2 DEF TabsAreHonest, Honest, RequestsAreFine, Fine, LockIsHeld
<1>7. CookieIsKnown
  BY <1>1 DEF CookieIsKnown, At
<1> QED
  BY <1>4, <1>5, <1>6, <1>7 DEF BInv

-----------------------------------------------------------------------------
(* The theorems. *)

\* Every reachable state of a browser satisfies the invariant: credentials, answers and
\* the cookie are of the account of their revision.
THEOREM BrowserInvariance == BrowserSpec => []BInv
<1>1. BInv /\ [BrowserNext]_browserVars => BInv'
  <2> SUFFICES ASSUME BInv, [BrowserNext]_browserVars PROVE BInv'
    OBVIOUS
  <2>1. CASE SessionEnds
    BY <2>1, SessionEndsStep
  <2>2. ASSUME NEW t \in Tab, Receive(t) \/ Notice(t) PROVE BInv'
    BY <2>2, HearSteps
  <2>3. ASSUME NEW t \in Tab, Reload(t) PROVE BInv'
    BY <2>3, ReloadStep
  <2>4. ASSUME NEW o \in Op, NEW t \in Tab, Logout(o, t) PROVE BInv'
    BY <2>4, LogoutStep
  <2>5. ASSUME NEW o \in Op, NEW t \in Tab, NEW a \in Account, Login(o, t, a) PROVE BInv'
    BY <2>5, StartSteps
  <2>6. ASSUME NEW o \in Op, NEW t \in Tab, Refresh(o, t) \/ LoadStart(o, t) PROVE BInv'
    BY <2>6, StartSteps
  <2>7. ASSUME NEW o \in Op, EnterLock(o) PROVE BInv'
    BY <2>7, EnterStep, EndSteps
  <2>8. ASSUME NEW o \in Op, LoginDone(o) PROVE BInv'
    BY <2>8, LoginDoneStep, EndSteps
  <2>9. ASSUME NEW o \in Op, Fails(o) \/ RefreshDone(o) \/ RefreshRefused(o) \/ LogoutDone(o) \/ LoadDone(o)
        PROVE  BInv'
    BY <2>9, EndSteps
  <2>10. ASSUME NEW o \in Op, LoginAnswered(o) \/ RefreshAnswered(o) \/ LoadRefused(o) PROVE BInv'
    BY <2>10, LoginAnsweredStep, RefreshAnsweredStep, LoadRefusedStep
  <2>11. CASE UNCHANGED browserVars
    BY <2>11 DEF browserVars, BInv, BrowserTypeOK, Heard, TabsAreHonest, Honest, RequestsAreFine, Fine,
                 LockIsHeld, CookieIsKnown, LoggedOut, At
  <2> QED
    BY <2>1, <2>2, <2>3, <2>4, <2>5, <2>6, <2>7, <2>8, <2>9, <2>10, <2>11, Zenon DEF BrowserNext
<1> QED
  BY Opened, <1>1, PTL DEF BrowserSpec

\* A tab that has heard of the last login or logout holds nothing of another account.
THEOREM TabsFollowTheLogin == BrowserSpec => []OneAccountPerBrowser
<1>1. BInv => OneAccountPerBrowser
  BY DEF BInv, TabsAreHonest, Honest, OneAccountPerBrowser
<1> QED
  BY BrowserInvariance, <1>1, PTL

-----------------------------------------------------------------------------
(***************************************************************************)
(* Proof, for any number of claims, that the tabs within their leases      *)
(* exclude each other.  The invariant is that of the bakery: whoever a     *)
(* claim has looked past comes after it.                                   *)
(***************************************************************************)

-----------------------------------------------------------------------------
(* The inductive invariant. *)

HasTicket(c) == pc[c] \in {"waiting", "looking", "inside"}

\* The item of a claim within its lease is the one it has written itself.
LeaseHeld ==
    \A c \in Claim \ late :
        /\ pc[c] = "new" => lease[c] = No
        /\ pc[c] \in {"announced", "choosing"} => lease[c] = Lease(0, TRUE)
        /\ HasTicket(c) => lease[c] = Lease(highest[c] + 1, FALSE)

\* What a reader may remove belongs to a claim that is late, or is not there.
ExpiredIsLate == \A c \in Claim : lease[c].expired /\ lease[c] # No => c \in late

InsideHasLooked == \A c \in Claim : pc[c] = "inside" => todo[c] = {}

\* d gets its turn after c: it has no ticket yet and is going to see c's, or its
\* ticket is the later one.
After(d, c) ==
    \/ pc[d] \in {"new", "announced", "done"}
    \/ pc[d] = "choosing" /\ (c \in todo[d] \/ highest[c] < highest[d])
    \/ HasTicket(d) /\ (highest[c] < highest[d] \/ (highest[c] = highest[d] /\ c < d))

LookedPast(c, d) == pc[c] \in {"looking", "inside"} /\ d \notin todo[c]

InTurn == \A c, d \in Claim \ late : c # d /\ LookedPast(c, d) => After(d, c)

IInv == LockTypeOK /\ LeaseHeld /\ ExpiredIsLate /\ InsideHasLooked /\ InTurn

-----------------------------------------------------------------------------
(* Types. *)

LEMMA ItemsTyped ==
    /\ No \in LeaseItem
    /\ \A n \in Nat, b \in BOOLEAN : Lease(n, b) \in LeaseItem
BY DEF No, Lease, LeaseItem

\* An item its owner has just written is there and has not expired.
LEMMA WrittenItem ==
    /\ Lease(0, TRUE) # No /\ ~Lease(0, TRUE).expired /\ Lease(0, TRUE).choosing
    /\ \A n \in Nat : Lease(n, FALSE) # No /\ ~Lease(n, FALSE).expired /\ Lease(n, FALSE).ticket = n
BY DEF No, Lease

LEMMA TypeStep == ASSUME LockTypeOK, [LockNext]_lockVars PROVE LockTypeOK'
<1> USE ItemsTyped DEF LockTypeOK
<1>1. ASSUME NEW c \in Claim, Announce(c) PROVE LockTypeOK'
  BY <1>1 DEF Announce
<1>2. ASSUME NEW c \in Claim, List(c) PROVE LockTypeOK'
  BY <1>2 DEF List, Keys
<1>3. ASSUME NEW c \in Claim, TakeTicket(c) PROVE LockTypeOK'
  <2>1. highest[c] + 1 \in Nat
    OBVIOUS
  <2> QED
    BY <1>3, <2>1 DEF TakeTicket
<1>4. ASSUME NEW c \in Claim, Look(c) PROVE LockTypeOK'
  BY <1>4 DEF Look, Keys
<1>5. ASSUME NEW c \in Claim, Enters(c) PROVE LockTypeOK'
  BY <1>5 DEF Enters
<1>6. ASSUME NEW c \in Claim, Leaves(c) \/ Closed(c) PROVE LockTypeOK'
  BY <1>6 DEF Leaves, Closed
<1>7. ASSUME NEW c \in Claim, Expire(c) PROVE LockTypeOK'
  <2>1. \A r \in LeaseItem : [r EXCEPT !.expired = TRUE] \in LeaseItem
    BY DEF LeaseItem
  <2>2. lease' \in [Claim -> LeaseItem]
    BY <1>7, <2>1 DEF Expire
  <2> QED
    BY <1>7, <2>2 DEF Expire
<1>8. ASSUME NEW c \in Claim, NEW k \in Claim, ReadTicket(c, k) PROVE LockTypeOK'
  <2>1. lease[k].ticket \in Nat
    BY DEF LeaseItem
  <2> QED
    BY <1>8, <2>1 DEF ReadTicket, Swept
<1>9. ASSUME NEW c \in Claim, NEW k \in Claim, LookAt(c, k) PROVE LockTypeOK'
  BY <1>9 DEF LookAt, Swept
<1>10. CASE UNCHANGED lockVars
  BY <1>10 DEF lockVars
<1> QED
  BY <1>1, <1>2, <1>3, <1>4, <1>5, <1>6, <1>7, <1>8, <1>9, <1>10 DEF LockNext

\* The claims and what they read and write have the shapes they declare.
THEOREM LockTypeCorrect == LockSpec => []LockTypeOK
<1>1. LockInit => LockTypeOK
  BY ItemsTyped DEF LockInit, LockTypeOK
<1> QED
  BY <1>1, TypeStep, PTL DEF LockSpec

-----------------------------------------------------------------------------
(* Preservation, action by action. *)

\* Only items of late claims are ever removed by somebody else.
LEMMA SweptKeeps ==
    ASSUME IInv, NEW k \in Claim, Swept(k)
    PROVE  /\ \A c \in Claim \ late : lease'[c] = lease[c]
           /\ \A c \in Claim : lease'[c] = lease[c] \/ lease'[c] = No
BY DEF IInv, LockTypeOK, ExpiredIsLate, Swept

\* The item of a claim that waits or is inside shows the ticket it took.
LEMMA TicketShown ==
    ASSUME IInv, NEW c \in Claim \ late, HasTicket(c)
    PROVE  lease[c] # No /\ ~lease[c].expired /\ lease[c].ticket = highest[c] + 1
<1>1. highest[c] + 1 \in Nat
  BY DEF IInv, LockTypeOK
<1>2. lease[c] = Lease(highest[c] + 1, FALSE)
  BY DEF IInv, LeaseHeld
<1> QED
  BY <1>1, <1>2, WrittenItem

\* The item of a claim that is choosing says so.
LEMMA ChoosingShown ==
    ASSUME IInv, NEW c \in Claim \ late, pc[c] \in {"announced", "choosing"}
    PROVE  lease[c] # No /\ ~lease[c].expired /\ lease[c].choosing
<1>1. lease[c] = Lease(0, TRUE)
  BY DEF IInv, LeaseHeld
<1> QED
  BY <1>1, WrittenItem

LEMMA LeaseStep ==
    ASSUME IInv, LockTypeOK', [LockNext]_lockVars
    PROVE  LeaseHeld' /\ ExpiredIsLate' /\ InsideHasLooked'
<1> USE DEF LockTypeOK, LeaseHeld, ExpiredIsLate, InsideHasLooked, HasTicket
<1>0. LockTypeOK /\ LeaseHeld /\ ExpiredIsLate /\ InsideHasLooked
  BY DEF IInv
<1>1. ASSUME NEW c \in Claim, Announce(c) PROVE LeaseHeld' /\ ExpiredIsLate' /\ InsideHasLooked'
  BY <1>0, <1>1, WrittenItem DEF Announce
<1>2. ASSUME NEW c \in Claim, List(c) PROVE LeaseHeld' /\ ExpiredIsLate' /\ InsideHasLooked'
  <2>1. lease' = lease /\ late' = late /\ highest' = highest
    BY <1>2 DEF List
  <2>2. \A d \in Claim : IF d = c THEN pc[d] = "announced" /\ pc'[d] = "choosing" ELSE pc'[d] = pc[d]
    BY <1>0, <1>2 DEF List
  <2>3. LeaseHeld'
    BY <1>0, <2>1, <2>2
  <2>4. InsideHasLooked'
    BY <1>0, <1>2 DEF List
  <2> QED
    BY <1>0, <2>1, <2>3, <2>4
<1>3. ASSUME NEW c \in Claim, TakeTicket(c) PROVE LeaseHeld' /\ ExpiredIsLate' /\ InsideHasLooked'
  <2>1. highest[c] + 1 \in Nat
    BY <1>0
  <2> QED
    BY <1>0, <1>3, <2>1, WrittenItem DEF TakeTicket
<1>4. ASSUME NEW c \in Claim, Look(c) PROVE LeaseHeld' /\ ExpiredIsLate' /\ InsideHasLooked'
  BY <1>0, <1>4 DEF Look
<1>5. ASSUME NEW c \in Claim, Enters(c) PROVE LeaseHeld' /\ ExpiredIsLate' /\ InsideHasLooked'
  BY <1>0, <1>5 DEF Enters
<1>6. ASSUME NEW c \in Claim, Leaves(c) \/ Closed(c)
      PROVE LeaseHeld' /\ ExpiredIsLate' /\ InsideHasLooked'
  BY <1>0, <1>6 DEF Leaves, Closed
<1>7. ASSUME NEW c \in Claim, Expire(c) PROVE LeaseHeld' /\ ExpiredIsLate' /\ InsideHasLooked'
  BY <1>0, <1>7 DEF Expire
<1>8. ASSUME NEW c \in Claim, NEW k \in Claim, ReadTicket(c, k)
      PROVE LeaseHeld' /\ ExpiredIsLate' /\ InsideHasLooked'
  <2>1. late' = late /\ pc' = pc /\ pc[c] = "choosing"
    BY <1>8 DEF ReadTicket
  <2>2. \A d \in Claim \ late : lease'[d] = lease[d] /\ (HasTicket(d) => highest'[d] = highest[d])
    BY <1>0, <1>8, SweptKeeps DEF ReadTicket
  <2>3. \A d \in Claim : lease'[d] = lease[d] \/ lease'[d] = No
    BY <1>8, SweptKeeps DEF ReadTicket
  <2>4. LeaseHeld'
    BY <1>0, <2>1, <2>2
  <2>5. ExpiredIsLate'
    BY <1>0, <2>1, <2>3
  <2>6. InsideHasLooked'
    BY <1>0, <1>8, <2>1 DEF ReadTicket
  <2> QED
    BY <2>4, <2>5, <2>6
<1>9. ASSUME NEW c \in Claim, NEW k \in Claim, LookAt(c, k)
      PROVE LeaseHeld' /\ ExpiredIsLate' /\ InsideHasLooked'
  <2>1. late' = late /\ highest' = highest
    BY <1>9 DEF LookAt
  <2>2. \A d \in Claim : pc'[d] = pc[d] \/ (pc[d] = "looking" /\ pc'[d] = "waiting")
    BY <1>0, <1>9 DEF LookAt
  <2>3. /\ \A d \in Claim \ late : lease'[d] = lease[d]
        /\ \A d \in Claim : lease'[d] = lease[d] \/ lease'[d] = No
    BY <1>9, SweptKeeps DEF LookAt
  <2>4. LeaseHeld'
    BY <1>0, <2>1, <2>2, <2>3
  <2>5. ExpiredIsLate'
    BY <1>0, <2>1, <2>3
  <2>6. InsideHasLooked'
    BY <1>0, <1>9 DEF LookAt
  <2> QED
    BY <2>4, <2>5, <2>6
<1>10. CASE UNCHANGED lockVars
  BY <1>0, <1>10 DEF lockVars
<1> QED
  BY <1>1, <1>2, <1>3, <1>4, <1>5, <1>6, <1>7, <1>8, <1>9, <1>10 DEF LockNext

\* A claim that has looked past another stays ahead of it.
LEMMA TurnStep ==
    ASSUME IInv, LockTypeOK', [LockNext]_lockVars
    PROVE  InTurn'
<1> SUFFICES ASSUME NEW a \in Claim \ late', NEW b \in Claim \ late', a # b, LookedPast(a, b)'
             PROVE  After(b, a)'
  BY DEF InTurn
<1>0. /\ LockTypeOK /\ LeaseHeld /\ ExpiredIsLate /\ InTurn
      /\ a \in Claim \ late /\ b \in Claim \ late
  BY DEF IInv, LockNext, lockVars, Announce, List, TakeTicket, Look, Enters, Leaves, Closed,
         Expire, ReadTicket, LookAt
<1>h. highest[a] \in Nat /\ highest[b] \in Nat /\ a \in Nat /\ b \in Nat
  BY <1>0, CookieLockAssumption DEF LockTypeOK
<1>old. LookedPast(a, b) => After(b, a)
  BY <1>0 DEF InTurn
<1> USE DEF LockTypeOK, LookedPast, After, HasTicket
<1>1. ASSUME NEW c \in Claim, Announce(c) PROVE After(b, a)'
  BY <1>0, <1>old, <1>1 DEF Announce
<1>2. ASSUME NEW c \in Claim, List(c) PROVE After(b, a)'
  <2>1. LookedPast(a, b) /\ a # c
    BY <1>0, <1>2 DEF List
  <2>2. a \in Keys
    BY <1>0, <2>1, TicketShown DEF Keys
  <2> QED
    BY <1>0, <1>old, <1>2, <2>1, <2>2 DEF List
<1>3. ASSUME NEW c \in Claim, TakeTicket(c) PROVE After(b, a)'
  BY <1>0, <1>old, <1>3 DEF TakeTicket
<1>4. ASSUME NEW c \in Claim, Look(c) PROVE After(b, a)'
  <2>1. CASE a = c
    <3>1. b \notin Keys
      BY <1>0, <1>4, <2>1 DEF Look
    <3>2. pc[b] \in {"new", "done"}
      BY <1>0, <3>1, TicketShown, ChoosingShown DEF Keys
    <3> QED
      BY <1>0, <1>4, <2>1, <3>2 DEF Look
  <2>2. CASE a # c
    BY <1>0, <1>old, <1>4, <2>2 DEF Look
  <2> QED
    BY <2>1, <2>2
<1>5. ASSUME NEW c \in Claim, Enters(c) PROVE After(b, a)'
  BY <1>0, <1>old, <1>5 DEF Enters
<1>6. ASSUME NEW c \in Claim, Leaves(c) \/ Closed(c) PROVE After(b, a)'
  BY <1>0, <1>old, <1>6 DEF Leaves, Closed
<1>7. ASSUME NEW c \in Claim, Expire(c) PROVE After(b, a)'
  BY <1>0, <1>old, <1>7 DEF Expire
<1>8. ASSUME NEW c \in Claim, NEW k \in Claim, ReadTicket(c, k) PROVE After(b, a)'
  <2>1. a # c /\ LookedPast(a, b)
    BY <1>0, <1>8 DEF ReadTicket
  <2>2. lease[a].ticket = highest[a] + 1 /\ ~lease[a].expired
    BY <1>0, <2>1, TicketShown
  <2>3. lease[k].ticket \in Nat
    BY <1>0 DEF LeaseItem
  <2>4. CASE b = c
    BY <1>0, <1>h, <1>old, <1>8, <2>1, <2>2, <2>3, <2>4 DEF ReadTicket
  <2>5. CASE b # c
    BY <1>0, <1>old, <1>8, <2>1, <2>5 DEF ReadTicket
  <2> QED
    BY <2>4, <2>5
<1>9. ASSUME NEW c \in Claim, NEW k \in Claim, LookAt(c, k) PROVE After(b, a)'
  <2>1. CASE a = c /\ b = k
    <3>1. pc[a] = "looking" /\ ~Blocks(b, a)
      BY <1>0, <1>9, <2>1 DEF LookAt
    <3>2. pc[b] \in {"new", "done"} \/ HasTicket(b)
      BY <1>0, <3>1, ChoosingShown DEF Blocks
    <3>3. CASE HasTicket(b)
      <4>1. lease[b].ticket = highest[b] + 1 /\ ~lease[b].expired
        BY <1>0, <3>3, TicketShown
      <4>2. highest[a] < highest[b] \/ (highest[a] = highest[b] /\ a < b)
        BY <1>h, <3>1, <4>1 DEF Blocks, Ahead
      <4> QED
        BY <1>0, <1>9, <2>1, <3>3, <4>2 DEF LookAt
    <3> QED
      BY <1>0, <1>9, <2>1, <3>2, <3>3 DEF LookAt
  <2>2. CASE ~(a = c /\ b = k)
    BY <1>0, <1>old, <1>9, <2>2 DEF LookAt
  <2> QED
    BY <2>1, <2>2
<1>10. CASE UNCHANGED lockVars
  BY <1>0, <1>old, <1>10 DEF lockVars
<1> QED
  BY <1>1, <1>2, <1>3, <1>4, <1>5, <1>6, <1>7, <1>8, <1>9, <1>10 DEF LockNext

-----------------------------------------------------------------------------
(* The theorem. *)

LEMMA InitHolds == LockInit => IInv
BY ItemsTyped DEF LockInit, IInv, LockTypeOK, LeaseHeld, ExpiredIsLate, InsideHasLooked, InTurn,
                  LookedPast, HasTicket

LEMMA InvariantExcludes == IInv => TabsExclude
<1> SUFFICES ASSUME IInv, NEW c \in Claim \ late, NEW d \in Claim \ late,
                    pc[c] = "inside", pc[d] = "inside", c # d
             PROVE  FALSE
  BY DEF TabsExclude
<1>1. After(c, d) /\ After(d, c)
  BY DEF IInv, InsideHasLooked, InTurn, LookedPast
<1>2. highest[c] \in Nat /\ highest[d] \in Nat /\ c \in Nat /\ d \in Nat
  BY CookieLockAssumption DEF IInv, LockTypeOK
<1> QED
  BY <1>1, <1>2 DEF After, HasTicket

\* Of the tabs within their leases one at a time changes the cookie, for any number
\* of tabs and claims.
THEOREM TabsExcludeEachOther == LockSpec => []TabsExclude
<1>1. IInv /\ [LockNext]_lockVars => IInv'
  BY TypeStep, LeaseStep, TurnStep DEF IInv
<1> QED
  BY <1>1, InitHolds, InvariantExcludes, PTL DEF LockSpec
=============================================================================

------------------------------- MODULE Ticketing -------------------------------
(***************************************************************************)
(* Ticket reservations, payments and their settlement for one ticket tier  *)
(* of one event: payments.service.ts, the free booking and the tier and    *)
(* status edits of events.service.ts, and ticket-reservations.ts.          *)
(*                                                                         *)
(* PostgreSQL runs these transactions READ COMMITTED, so a transaction is  *)
(* one step exactly where its writes depend only on rows it has locked.    *)
(* It is split where the code reads first and locks later: the activation  *)
(* of a paid ticket (ActivationLock, ActivationCommit), the tier edit      *)
(* (SyncCount, SyncCommit), and every value read before the transaction    *)
(* begins ("now", the tier's capacity, the event's status).                *)
(*                                                                         *)
(* One purchase is one call of a booking endpoint.  The tickets it creates *)
(* have fresh ids, so the ids of purchase p are Batch(p), and its payment  *)
(* reference, if it gets one, is p itself.  The lock of a Payment row is   *)
(* held between ActivationLock and ActivationCommit; the lock of the       *)
(* TicketType row is only ever held inside one step, and needs no variable.*)
(***************************************************************************)
EXTENDS Naturals, FiniteSets

CONSTANTS
    Purchase,          \* calls of the booking endpoints (and payment references)
    Ticket,            \* ticket ids
    User,              \* buyers
    Verifier,          \* concurrent verify calls: callback, webhook, worker
    Order,             \* the purchase each ticket id belongs to
    Prices,            \* which tiers to explore: a subset of {"free", "paid"}
    Capacities,        \* capacities an admin may set
    MaxPerUser,        \* TicketType.maxTicketsPerUser
    ReservationTicks,  \* EVENT_TICKET_RESERVATION_MINUTES in clock ticks
    EventEnds,         \* Event.endsAt
    MaxClock,          \* bound: the clock stops here
    MaxFaults,         \* bound: requests that die half-way
    None               \* no purchase, no user

ASSUME TicketingAssumption ==
    /\ IsFiniteSet(Ticket)
    /\ Order \in [Ticket -> Purchase]
    /\ Prices \subseteq {"free", "paid"}
    /\ Capacities \subseteq Nat \ {0}
    /\ MaxPerUser \in Nat \ {0}
    /\ ReservationTicks \in Nat \ {0}
    /\ EventEnds \in Nat
    /\ MaxClock \in Nat
    /\ MaxFaults \in Nat

VARIABLES
    clock,          \* database and process time, in ticks
    price,          \* TicketType.priceKobo: nothing or something
    eventStatus,    \* Event.status
    capacity,       \* TicketType.capacity
    granted,        \* history: the capacities the tier has had
    editing,        \* capacity an open updateEvent transaction is about to write, or 0
    soldCount,      \* TicketType.soldCount
    ticket,         \* Ticket.status, "none" where there is no row
    reservedUntil,  \* Ticket.reservedUntil of the RESERVED rows
    payment,        \* Payment.status, "none" where there is no row
    refundRequired, \* payments whose providerMetadata says refundRequired
    emailJobs,      \* purchases with a TICKET_EMAIL job
    checkout,       \* progress of each booking call
    call,           \* progress of each verify call
    charge,         \* Paystack's view of each transaction
    faults          \* requests that died so far

vars == <<clock, price, eventStatus, capacity, granted, editing, soldCount, ticket,
          reservedUntil, payment, refundRequired, emailJobs, checkout, call, charge, faults>>
tierVars == <<price, eventStatus, capacity, granted, editing>>
ticketVars == <<soldCount, ticket, reservedUntil, emailJobs>>
paymentVars == <<payment, refundRequired>>

Batch(p) == {t \in Ticket : Order[t] = p}
OwnerOf(t) == checkout[Order[t]].user   \* Ticket.userId of the ids of one purchase

CheckoutPc == {"idle", "reserving", "reserved", "booking",
               "confirmed", "booked", "done"}
CallPc == {"idle", "provider", "record", "settle", "activate", "locked"}

Checkout == [pc : CheckoutPc, user : User \cup {None}, now : 0..MaxClock,
             cap : Capacities \cup {0}, pays : BOOLEAN]
Call == [pc : CallPc, ref : Purchase \cup {None}, missing : BOOLEAN, published : BOOLEAN,
         answer : {"FAILED", "ABANDONED"}, now : 0..MaxClock,
         cap : Capacities \cup {0}, found : SUBSET Ticket, held : SUBSET Ticket]

TypeOK ==
    /\ clock \in 0..MaxClock
    /\ price \in Prices
    /\ eventStatus \in {"PUBLISHED", "CANCELLED"}
    /\ granted \in SUBSET Capacities
    /\ capacity \in granted
    /\ editing \in Capacities \cup {0}
    /\ soldCount \in Nat
    /\ ticket \in [Ticket -> {"none", "RESERVED", "PAID"}]
    /\ reservedUntil \in [Ticket -> Nat]
    /\ payment \in [Purchase -> {"none", "PENDING", "SUCCESS", "FAILED", "ABANDONED"}]
    /\ refundRequired \in SUBSET Purchase
    /\ emailJobs \in SUBSET Purchase
    /\ checkout \in [Purchase -> Checkout]
    /\ call \in [Verifier -> Call]
    /\ charge \in [Purchase -> {"none", "open", "failed", "abandoned", "success"}]
    /\ faults \in 0..MaxFaults

-----------------------------------------------------------------------------
(* ticket-reservations.ts: which rows count as confirmed, active, expired. *)

Confirmed == {t \in Ticket : ticket[t] = "PAID"}
Reserved == {t \in Ticket : ticket[t] = "RESERVED"}
Expired(now) == {t \in Reserved : reservedUntil[t] <= now}
Active(now) == Confirmed \cup (Reserved \ Expired(now))
\* Variant: the limit is checked against reservations, not against tickets.
ConfirmedOf_Reserved(u) == {t \in Reserved : OwnerOf(t) = u}
ConfirmedOf(u) == {t \in Confirmed : OwnerOf(t) = u}

Bookable(published, now) == published /\ now < EventEnds

\* Variant: a tier is sold out when it is full, whatever is asked for.
Available_WhileNotFull(active, owned, quantity, cap) ==
    /\ Cardinality(active) <= cap
    /\ Cardinality(owned) + quantity <= MaxPerUser

\* assertTicketPurchaseAvailability: the sold-out check and the purchase limit
Available(active, owned, quantity, cap) ==
    /\ Cardinality(active) + quantity <= cap
    /\ Cardinality(owned) + quantity <= MaxPerUser

\* Variant: the update matches every reservation, not the ids.
MarkPaid_EveryReservation(ids) ==
    /\ ticket' = [t \in Ticket |->
         IF ticket[t] # "none" THEN "PAID" ELSE ticket[t]]
    /\ reservedUntil' = [t \in Ticket |-> IF t \in ids THEN 0 ELSE reservedUntil[t]]

\* deleteMany, and updateMany to PAID with reservedUntil null, by ticket ids:
\* both touch the rows that still exist and say nothing of the others.
DeleteTickets(gone) ==
    /\ ticket' = [t \in Ticket |-> IF t \in gone THEN "none" ELSE ticket[t]]
    /\ reservedUntil' = [t \in Ticket |-> IF t \in gone THEN 0 ELSE reservedUntil[t]]
MarkPaid(ids) ==
    /\ ticket' = [t \in Ticket |->
         IF t \in ids /\ ticket[t] # "none" THEN "PAID" ELSE ticket[t]]
    /\ reservedUntil' = [t \in Ticket |-> IF t \in ids THEN 0 ELSE reservedUntil[t]]

-----------------------------------------------------------------------------
IdleCall(p) == [pc |-> "idle", ref |-> p, missing |-> FALSE, published |-> FALSE,
                answer |-> "FAILED", now |-> 0, cap |-> 0, found |-> {}, held |-> {}]
NoCall == IdleCall(None)
NoCheckout == [pc |-> "idle", user |-> None, now |-> 0, cap |-> 0, pays |-> FALSE]

Init ==
    /\ clock = 0
    /\ price \in Prices
    /\ eventStatus = "PUBLISHED"
    /\ capacity \in Capacities
    /\ granted = {capacity}
    /\ editing = 0
    /\ soldCount = 0
    /\ ticket = [t \in Ticket |-> "none"]
    /\ reservedUntil = [t \in Ticket |-> 0]
    /\ payment = [p \in Purchase |-> "none"]
    /\ refundRequired = {}
    /\ emailJobs = {}
    /\ checkout = [p \in Purchase |-> NoCheckout]
    /\ call = [c \in Verifier |-> NoCall]
    /\ charge = [p \in Purchase |-> "none"]
    /\ faults = 0

-----------------------------------------------------------------------------
(* Booking calls. *)

\* initializeEventTicket and initializeEventTicketCheckout up to the
\* reservation: the event, the tier's capacity and "now" are read before the
\* transaction.  A buyer without a membership pays even for a free ticket.
StartCheckout(p) ==
    /\ checkout[p].pc = "idle"
    /\ Bookable(eventStatus = "PUBLISHED", clock)
    /\ \E u \in User, pays \in BOOLEAN :
         /\ price = "paid" => pays
         /\ checkout' = [checkout EXCEPT ![p] =
              [pc |-> "reserving", user |-> u, now |-> clock, cap |-> capacity, pays |-> pays]]
    /\ UNCHANGED <<clock, tierVars, ticketVars, paymentVars, call, charge, faults>>

\* A call that advances forgets what it no longer needs.
SetCheckout(p, pc) ==
    checkout' = [checkout EXCEPT ![p] =
        [pc |-> pc, user |-> checkout[p].user, pays |-> checkout[p].pays, cap |-> 0,
         now |-> IF pc = "reserved" THEN checkout[p].now ELSE 0]]

\* The reservation transaction first deletes every expired reservation and the
\* buyer's other ones,
Dropped(p) == Expired(checkout[p].now) \cup {t \in Reserved : OwnerOf(t) = checkout[p].user}
\* then counts what is left under the TicketType lock,
Reservable(p) ==
    Available(Active(checkout[p].now) \ Dropped(p), ConfirmedOf(checkout[p].user),
              Cardinality(Batch(p)), checkout[p].cap)
\* and creates the rows.
ReserveTickets(p) ==
    /\ checkout[p].pc = "reserving"
    /\ Reservable(p)
    /\ ticket' = [t \in Ticket |-> IF t \in Batch(p) THEN "RESERVED"
                                   ELSE IF t \in Dropped(p) THEN "none"
                                   ELSE ticket[t]]
    /\ reservedUntil' = [t \in Ticket |->
         IF t \in Batch(p) THEN checkout[p].now + ReservationTicks
         ELSE IF t \in Dropped(p) THEN 0
         ELSE reservedUntil[t]]
    /\ SetCheckout(p, "reserved")
    /\ UNCHANGED <<clock, tierVars, soldCount, emailJobs, paymentVars, call, charge, faults>>

\* The transaction throws and rolls back: sold out, or over the limit.
ReserveRejected(p) ==
    /\ checkout[p].pc = "reserving"
    /\ ~Reservable(p)
    /\ SetCheckout(p, "done")
    /\ UNCHANGED <<clock, tierVars, ticketVars, paymentVars, call, charge, faults>>

\* Paystack accepted the transaction and payment.create stored it.
CreatePayment(p) ==
    /\ checkout[p].pc = "reserved"
    /\ checkout[p].pays
    /\ payment' = [payment EXCEPT ![p] = "PENDING"]
    /\ charge' = [charge EXCEPT ![p] = "open"]
    /\ SetCheckout(p, "done")
    /\ UNCHANGED <<clock, tierVars, ticketVars, refundRequired, call, faults>>

\* Variant: a failed checkout gives back a seat it never counted.
InitializeFails_Uncount(p) ==
    /\ checkout[p].pc = "reserved"
    /\ checkout[p].pays
    /\ DeleteTickets(Batch(p))
    /\ SetCheckout(p, "done")
    /\ soldCount' = soldCount - Cardinality(Batch(p))
    /\ UNCHANGED <<clock, tierVars, emailJobs, paymentVars, call, charge, faults>>

\* The catch block: the provider or the insert failed, so the ids are deleted.
InitializeFails(p) ==
    /\ checkout[p].pc = "reserved"
    /\ checkout[p].pays
    /\ DeleteTickets(Batch(p))
    /\ SetCheckout(p, "done")
    /\ UNCHANGED <<clock, tierVars, soldCount, emailJobs, paymentVars, call, charge, faults>>

\* confirmReservedTickets: nothing to pay.  The update matches ids only, and
\* the sold count grows by the quantity asked for, whatever the update matched.
ConfirmReservedTickets(p) ==
    /\ checkout[p].pc = "reserved"
    /\ ~checkout[p].pays
    /\ MarkPaid(Batch(p))
    /\ soldCount' = soldCount + Cardinality(Batch(p))
    /\ SetCheckout(p, "confirmed")
    /\ UNCHANGED <<clock, tierVars, emailJobs, paymentVars, call, charge, faults>>

\* bookFreeEvent reads the event and the tier, then books in one transaction
\* under the TicketType lock with a "now" taken inside it.  It purges nothing.
StartFreeBooking(p) ==
    /\ checkout[p].pc = "idle"
    /\ price = "free"
    /\ Bookable(eventStatus = "PUBLISHED", clock)
    /\ \E u \in User : checkout' = [checkout EXCEPT ![p] =
         [pc |-> "booking", user |-> u, now |-> 0, cap |-> capacity, pays |-> FALSE]]
    /\ UNCHANGED <<clock, tierVars, ticketVars, paymentVars, call, charge, faults>>

BookFreeEvent(p) ==
    /\ checkout[p].pc = "booking"
    /\ Available(Active(clock), ConfirmedOf(checkout[p].user), Cardinality(Batch(p)), checkout[p].cap)
    /\ ticket' = [t \in Ticket |-> IF t \in Batch(p) THEN "PAID" ELSE ticket[t]]
    /\ soldCount' = soldCount + Cardinality(Batch(p))
    /\ emailJobs' = emailJobs \cup {p}
    /\ SetCheckout(p, "booked")
    /\ UNCHANGED <<clock, tierVars, reservedUntil, paymentVars, call, charge, faults>>

BookFreeRejected(p) ==
    /\ checkout[p].pc = "booking"
    /\ ~Available(Active(clock), ConfirmedOf(checkout[p].user), Cardinality(Batch(p)), checkout[p].cap)
    /\ SetCheckout(p, "done")
    /\ UNCHANGED <<clock, tierVars, ticketVars, paymentVars, call, charge, faults>>

\* The API process dies, or the database refuses: what committed stays.
CheckoutDies(p) ==
    /\ faults < MaxFaults
    /\ checkout[p].pc \in {"reserving", "reserved", "booking"}
    /\ SetCheckout(p, "done")
    /\ faults' = faults + 1
    /\ UNCHANGED <<clock, tierVars, ticketVars, paymentVars, call, charge>>

-----------------------------------------------------------------------------
(* Verify calls: verifyAndActivateEventTicket, entered by the buyer's      *)
(* callback, by the webhook and by the worker's reconciliation job.        *)

\* The row lock of SELECT ... FOR UPDATE on Payment.  (Without it: the variant.)
PaymentLocked_NoLock(p) == FALSE
PaymentLocked(p) == \E c \in Verifier : call[c].pc = "locked" /\ call[c].ref = p

\* The status read again under the lock, which every settling path checks.
Settled_NotRechecked(p) == FALSE
Settled(p) == payment[p] = "SUCCESS"

SetCall(c, r) == call' = [call EXCEPT ![c] = r]
Return(c) == SetCall(c, NoCall)

\* Variant: a payment whose tickets are gone is left alone.
VerifyStart_SkipMissing(c, p) ==
    LET missing == \E t \in Batch(p) : ticket[t] = "none" IN
    /\ call[c].pc = "idle"
    /\ payment[p] # "none"
    /\ ~missing
    /\ ~(payment[p] = "SUCCESS" /\ Batch(p) \subseteq Confirmed)
    /\ SetCall(c, [IdleCall(p) EXCEPT !.pc = "provider", !.missing = missing,
                                      !.published = (eventStatus = "PUBLISHED")])
    /\ UNCHANGED <<clock, tierVars, ticketVars, paymentVars, checkout, charge, faults>>

\* The reads before the provider is asked.  Its early returns (a payment
\* already settled; tickets gone and the payment not PENDING) change nothing.
VerifyStart(c, p) ==
    LET missing == \E t \in Batch(p) : ticket[t] = "none" IN
    /\ call[c].pc = "idle"
    /\ payment[p] # "none"
    /\ missing => payment[p] = "PENDING"
    /\ ~(payment[p] = "SUCCESS" /\ Batch(p) \subseteq Confirmed)
    /\ SetCall(c, [IdleCall(p) EXCEPT !.pc = "provider", !.missing = missing,
                                      !.published = (eventStatus = "PUBLISHED")])
    /\ UNCHANGED <<clock, tierVars, ticketVars, paymentVars, checkout, charge, faults>>

\* callPaystack("/transaction/verify") answers, and the code chooses a path.
\* An answer still pending returns and leaves the reservation alone.
ProviderAnswers(c) ==
    LET p == call[c].ref IN
    /\ call[c].pc = "provider"
    /\ \/ /\ charge[p] = "open"
          /\ Return(c)
       \/ /\ charge[p] \in {"failed", "abandoned"}
          /\ SetCall(c, [call[c] EXCEPT !.pc = "record", !.published = FALSE,
               !.answer = IF charge[p] = "failed" THEN "FAILED" ELSE "ABANDONED"])
       \/ /\ charge[p] = "success"
          /\ call[c].missing \/ ~Bookable(call[c].published, clock)
          /\ SetCall(c, [call[c] EXCEPT !.pc = "settle", !.published = FALSE])
       \/ /\ charge[p] = "success"
          /\ ~call[c].missing
          /\ Bookable(call[c].published, clock)
          /\ SetCall(c, [call[c] EXCEPT !.pc = "activate", !.published = FALSE, !.now = clock])
    /\ UNCHANGED <<clock, tierVars, ticketVars, paymentVars, checkout, charge, faults>>

\* Variant: the failure is recorded and the reservation kept.
RecordNonSuccess_KeepSeats(c) ==
    LET p == call[c].ref IN
    /\ call[c].pc = "record"
    /\ ~PaymentLocked(p)
    /\ \/ /\ Settled(p)
          /\ UNCHANGED <<payment, ticket, reservedUntil>>
       \/ /\ ~Settled(p)
          /\ payment' = [payment EXCEPT ![p] = call[c].answer]
          /\ UNCHANGED <<ticket, reservedUntil>>
    /\ Return(c)
    /\ UNCHANGED <<clock, tierVars, soldCount, emailJobs, refundRequired, checkout, charge, faults>>

\* recordNonSuccessPayment: under the Payment lock, never over a SUCCESS.
RecordNonSuccess(c) ==
    LET p == call[c].ref
        gone == IF call[c].missing THEN {} ELSE Batch(p) \cap Reserved
    IN
    /\ call[c].pc = "record"
    /\ ~PaymentLocked(p)
    /\ \/ /\ Settled(p)
          /\ UNCHANGED <<payment, ticket, reservedUntil>>
       \/ /\ ~Settled(p)
          /\ payment' = [payment EXCEPT ![p] = call[c].answer]
          /\ DeleteTickets(gone)
    /\ Return(c)
    /\ UNCHANGED <<clock, tierVars, soldCount, emailJobs, refundRequired, checkout, charge, faults>>

\* Variant: the refund is flagged and the tickets kept.
SettleRefund_KeepSeats(c) ==
    LET p == call[c].ref IN
    /\ call[c].pc = "settle"
    /\ ~PaymentLocked(p)
    /\ \/ /\ Settled(p)
          /\ UNCHANGED <<paymentVars, ticket, reservedUntil>>
       \/ /\ ~Settled(p)
          /\ payment' = [payment EXCEPT ![p] = "SUCCESS"]
          /\ refundRequired' = refundRequired \cup {p}
          /\ UNCHANGED <<ticket, reservedUntil>>
    /\ Return(c)
    /\ UNCHANGED <<clock, tierVars, soldCount, emailJobs, checkout, charge, faults>>

\* settleRefundRequired: the money is kept as SUCCESS and flagged for refund.
SettleRefund(c) ==
    LET p == call[c].ref
        gone == IF call[c].missing THEN {} ELSE Batch(p)
    IN
    /\ call[c].pc = "settle"
    /\ ~PaymentLocked(p)
    /\ \/ /\ Settled(p)
          /\ UNCHANGED <<paymentVars, ticket, reservedUntil>>
       \/ /\ ~Settled(p)
          /\ payment' = [payment EXCEPT ![p] = "SUCCESS"]
          /\ refundRequired' = refundRequired \cup {p}
          /\ DeleteTickets(gone)
    /\ Return(c)
    /\ UNCHANGED <<clock, tierVars, soldCount, emailJobs, checkout, charge, faults>>

\* The activation transaction up to lockTicketType: it holds the Payment
\* lock, and it has read the ticket rows and the tier before locking the tier.
ActivationLock(c) ==
    LET p == call[c].ref
        found == {t \in Batch(p) : ticket[t] # "none"}
    IN
    /\ call[c].pc = "activate"
    /\ ~PaymentLocked(p)
    /\ \/ /\ Settled(p)
          /\ Return(c)
       \/ /\ ~Settled(p)
          /\ SetCall(c, [call[c] EXCEPT !.pc = "locked", !.cap = capacity, !.found = found,
                           !.held = (found \cap Reserved) \ Expired(call[c].now)])
    /\ UNCHANGED <<clock, tierVars, ticketVars, paymentVars, checkout, charge, faults>>

\* Over the purchase limit: the buyer's other confirmed tickets are counted now.
OverLimit(c) ==
    LET p == call[c].ref IN
    Cardinality(ConfirmedOf(checkout[p].user) \ Batch(p)) + Cardinality(call[c].found) > MaxPerUser
\* Only a reservation that had expired at "now" is checked against capacity.
SoldOut(c) ==
    /\ call[c].held # Batch(call[c].ref)
    /\ Cardinality(Active(call[c].now)) + Cardinality(call[c].found) > call[c].cap

ActivationRefused(c) == call[c].found # Batch(call[c].ref) \/ OverLimit(c) \/ SoldOut(c)

\* The rest of the transaction, under the TicketType lock.
ActivationRefund(c) ==
    LET p == call[c].ref IN
    /\ call[c].pc = "locked"
    /\ ActivationRefused(c)
    /\ payment' = [payment EXCEPT ![p] = "SUCCESS"]
    /\ refundRequired' = refundRequired \cup {p}
    /\ DeleteTickets(IF call[c].found = Batch(p) THEN Batch(p) ELSE {})
    /\ Return(c)
    /\ UNCHANGED <<clock, tierVars, soldCount, emailJobs, checkout, charge, faults>>

ActivationCommit(c) ==
    LET p == call[c].ref IN
    /\ call[c].pc = "locked"
    /\ ~ActivationRefused(c)
    /\ payment' = [payment EXCEPT ![p] = "SUCCESS"]
    /\ MarkPaid(Batch(p))
    /\ emailJobs' = emailJobs \cup {p}
    /\ soldCount' = soldCount + Cardinality(call[c].found)
    /\ Return(c)
    /\ UNCHANGED <<clock, tierVars, refundRequired, checkout, charge, faults>>

\* The provider times out, the transaction aborts or the process dies.
CallDies(c) ==
    /\ faults < MaxFaults
    /\ call[c].pc # "idle"
    /\ Return(c)
    /\ faults' = faults + 1
    /\ UNCHANGED <<clock, tierVars, ticketVars, paymentVars, checkout, charge>>

-----------------------------------------------------------------------------
(* The worker, the admin, the provider and time. *)

\* Variant: reservations with a payment are not cleaned up.
CleanupExpired_OnlyUnpaid ==
    /\ {t \in Expired(clock) : payment[Order[t]] = "none"} # {}
    /\ DeleteTickets({t \in Expired(clock) : payment[Order[t]] = "none"})
    /\ UNCHANGED <<clock, tierVars, soldCount, emailJobs, paymentVars,
                   checkout, call, charge, faults>>

\* RESERVATION_CLEANUP: cleanupExpiredTicketReservations
CleanupExpired ==
    /\ Expired(clock) # {}
    /\ DeleteTickets(Expired(clock))
    /\ UNCHANGED <<clock, tierVars, soldCount, emailJobs, paymentVars,
                   checkout, call, charge, faults>>

\* Variant: cancelling deletes confirmed tickets too.
CancelEvent_EveryTicket ==
    /\ eventStatus = "PUBLISHED"
    /\ eventStatus' = "CANCELLED"
    /\ DeleteTickets(Reserved \cup Confirmed)
    /\ UNCHANGED <<clock, price, capacity, granted, editing, soldCount, emailJobs,
                   paymentVars, checkout, call, charge, faults>>

\* updateEvent with status CANCELLED
CancelEvent ==
    /\ eventStatus = "PUBLISHED"
    /\ eventStatus' = "CANCELLED"
    /\ DeleteTickets(Reserved)
    /\ UNCHANGED <<clock, price, capacity, granted, editing, soldCount, emailJobs,
                   paymentVars, checkout, call, charge, faults>>

\* updateEvent with a new capacity: syncTicketTypes counts without a lock ...
SyncCount(n) ==
    /\ editing = 0
    /\ n # capacity
    /\ n >= Cardinality(Active(clock))
    /\ editing' = n
    /\ UNCHANGED <<clock, price, eventStatus, capacity, granted, ticketVars, paymentVars,
                   checkout, call, charge, faults>>
\* ... and writes afterwards.
SyncCommit ==
    /\ editing # 0
    /\ capacity' = editing
    /\ granted' = granted \cup {editing}
    /\ editing' = 0
    /\ UNCHANGED <<clock, price, eventStatus, ticketVars, paymentVars,
                   checkout, call, charge, faults>>

\* External.  Paystack reports "abandoned" for a charge the buyer has not
\* finished, and the buyer may still finish it.  "reversed" is handled by the
\* code exactly like "failed" and is not distinguished from it.
ChargeMoves(p) ==
    /\ \/ charge[p] = "open" /\ charge' = [charge EXCEPT ![p] = "failed"]
       \/ charge[p] = "open" /\ charge' = [charge EXCEPT ![p] = "abandoned"]
       \/ charge[p] \in {"open", "abandoned"} /\ charge' = [charge EXCEPT ![p] = "success"]
    /\ UNCHANGED <<clock, tierVars, ticketVars, paymentVars, checkout, call, faults>>

\* A request that took its "now" is over before a second tick: the provider is
\* given 15 seconds and a transaction 5, and a tick stands for a minute or more.
HoldsNow ==
    {checkout[p].now : p \in {q \in Purchase : checkout[q].pc \in {"reserving", "reserved"}}}
    \cup {call[c].now : c \in {d \in Verifier : call[d].pc \in {"activate", "locked"}}}
Tick ==
    /\ clock < MaxClock
    /\ \A n \in HoldsNow : n = clock
    /\ clock' = clock + 1
    /\ UNCHANGED <<tierVars, ticketVars, paymentVars, checkout, call, charge, faults>>

-----------------------------------------------------------------------------
BookingStep(p) ==
    \/ StartCheckout(p) \/ ReserveTickets(p) \/ ReserveRejected(p)
    \/ CreatePayment(p) \/ InitializeFails(p) \/ ConfirmReservedTickets(p)
    \/ StartFreeBooking(p) \/ BookFreeEvent(p) \/ BookFreeRejected(p)
    \/ CheckoutDies(p) \/ ChargeMoves(p)

VerifyStep(c) ==
    \/ ProviderAnswers(c) \/ RecordNonSuccess(c) \/ SettleRefund(c)
    \/ ActivationLock(c) \/ ActivationRefund(c) \/ ActivationCommit(c)

Next ==
    \/ \E p \in Purchase : BookingStep(p)
    \/ \E c \in Verifier, p \in Purchase : VerifyStart(c, p)
    \/ \E c \in Verifier : VerifyStep(c) \/ CallDies(c)
    \/ CleanupExpired
    \/ CancelEvent
    \/ \E n \in Capacities : SyncCount(n)
    \/ SyncCommit
    \/ Tick

Spec == Init /\ [][Next]_vars

-----------------------------------------------------------------------------
(* Safety. *)

\* A purchase whose tickets were issued: paid for, or nothing to pay.
Issued(p) ==
    \/ payment[p] = "SUCCESS" /\ p \notin refundRequired
    \/ checkout[p].pc \in {"confirmed", "booked"}

\* Callback, webhook and reconciliation of one reference, in any interleaving
\* and with failures in between, add a purchase to soldCount once, and a
\* purchase that ends in a refund or a failure is never counted.
SoldCountCountsEachIssueOnce == soldCount = Cardinality({t \in Ticket : Issued(Order[t])})

\* A ticket is only ever confirmed by its own settled payment or free booking,
\* whatever was deleted, expired or retried meanwhile.
ConfirmedIsPaidFor == \A t \in Confirmed : Issued(Order[t])

\* Money flagged for refund never leaves a ticket, or a held seat, behind.
NoTicketWithRefund ==
    \A p \in refundRequired :
        payment[p] = "SUCCESS" /\ \A t \in Batch(p) : ticket[t] = "none"

\* A payment that ended without success holds no seats: the failure path
\* releases them in the transaction that records it.
FailureFreesSeats ==
    \A p \in Purchase : payment[p] \in {"FAILED", "ABANDONED"} =>
        \A t \in Batch(p) : ticket[t] = "none"

\* A payment lost to the sale, because it failed or is flagged for refund, keeps
\* no seat, whichever of callback, webhook and job recorded it and whatever its
\* buyer did meanwhile.
LostPaymentsKeepNoSeats == NoTicketWithRefund /\ FailureFreesSeats

\* A tier with a price never has more confirmed tickets than a capacity its
\* admins have given it so far, although an expired reservation may still be paid for.
PaidTierNeverOversold ==
    price = "paid" => \E n \in granted : Cardinality(Confirmed) <= n

\* On a tier with a price nobody ends up with more tickets than the limit,
\* even with several purchases reserved, paid and verified concurrently.
PaidTierPurchaseLimit ==
    price = "paid" =>
        \A u \in User : Cardinality({t \in Confirmed : OwnerOf(t) = u}) <= MaxPerUser

\* Every purchase settles at most once, finally, and is counted when it does.
Outcome(p) ==
    IF p \in refundRequired THEN "refund" ELSE IF Issued(p) THEN "issued" ELSE "open"
Quantity(p) == Cardinality(Batch(p))
Sales == INSTANCE Settlement WITH outcome <- [p \in Purchase |-> Outcome(p)],
                                  sold <- soldCount
SettlesOnce == Sales!Spec

\* Cleanup, cancellation, an old failure answer or a second verification never
\* takes a confirmed ticket away.
ConfirmedForever == [][Confirmed \subseteq Confirmed']_vars

-----------------------------------------------------------------------------
(* Liveness.  Fairness: a request that is being served makes progress (the *)
(* faults are bounded); Paystack repeats a webhook until it is accepted and *)
(* the worker's job retries a PENDING payment, so every purchase is verified *)
(* again and again; RESERVATION_CLEANUP is scheduled every five minutes; and *)
(* an open transaction of an admin ends. *)
Fairness ==
    /\ \A p \in Purchase : SF_vars(\E c \in Verifier : VerifyStart(c, p))
    /\ \A c \in Verifier : WF_vars(VerifyStep(c))
    /\ WF_vars(CleanupExpired)
    /\ WF_vars(Tick)
FairSpec == Spec /\ Fairness

\* A charge that succeeded while its payment was PENDING does not stay PENDING.
PendingChargeSettles ==
    \A p \in Purchase :
        payment[p] = "PENDING" /\ charge[p] = "success" ~> payment[p] # "PENDING"

\* An expired reservation does not hold its row for ever: it is deleted, or its
\* payment is settled after all.
ExpiredReservationEnds ==
    \A t \in Ticket :
        ticket[t] = "RESERVED" /\ reservedUntil[t] <= clock ~> ticket[t] # "RESERVED"

-----------------------------------------------------------------------------
(* What the documentation and the comments say and the code does not keep. *)

\* deploy/paystack-live.md: a payment arriving after its reservation became
\* unavailable is flagged.  So a settled payment has its tickets or the flag.
SettledPaymentHasTicketsOrRefund ==
    \A p \in Purchase : payment[p] = "SUCCESS" /\ p \notin refundRequired
                        => Batch(p) \subseteq Confirmed

\* release-4-background-jobs.md: a payment arriving after an expired reservation
\* never oversells capacity.
NeverOversold == \E n \in Capacities : Cardinality(Confirmed) <= n

\* deploy/paystack-live.md again: money that was received is settled in the end.
ReceivedChargeSettles ==
    \A p \in Purchase : charge[p] = "success" ~> payment[p] = "SUCCESS"
=============================================================================

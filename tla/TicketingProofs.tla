---------------------------- MODULE TicketingProofs ----------------------------
(***************************************************************************)
(* Proofs, for any purchases, tickets, buyers, concurrent verify calls and *)
(* bounds, of the safety properties of Ticketing that hold.  One inductive *)
(* invariant carries all of them.                                          *)
(***************************************************************************)
EXTENDS Ticketing, FiniteSetTheorems, TLAPS

-----------------------------------------------------------------------------
(* The inductive invariant. *)

\* A payment is created last, so a purchase that has one is past booking.
PaymentIsLast == \A p \in Purchase : payment[p] # "none" => checkout[p].pc = "done"

\* A reservation belongs to a purchase that can still be paid for, and the
\* rows of one purchase are created, confirmed and deleted together.
RowsAreTogether ==
    \A t \in Ticket :
        /\ ticket[t] = "RESERVED" => /\ checkout[Order[t]].pc \in {"reserved", "done"}
                                     /\ payment[Order[t]] \in {"none", "PENDING"}
        /\ \A s \in Ticket : Order[s] = Order[t] =>
             ticket[s] = ticket[t] /\ reservedUntil[s] = reservedUntil[t]

\* A verify call works on a payment that exists; one that holds the Payment
\* lock holds it alone, and the payment has not been settled.
CallsHoldTheirPayment ==
    \A c \in Verifier :
        /\ call[c].pc # "idle" => call[c].ref \in Purchase /\ payment[call[c].ref] # "none"
        /\ call[c].pc = "locked" =>
             /\ payment[call[c].ref] # "SUCCESS"
             /\ \A d \in Verifier : d # c /\ call[d].pc = "locked" => call[d].ref # call[c].ref

\* The rows of p are deleted, and as p has a payment they never come back.
Gone(p) == \A t \in Ticket : Order[t] = p => ticket[t] = "none"

\* What a call saw missing is still missing when it acts on it.
SawMissing(c) ==
    /\ call[c].pc # "idle" /\ call[c].missing => Gone(call[c].ref)
    /\ call[c].pc = "locked" =>
         /\ call[c].found \subseteq Batch(call[c].ref)
         /\ call[c].found # Batch(call[c].ref) => Gone(call[c].ref)
MissingStaysMissing == \A c \in Verifier : SawMissing(c)

\* On a tier with a price nothing is booked without paying, and all its rows,
\* expired ones too, fit into a capacity it has had.
PaidTierRowsFit ==
    price = "paid" =>
        /\ \A p \in Purchase :
             /\ checkout[p].pc \notin {"booking", "confirmed", "booked"}
             /\ checkout[p].pc \in {"reserving", "reserved"} => checkout[p].pays
             /\ checkout[p].pc = "reserving" => checkout[p].cap \in granted
        /\ \E n \in granted : Cardinality(Confirmed \cup Reserved) <= n

SettlementInv ==
    /\ PaymentIsLast
    /\ RowsAreTogether
    /\ CallsHoldTheirPayment
    /\ ConfirmedIsPaidFor
    /\ NoTicketWithRefund
    /\ FailureFreesSeats

PaidTierInv == PaidTierRowsFit /\ PaidTierPurchaseLimit

-----------------------------------------------------------------------------
(* What the operators that update one purchase, one call or some rows do.  *)

\* Advancing a booking changes its progress and leaves its buyer alone.
LEMMA SetCheckoutEffect ==
    ASSUME TypeOK, NEW p \in Purchase, NEW pc \in CheckoutPc, SetCheckout(p, pc)
    PROVE  /\ checkout' \in [Purchase -> Checkout]
           /\ checkout'[p].pc = pc
           /\ \A q \in Purchase : checkout'[q].user = checkout[q].user
           /\ \A q \in Purchase : checkout'[q].pays = checkout[q].pays
           /\ \A q \in Purchase : q # p => checkout'[q] = checkout[q]
<1> DEFINE r == [pc |-> pc, user |-> checkout[p].user, pays |-> checkout[p].pays, cap |-> 0,
                 now |-> IF pc = "reserved" THEN checkout[p].now ELSE 0]
<1>1. checkout \in [Purchase -> Checkout] /\ checkout[p] \in Checkout
  BY DEF TypeOK
<1>2. r \in Checkout
  BY <1>1, TicketingAssumption DEF Checkout
<1>3. r.pc = pc /\ r.user = checkout[p].user /\ r.pays = checkout[p].pays
  OBVIOUS
<1>4. checkout' = [checkout EXCEPT ![p] = r]
  BY DEF SetCheckout
<1> HIDE DEF r
<1> QED
  BY <1>1, <1>2, <1>3, <1>4

\* A verify call that ends is idle again.
LEMMA NoCallIsACall == NoCall \in Call /\ NoCall.pc = "idle"
BY TicketingAssumption DEF NoCall, IdleCall, Call, CallPc

\* Recording the progress of a call leaves the other calls alone.
LEMMA SetCallEffect ==
    ASSUME TypeOK, NEW c \in Verifier, NEW r \in Call, SetCall(c, r)
    PROVE  /\ call' \in [Verifier -> Call]
           /\ call'[c] = r
           /\ \A d \in Verifier : d # c => call'[d] = call[d]
BY DEF TypeOK, SetCall

\* Deleting and confirming rows keeps the types of the ticket table.
LEMMA RowsTyped ==
    ASSUME TypeOK, NEW ids, DeleteTickets(ids) \/ MarkPaid(ids)
    PROVE  /\ ticket' \in [Ticket -> {"none", "RESERVED", "PAID"}]
           /\ reservedUntil' \in [Ticket -> Nat]
<1>1. CASE DeleteTickets(ids)
  BY <1>1 DEF TypeOK, DeleteTickets
<1>2. CASE MarkPaid(ids)
  BY <1>2 DEF TypeOK, MarkPaid
<1> QED
  BY <1>1, <1>2

\* The tickets of a purchase are finitely many.
LEMMA BatchFinite ==
    ASSUME NEW p \in Purchase
    PROVE  IsFiniteSet(Batch(p)) /\ Cardinality(Batch(p)) \in Nat
<1>1. Batch(p) \subseteq Ticket /\ IsFiniteSet(Ticket)
  BY TicketingAssumption DEF Batch
<1> QED
  BY <1>1, FS_Subset, FS_CardinalityType

-----------------------------------------------------------------------------
(* Type correctness. *)

USE DEF tierVars, ticketVars, paymentVars

\* A booking step keeps the types.  soldCount only ever grows.
LEMMA BookingTyped ==
    ASSUME TypeOK, NEW p \in Purchase, BookingStep(p)
    PROVE  TypeOK'
<1> USE BatchFinite
<1>1. CASE StartCheckout(p)
  <2>1. PICK u \in User, pays \in BOOLEAN : checkout' = [checkout EXCEPT ![p] =
             [pc |-> "reserving", user |-> u, now |-> clock, cap |-> capacity, pays |-> pays]]
    BY <1>1 DEF StartCheckout
  <2>2. checkout' \in [Purchase -> Checkout]
    BY <2>1 DEF TypeOK, Checkout, CheckoutPc
  <2> QED
    BY <1>1, <2>2 DEF StartCheckout, TypeOK
<1>2. CASE ReserveTickets(p)
  <2>1. checkout' \in [Purchase -> Checkout]
    BY <1>2, SetCheckoutEffect DEF ReserveTickets, CheckoutPc
  <2>2. checkout[p].now \in 0..MaxClock
    BY DEF TypeOK, Checkout
  <2>3. ticket' \in [Ticket -> {"none", "RESERVED", "PAID"}] /\ reservedUntil' \in [Ticket -> Nat]
    BY <1>2, <2>2, TicketingAssumption DEF ReserveTickets, TypeOK
  <2> QED
    BY <1>2, <2>1, <2>3 DEF ReserveTickets, TypeOK
<1>3. CASE ReserveRejected(p)
  <2>1. checkout' \in [Purchase -> Checkout]
    BY <1>3, SetCheckoutEffect DEF ReserveRejected, CheckoutPc
  <2> QED
    BY <1>3, <2>1 DEF ReserveRejected, TypeOK
<1>4. CASE CreatePayment(p)
  <2>1. checkout' \in [Purchase -> Checkout]
    BY <1>4, SetCheckoutEffect DEF CreatePayment, CheckoutPc
  <2> QED
    BY <1>4, <2>1 DEF CreatePayment, TypeOK
<1>5. CASE InitializeFails(p)
  <2>1. checkout' \in [Purchase -> Checkout]
    BY <1>5, SetCheckoutEffect DEF InitializeFails, CheckoutPc
  <2> QED
    BY <1>5, <2>1, RowsTyped DEF InitializeFails, TypeOK
<1>6. CASE ConfirmReservedTickets(p)
  <2>1. checkout' \in [Purchase -> Checkout]
    BY <1>6, SetCheckoutEffect DEF ConfirmReservedTickets, CheckoutPc
  <2> QED
    BY <1>6, <2>1, RowsTyped DEF ConfirmReservedTickets, TypeOK
<1>7. CASE StartFreeBooking(p)
  <2>1. PICK u \in User : checkout' = [checkout EXCEPT ![p] =
             [pc |-> "booking", user |-> u, now |-> 0, cap |-> capacity, pays |-> FALSE]]
    BY <1>7 DEF StartFreeBooking
  <2>2. checkout' \in [Purchase -> Checkout]
    BY <2>1, TicketingAssumption DEF TypeOK, Checkout, CheckoutPc
  <2> QED
    BY <1>7, <2>2 DEF StartFreeBooking, TypeOK
<1>8. CASE BookFreeEvent(p)
  <2>1. checkout' \in [Purchase -> Checkout]
    BY <1>8, SetCheckoutEffect DEF BookFreeEvent, CheckoutPc
  <2> QED
    BY <1>8, <2>1 DEF BookFreeEvent, TypeOK
<1>9. CASE BookFreeRejected(p)
  <2>1. checkout' \in [Purchase -> Checkout]
    BY <1>9, SetCheckoutEffect DEF BookFreeRejected, CheckoutPc
  <2> QED
    BY <1>9, <2>1 DEF BookFreeRejected, TypeOK
<1>10. CASE CheckoutDies(p)
  <2>1. checkout' \in [Purchase -> Checkout]
    BY <1>10, SetCheckoutEffect DEF CheckoutDies, CheckoutPc
  <2> QED
    BY <1>10, <2>1, TicketingAssumption DEF CheckoutDies, TypeOK
<1>11. CASE ChargeMoves(p)
  BY <1>11 DEF ChargeMoves, TypeOK
<1> QED
  BY <1>1, <1>2, <1>3, <1>4, <1>5, <1>6, <1>7, <1>8, <1>9, <1>10, <1>11 DEF BookingStep

\* A verify call's step keeps the types.
LEMMA VerifyTyped ==
    ASSUME TypeOK, NEW c \in Verifier, CallsHoldTheirPayment, VerifyStep(c)
    PROVE  TypeOK'
<1> DEFINE p == call[c].ref
<1>0. call[c] \in Call
  BY DEF TypeOK
<1>1. CASE ProviderAnswers(c)
  <2>1. clock \in 0..MaxClock
    BY DEF TypeOK
  <2>2. \E r \in Call : SetCall(c, r)
    <3> DEFINE record(a) == [call[c] EXCEPT !.pc = "record", !.published = FALSE, !.answer = a]
               settle == [call[c] EXCEPT !.pc = "settle", !.published = FALSE]
               activate == [call[c] EXCEPT !.pc = "activate", !.published = FALSE, !.now = clock]
    <3>1. record("FAILED") \in Call /\ record("ABANDONED") \in Call
      BY <1>0 DEF Call, CallPc
    <3>2. settle \in Call
      BY <1>0 DEF Call, CallPc
    <3>3. activate \in Call
      BY <1>0, <2>1 DEF Call, CallPc
    <3>4. \/ Return(c)
          \/ SetCall(c, record("FAILED")) \/ SetCall(c, record("ABANDONED"))
          \/ SetCall(c, settle)
          \/ SetCall(c, activate)
      BY <1>1 DEF ProviderAnswers
    <3> QED
      BY <3>1, <3>2, <3>3, <3>4, NoCallIsACall DEF Return
  <2>3. call' \in [Verifier -> Call]
    BY <2>2, SetCallEffect
  <2> QED
    BY <1>1, <2>3 DEF ProviderAnswers, TypeOK
<1>2. CASE RecordNonSuccess(c)
  <2>1. p \in Purchase
    BY <1>2 DEF RecordNonSuccess, CallsHoldTheirPayment
  <2>2. call' \in [Verifier -> Call]
    BY <1>2, NoCallIsACall, SetCallEffect DEF RecordNonSuccess, Return
  <2>3. payment' \in [Purchase -> {"none", "PENDING", "SUCCESS", "FAILED", "ABANDONED"}]
    BY <1>0, <1>2, <2>1 DEF RecordNonSuccess, TypeOK, Call
  <2>4. ticket' \in [Ticket -> {"none", "RESERVED", "PAID"}] /\ reservedUntil' \in [Ticket -> Nat]
    BY <1>2, RowsTyped DEF RecordNonSuccess, TypeOK
  <2> QED
    BY <1>2, <2>2, <2>3, <2>4 DEF RecordNonSuccess, TypeOK
<1>3. CASE SettleRefund(c)
  <2>1. p \in Purchase
    BY <1>3 DEF SettleRefund, CallsHoldTheirPayment
  <2>2. call' \in [Verifier -> Call]
    BY <1>3, NoCallIsACall, SetCallEffect DEF SettleRefund, Return
  <2>3. /\ payment' \in [Purchase -> {"none", "PENDING", "SUCCESS", "FAILED", "ABANDONED"}]
        /\ refundRequired' \in SUBSET Purchase
    BY <1>3, <2>1 DEF SettleRefund, TypeOK
  <2>4. ticket' \in [Ticket -> {"none", "RESERVED", "PAID"}] /\ reservedUntil' \in [Ticket -> Nat]
    BY <1>3, RowsTyped DEF SettleRefund, TypeOK
  <2> QED
    BY <1>3, <2>2, <2>3, <2>4 DEF SettleRefund, TypeOK
<1>4. CASE ActivationLock(c)
  <2> DEFINE found == {t \in Batch(p) : ticket[t] # "none"}
             held == (found \cap Reserved) \ Expired(call[c].now)
             r == [call[c] EXCEPT !.pc = "locked", !.cap = capacity, !.found = found, !.held = held]
  <2>1. found \subseteq Ticket /\ held \subseteq Ticket
    BY DEF Batch
  <2>2. capacity \in Capacities
    BY DEF TypeOK
  <2> HIDE DEF found, held
  <2>3. r \in Call
    BY <1>0, <2>1, <2>2 DEF Call, CallPc
  <2>4. call' \in [Verifier -> Call]
    BY <1>4, <2>3, NoCallIsACall, SetCallEffect DEF ActivationLock, Return, found, held
  <2> QED
    BY <1>4, <2>4 DEF ActivationLock, TypeOK
<1>5. CASE ActivationRefund(c)
  <2>1. p \in Purchase
    BY <1>5 DEF ActivationRefund, CallsHoldTheirPayment
  <2>2. call' \in [Verifier -> Call]
    BY <1>5, NoCallIsACall, SetCallEffect DEF ActivationRefund, Return
  <2>3. ticket' \in [Ticket -> {"none", "RESERVED", "PAID"}] /\ reservedUntil' \in [Ticket -> Nat]
    BY <1>5, RowsTyped DEF ActivationRefund
  <2> QED
    BY <1>5, <2>1, <2>2, <2>3 DEF ActivationRefund, TypeOK
<1>6. CASE ActivationCommit(c)
  <2>1. p \in Purchase
    BY <1>6 DEF ActivationCommit, CallsHoldTheirPayment
  <2>2. call' \in [Verifier -> Call]
    BY <1>6, NoCallIsACall, SetCallEffect DEF ActivationCommit, Return
  <2>3. ticket' \in [Ticket -> {"none", "RESERVED", "PAID"}] /\ reservedUntil' \in [Ticket -> Nat]
    BY <1>6, RowsTyped DEF ActivationCommit
  <2>4. Cardinality(call[c].found) \in Nat
    BY <1>0, TicketingAssumption, FS_Subset, FS_CardinalityType DEF Call
  <2> QED
    BY <1>6, <2>1, <2>2, <2>3, <2>4 DEF ActivationCommit, TypeOK
<1> QED
  BY <1>1, <1>2, <1>3, <1>4, <1>5, <1>6 DEF VerifyStep

\* Every other step keeps the types too.
LEMMA StepTyped ==
    ASSUME TypeOK, CallsHoldTheirPayment, [Next]_vars
    PROVE  TypeOK'
<1>1. CASE \E p \in Purchase : BookingStep(p)
  BY <1>1, BookingTyped
<1>2. ASSUME NEW c \in Verifier, NEW p \in Purchase, VerifyStart(c, p)
      PROVE  TypeOK'
  <2> DEFINE missing == \E t \in Batch(p) : ticket[t] = "none"
             published == eventStatus = "PUBLISHED"
             r == [IdleCall(p) EXCEPT !.pc = "provider", !.missing = missing, !.published = published]
  <2>0. IdleCall(p) \in Call
    BY TicketingAssumption DEF IdleCall, Call, CallPc
  <2>1. r \in Call
    <3>1. missing \in BOOLEAN /\ published \in BOOLEAN
      OBVIOUS
    <3> HIDE DEF missing, published
    <3> QED
      BY <2>0, <3>1 DEF Call, CallPc
  <2>2. call' \in [Verifier -> Call]
    BY <1>2, <2>1, SetCallEffect DEF VerifyStart
  <2> QED
    BY <1>2, <2>2 DEF VerifyStart, TypeOK
<1>3. CASE \E c \in Verifier : VerifyStep(c)
  BY <1>3, VerifyTyped
<1>4. ASSUME NEW c \in Verifier, CallDies(c)
      PROVE  TypeOK'
  <2>1. call' \in [Verifier -> Call]
    BY <1>4, NoCallIsACall, SetCallEffect DEF CallDies, Return
  <2> QED
    BY <1>4, <2>1, TicketingAssumption DEF CallDies, TypeOK
<1>5. CASE CleanupExpired
  BY <1>5, RowsTyped DEF CleanupExpired, TypeOK
<1>6. CASE CancelEvent
  BY <1>6, RowsTyped DEF CancelEvent, TypeOK
<1>7. ASSUME NEW n \in Capacities, SyncCount(n)
      PROVE  TypeOK'
  BY <1>7 DEF SyncCount, TypeOK
<1>8. CASE SyncCommit
  BY <1>8 DEF SyncCommit, TypeOK
<1>9. CASE Tick
  BY <1>9, TicketingAssumption DEF Tick, TypeOK
<1>10. CASE UNCHANGED vars
  BY <1>10 DEF vars, TypeOK
<1> QED
  BY <1>1, <1>2, <1>3, <1>4, <1>5, <1>6, <1>7, <1>8, <1>9, <1>10 DEF Next

-----------------------------------------------------------------------------
(* Settlement: who holds, confirms and frees rows. *)

\* A purchase that has not reserved yet has neither rows nor a payment.
LEMMA FreshPurchase ==
    ASSUME TypeOK, SettlementInv, NEW p \in Purchase,
           checkout[p].pc \in {"idle", "reserving", "booking"}
    PROVE  /\ payment[p] = "none"
           /\ p \notin refundRequired
           /\ \A t \in Ticket : Order[t] = p => ticket[t] = "none"
<1>1. payment[p] = "none"
  BY DEF SettlementInv, PaymentIsLast
<1>2. \A t \in Ticket : Order[t] = p => ticket[t] # "RESERVED"
  BY DEF SettlementInv, RowsAreTogether
<1>3. \A t \in Ticket : Order[t] = p => ticket[t] # "PAID"
  BY <1>1 DEF SettlementInv, ConfirmedIsPaidFor, Issued, Confirmed
<1>4. p \notin refundRequired
  BY <1>1 DEF SettlementInv, NoTicketWithRefund
<1> QED
  BY <1>1, <1>2, <1>3, <1>4 DEF TypeOK

\* A purchase that has reserved has nothing confirmed and no payment yet.
LEMMA ReservedPurchase ==
    ASSUME TypeOK, SettlementInv, NEW p \in Purchase, checkout[p].pc = "reserved"
    PROVE  /\ payment[p] = "none"
           /\ p \notin refundRequired
           /\ \A t \in Ticket : Order[t] = p => ticket[t] # "PAID"
<1>1. payment[p] = "none"
  BY DEF SettlementInv, PaymentIsLast
<1>2. \A t \in Ticket : Order[t] = p => ticket[t] # "PAID"
  BY <1>1 DEF SettlementInv, ConfirmedIsPaidFor, Issued, Confirmed
<1> QED
  BY <1>1, <1>2 DEF SettlementInv, NoTicketWithRefund

\* A payment that is not settled has nothing confirmed and no refund due.
LEMMA UnsettledPayment ==
    ASSUME TypeOK, SettlementInv, NEW p \in Purchase,
           payment[p] # "none", payment[p] # "SUCCESS"
    PROVE  /\ checkout[p].pc = "done"
           /\ p \notin refundRequired
           /\ \A t \in Ticket : Order[t] = p => ticket[t] # "PAID"
<1>1. checkout[p].pc = "done"
  BY DEF SettlementInv, PaymentIsLast
<1>2. \A t \in Ticket : Order[t] = p => ticket[t] # "PAID"
  BY <1>1 DEF SettlementInv, ConfirmedIsPaidFor, Issued, Confirmed
<1> QED
  BY <1>1, <1>2 DEF SettlementInv, NoTicketWithRefund

\* Deleting unconfirmed rows, whole purchases at a time, disturbs nothing.
LEMMA DeletingKeepsSettlement ==
    ASSUME TypeOK, SettlementInv, NEW gone, DeleteTickets(gone),
           \A t \in Ticket : t \in gone => ticket[t] # "PAID",
           \A s, t \in Ticket : Order[s] = Order[t] => (s \in gone <=> t \in gone),
           UNCHANGED <<checkout, call, paymentVars>>
    PROVE  SettlementInv'
<1>1. PaymentIsLast' /\ CallsHoldTheirPayment'
  BY DEF SettlementInv, PaymentIsLast, CallsHoldTheirPayment
<1>2. RowsAreTogether'
  BY DEF SettlementInv, RowsAreTogether, DeleteTickets, TypeOK
<1>3. ConfirmedIsPaidFor'
  BY DEF SettlementInv, ConfirmedIsPaidFor, Confirmed, Issued, DeleteTickets, TypeOK
<1>4. NoTicketWithRefund' /\ FailureFreesSeats'
  BY DEF SettlementInv, NoTicketWithRefund, FailureFreesSeats, Batch, DeleteTickets, TypeOK
<1> QED
  BY <1>1, <1>2, <1>3, <1>4 DEF SettlementInv

\* A step that only advances one booking, and not by issuing its tickets.
LEMMA AdvancingKeepsSettlement ==
    ASSUME TypeOK, SettlementInv, NEW p \in Purchase,
           checkout[p].pc \in {"idle", "reserving", "booking"} \/
             (checkout[p].pc = "reserved" /\ checkout'[p].pc = "done"),
           \A q \in Purchase : q # p => checkout'[q] = checkout[q],
           checkout'[p].pc \notin {"confirmed", "booked"},
           UNCHANGED <<ticket, reservedUntil, call, paymentVars>>
    PROVE  SettlementInv'
<1>1. /\ payment[p] = "none"
      /\ p \notin refundRequired
      /\ \A t \in Ticket : Order[t] = p => ticket[t] # "PAID"
  BY FreshPurchase, ReservedPurchase
<1>2. checkout[p].pc # "reserved" => \A t \in Ticket : Order[t] = p => ticket[t] = "none"
  BY FreshPurchase
<1>3. PaymentIsLast' /\ CallsHoldTheirPayment'
  BY <1>1 DEF SettlementInv, PaymentIsLast, CallsHoldTheirPayment
<1>4. RowsAreTogether'
  BY <1>1, <1>2, TicketingAssumption DEF SettlementInv, RowsAreTogether
<1>5. ConfirmedIsPaidFor'
  BY <1>1, TicketingAssumption DEF SettlementInv, ConfirmedIsPaidFor, Confirmed, Issued
<1>6. NoTicketWithRefund' /\ FailureFreesSeats'
  BY DEF SettlementInv, NoTicketWithRefund, FailureFreesSeats, Batch
<1> QED
  BY <1>3, <1>4, <1>5, <1>6 DEF SettlementInv

\* A booking step keeps the settlement invariant.
LEMMA BookingKeepsSettlement ==
    ASSUME TypeOK, SettlementInv, NEW p \in Purchase, BookingStep(p)
    PROVE  SettlementInv'
<1>1. CASE StartCheckout(p) \/ StartFreeBooking(p)
  <2>1. /\ \A q \in Purchase : q # p => checkout'[q] = checkout[q]
        /\ checkout'[p].pc \in {"reserving", "booking"}
        /\ checkout[p].pc = "idle"
    BY <1>1 DEF StartCheckout, StartFreeBooking, TypeOK
  <2> QED
    BY <1>1, <2>1, AdvancingKeepsSettlement DEF StartCheckout, StartFreeBooking
<1>2. CASE ReserveRejected(p) \/ BookFreeRejected(p) \/ CheckoutDies(p)
  <2>1. SetCheckout(p, "done")
    BY <1>2 DEF ReserveRejected, BookFreeRejected, CheckoutDies
  <2>2. /\ \A q \in Purchase : q # p => checkout'[q] = checkout[q]
        /\ checkout'[p].pc = "done"
    BY <2>1, SetCheckoutEffect DEF CheckoutPc
  <2>3. checkout[p].pc \in {"reserving", "reserved", "booking"}
    BY <1>2 DEF ReserveRejected, BookFreeRejected, CheckoutDies
  <2>4. UNCHANGED <<ticket, reservedUntil, call, paymentVars>>
    BY <1>2 DEF ReserveRejected, BookFreeRejected, CheckoutDies
  <2> QED
    BY <2>2, <2>3, <2>4, AdvancingKeepsSettlement
<1>3. CASE ReserveTickets(p)
  <2>1. /\ \A q \in Purchase : q # p => checkout'[q] = checkout[q]
        /\ checkout'[p].pc = "reserved"
    BY <1>3, SetCheckoutEffect DEF ReserveTickets, CheckoutPc
  <2>2. /\ payment[p] = "none"
        /\ p \notin refundRequired
        /\ \A t \in Ticket : Order[t] = p => ticket[t] = "none"
    BY <1>3, FreshPurchase DEF ReserveTickets
  <2>3. \A t \in Dropped(p) : ticket[t] = "RESERVED"
    BY DEF Dropped, Expired, Reserved
  <2>4. \A s, t \in Ticket : Order[s] = Order[t] => (s \in Dropped(p) <=> t \in Dropped(p))
    BY DEF Dropped, Expired, Reserved, OwnerOf, SettlementInv, RowsAreTogether
  <2>5. PaymentIsLast' /\ CallsHoldTheirPayment'
    BY <1>3, <2>1, <2>2 DEF ReserveTickets, SettlementInv, PaymentIsLast, CallsHoldTheirPayment
  <2>6. RowsAreTogether'
    BY <1>3, <2>1, <2>2, <2>4, TicketingAssumption
       DEF ReserveTickets, SettlementInv, RowsAreTogether, Batch, TypeOK
  <2>7. ConfirmedIsPaidFor'
    BY <1>3, <2>1, <2>3, TicketingAssumption
       DEF ReserveTickets, SettlementInv, ConfirmedIsPaidFor, Confirmed, Issued, Batch, TypeOK
  <2>8. NoTicketWithRefund' /\ FailureFreesSeats'
    BY <1>3, <2>2, <2>3 DEF ReserveTickets, SettlementInv, NoTicketWithRefund, FailureFreesSeats,
                            Batch, TypeOK
  <2> QED
    BY <2>5, <2>6, <2>7, <2>8 DEF SettlementInv
<1>4. CASE CreatePayment(p)
  <2>1. /\ \A q \in Purchase : q # p => checkout'[q] = checkout[q]
        /\ checkout'[p].pc = "done"
    BY <1>4, SetCheckoutEffect DEF CreatePayment, CheckoutPc
  <2>2. /\ payment[p] = "none"
        /\ p \notin refundRequired
        /\ \A t \in Ticket : Order[t] = p => ticket[t] # "PAID"
    BY <1>4, ReservedPurchase DEF CreatePayment
  <2>3. \A q \in Purchase : payment'[q] = IF q = p THEN "PENDING" ELSE payment[q]
    BY <1>4 DEF CreatePayment, TypeOK
  <2>4. PaymentIsLast' /\ CallsHoldTheirPayment'
    BY <1>4, <2>1, <2>2, <2>3 DEF CreatePayment, SettlementInv, PaymentIsLast, CallsHoldTheirPayment
  <2>5. RowsAreTogether'
    BY <1>4, <2>1, <2>3, TicketingAssumption DEF CreatePayment, SettlementInv, RowsAreTogether
  <2>6. ConfirmedIsPaidFor'
    BY <1>4, <2>1, <2>2, <2>3, TicketingAssumption
       DEF CreatePayment, SettlementInv, ConfirmedIsPaidFor, Confirmed, Issued
  <2>7. NoTicketWithRefund' /\ FailureFreesSeats'
    BY <1>4, <2>2, <2>3 DEF CreatePayment, SettlementInv, NoTicketWithRefund, FailureFreesSeats,
                            Batch, TypeOK
  <2> QED
    BY <2>4, <2>5, <2>6, <2>7 DEF SettlementInv
<1>5. CASE InitializeFails(p)
  <2>1. /\ \A q \in Purchase : q # p => checkout'[q] = checkout[q]
        /\ checkout'[p].pc = "done"
    BY <1>5, SetCheckoutEffect DEF InitializeFails, CheckoutPc
  <2>2. /\ payment[p] = "none"
        /\ p \notin refundRequired
        /\ \A t \in Ticket : Order[t] = p => ticket[t] # "PAID"
    BY <1>5, ReservedPurchase DEF InitializeFails
  <2>3. /\ PaymentIsLast' /\ CallsHoldTheirPayment'
        /\ NoTicketWithRefund' /\ FailureFreesSeats'
    BY <1>5, <2>1 DEF InitializeFails, SettlementInv, PaymentIsLast, CallsHoldTheirPayment,
                      NoTicketWithRefund, FailureFreesSeats, DeleteTickets, Batch, TypeOK
  <2>4. RowsAreTogether'
    BY <1>5, <2>1, TicketingAssumption
       DEF InitializeFails, SettlementInv, RowsAreTogether, DeleteTickets, Batch, TypeOK
  <2>5. ConfirmedIsPaidFor'
    BY <1>5, <2>1, TicketingAssumption
       DEF InitializeFails, SettlementInv, ConfirmedIsPaidFor, Confirmed, Issued, DeleteTickets,
           Batch, TypeOK
  <2> QED
    BY <2>3, <2>4, <2>5 DEF SettlementInv
<1>6. CASE ConfirmReservedTickets(p)
  <2>1. /\ \A q \in Purchase : q # p => checkout'[q] = checkout[q]
        /\ checkout'[p].pc = "confirmed"
    BY <1>6, SetCheckoutEffect DEF ConfirmReservedTickets, CheckoutPc
  <2>2. payment[p] = "none" /\ p \notin refundRequired
    BY <1>6, ReservedPurchase DEF ConfirmReservedTickets
  <2>3. PaymentIsLast' /\ CallsHoldTheirPayment'
    BY <1>6, <2>1, <2>2 DEF ConfirmReservedTickets, SettlementInv, PaymentIsLast,
                            CallsHoldTheirPayment
  <2>4. NoTicketWithRefund' /\ FailureFreesSeats'
    BY <1>6 DEF ConfirmReservedTickets, SettlementInv, NoTicketWithRefund, FailureFreesSeats,
                MarkPaid, Batch, TypeOK
  <2>5. RowsAreTogether'
    BY <1>6, <2>1, TicketingAssumption
       DEF ConfirmReservedTickets, SettlementInv, RowsAreTogether, MarkPaid, Batch, TypeOK
  <2>6. ConfirmedIsPaidFor'
    BY <1>6, <2>1, TicketingAssumption
       DEF ConfirmReservedTickets, SettlementInv, ConfirmedIsPaidFor, Confirmed, Issued, MarkPaid,
           Batch, TypeOK
  <2> QED
    BY <2>3, <2>4, <2>5, <2>6 DEF SettlementInv
<1>7. CASE BookFreeEvent(p)
  <2>1. /\ \A q \in Purchase : q # p => checkout'[q] = checkout[q]
        /\ checkout'[p].pc = "booked"
    BY <1>7, SetCheckoutEffect DEF BookFreeEvent, CheckoutPc
  <2>2. /\ payment[p] = "none"
        /\ p \notin refundRequired
        /\ \A t \in Ticket : Order[t] = p => ticket[t] = "none"
    BY <1>7, FreshPurchase DEF BookFreeEvent
  <2>3. /\ PaymentIsLast' /\ CallsHoldTheirPayment'
        /\ NoTicketWithRefund' /\ FailureFreesSeats'
    BY <1>7, <2>1, <2>2 DEF BookFreeEvent, SettlementInv, PaymentIsLast, CallsHoldTheirPayment,
                            NoTicketWithRefund, FailureFreesSeats, Batch, TypeOK
  <2>4. RowsAreTogether'
    BY <1>7, <2>1, <2>2, TicketingAssumption
       DEF BookFreeEvent, SettlementInv, RowsAreTogether, Batch, TypeOK
  <2>5. ConfirmedIsPaidFor'
    BY <1>7, <2>1, TicketingAssumption
       DEF BookFreeEvent, SettlementInv, ConfirmedIsPaidFor, Confirmed, Issued, Batch, TypeOK
  <2> QED
    BY <2>3, <2>4, <2>5 DEF SettlementInv
<1>8. CASE ChargeMoves(p)
  BY <1>8 DEF ChargeMoves, SettlementInv, PaymentIsLast, RowsAreTogether, CallsHoldTheirPayment,
              ConfirmedIsPaidFor, NoTicketWithRefund, FailureFreesSeats, Confirmed, Issued, Batch
<1> QED
  BY <1>1, <1>2, <1>3, <1>4, <1>5, <1>6, <1>7, <1>8 DEF BookingStep

\* A call that ends holds nothing, and leaves the other calls as they were.
LEMMA ReturnEffect ==
    ASSUME TypeOK, NEW c \in Verifier, Return(c)
    PROVE  /\ call'[c].pc = "idle"
           /\ \A d \in Verifier : d # c => call'[d] = call[d]
BY NoCallIsACall, SetCallEffect DEF Return

\* A step that touches nothing but the progress of a call that holds no lock.
LEMMA CallsKeepSettlement ==
    ASSUME TypeOK, SettlementInv, CallsHoldTheirPayment',
           UNCHANGED <<ticket, reservedUntil, checkout, paymentVars>>
    PROVE  SettlementInv'
BY DEF SettlementInv, PaymentIsLast, RowsAreTogether, ConfirmedIsPaidFor, NoTicketWithRefund,
       FailureFreesSeats, Confirmed, Issued, Batch

\* Returning early, or dying, leaves the other calls with their locks.
LEMMA ReturnKeepsSettlement ==
    ASSUME TypeOK, SettlementInv, NEW c \in Verifier, Return(c),
           UNCHANGED <<ticket, reservedUntil, checkout, paymentVars>>
    PROVE  SettlementInv'
<1>1. CallsHoldTheirPayment'
  BY ReturnEffect DEF SettlementInv, CallsHoldTheirPayment
<1> QED
  BY <1>1, CallsKeepSettlement

\* Settling a payment as SUCCESS while its lock is free, or held by the caller.
LEMMA SettlingKeepsCalls ==
    ASSUME TypeOK, SettlementInv, NEW c \in Verifier, NEW p \in Purchase, NEW s,
           Return(c), s # "none", payment' = [payment EXCEPT ![p] = s],
           \A d \in Verifier : d # c /\ call[d].pc = "locked" => call[d].ref # p
    PROVE  CallsHoldTheirPayment'
<1>1. \A q \in Purchase : payment'[q] = IF q = p THEN s ELSE payment[q]
  BY DEF TypeOK
<1> QED
  BY <1>1, ReturnEffect DEF SettlementInv, CallsHoldTheirPayment

\* Flagging p for refund with its rows gone, or deleting them.
LEMMA RefundKeepsSettlement ==
    ASSUME TypeOK, SettlementInv, NEW p \in Purchase,
           payment[p] # "none", payment[p] # "SUCCESS",
           payment' = [payment EXCEPT ![p] = "SUCCESS"],
           refundRequired' = refundRequired \cup {p},
           NEW gone, gone \in {{}, Batch(p)}, DeleteTickets(gone),
           gone = {} => Gone(p),
           UNCHANGED checkout, CallsHoldTheirPayment'
    PROVE  SettlementInv'
<1>1. \A q \in Purchase : payment'[q] = IF q = p THEN "SUCCESS" ELSE payment[q]
  BY DEF TypeOK
<1>2. /\ checkout[p].pc = "done"
      /\ \A t \in Ticket : Order[t] = p => ticket[t] # "PAID"
  BY UnsettledPayment
<1>3. \A t \in Ticket : Order[t] = p => ticket'[t] = "none"
  BY DEF Gone, DeleteTickets, Batch, TypeOK
<1>4. \A t \in Ticket : Order[t] # p => ticket'[t] = ticket[t]
  BY DEF DeleteTickets, Batch, TypeOK
<1>5. PaymentIsLast'
  BY <1>1, <1>2 DEF SettlementInv, PaymentIsLast
<1>6. RowsAreTogether'
  BY <1>1, <1>3, <1>4, TicketingAssumption
     DEF SettlementInv, RowsAreTogether, DeleteTickets, Batch, TypeOK
<1>7. ConfirmedIsPaidFor'
  BY <1>1, <1>3, <1>4, TicketingAssumption DEF SettlementInv, ConfirmedIsPaidFor, Confirmed, Issued
<1>8. NoTicketWithRefund' /\ FailureFreesSeats'
  BY <1>1, <1>3, <1>4 DEF SettlementInv, NoTicketWithRefund, FailureFreesSeats, Batch
<1> QED
  BY <1>5, <1>6, <1>7, <1>8 DEF SettlementInv

\* A verify call's step keeps the settlement invariant.
LEMMA VerifyKeepsSettlement ==
    ASSUME TypeOK, SettlementInv, MissingStaysMissing, NEW c \in Verifier, VerifyStep(c)
    PROVE  SettlementInv'
<1> DEFINE p == call[c].ref
<1>0. call[c].pc # "idle" => p \in Purchase /\ payment[p] # "none"
  BY DEF SettlementInv, CallsHoldTheirPayment
<1>1. CASE ProviderAnswers(c)
  <2>1. PICK r : /\ call' = [call EXCEPT ![c] = r]
                 /\ r.pc \in {"idle", "record", "settle", "activate"}
                 /\ r.pc # "idle" => r.ref = p
    <3> DEFINE record(a) == [call[c] EXCEPT !.pc = "record", !.published = FALSE, !.answer = a]
               settle == [call[c] EXCEPT !.pc = "settle", !.published = FALSE]
               activate == [call[c] EXCEPT !.pc = "activate", !.published = FALSE, !.now = clock]
    <3>1. call[c] \in Call
      BY DEF TypeOK
    <3>2. \A a : record(a).pc = "record" /\ record(a).ref = p
      BY <3>1 DEF Call
    <3>3. settle.pc = "settle" /\ settle.ref = p /\ activate.pc = "activate" /\ activate.ref = p
      BY <3>1 DEF Call
    <3>4. \/ SetCall(c, NoCall)
          \/ \E a : SetCall(c, record(a))
          \/ SetCall(c, settle)
          \/ SetCall(c, activate)
      BY <1>1 DEF ProviderAnswers, Return
    <3> HIDE DEF record, settle, activate
    <3> QED
      BY <3>2, <3>3, <3>4, NoCallIsACall DEF SetCall
  <2>2. CallsHoldTheirPayment'
    BY <1>0, <1>1, <2>1 DEF ProviderAnswers, SettlementInv, CallsHoldTheirPayment, TypeOK
  <2> QED
    BY <1>1, <2>2, CallsKeepSettlement DEF ProviderAnswers
<1>2. CASE RecordNonSuccess(c)
  <2> DEFINE gone == IF call[c].missing THEN {} ELSE Batch(p) \cap Reserved
  <2>1. CASE Settled(p)
    BY <1>2, <2>1, ReturnKeepsSettlement DEF RecordNonSuccess
  <2>2. CASE ~Settled(p)
    <3>1. /\ p \in Purchase
          /\ payment[p] # "none" /\ payment[p] # "SUCCESS"
          /\ \A d \in Verifier : d # c /\ call[d].pc = "locked" => call[d].ref # p
      BY <1>0, <1>2, <2>2 DEF RecordNonSuccess, Settled, PaymentLocked
    <3>2. call[c].answer \in {"FAILED", "ABANDONED"}
      BY DEF TypeOK, Call
    <3>3. \A q \in Purchase : payment'[q] = IF q = p THEN call[c].answer ELSE payment[q]
      BY <1>2, <2>2 DEF RecordNonSuccess, TypeOK
    <3>4. CallsHoldTheirPayment'
      BY <1>2, <2>2, <3>1, <3>2, SettlingKeepsCalls DEF RecordNonSuccess
    <3>5. \A t \in Ticket : Order[t] = p => ticket[t] # "PAID"
      BY <3>1, UnsettledPayment
    <3>6. \A t \in Ticket : ticket'[t] = IF Order[t] = p THEN "none" ELSE ticket[t]
      <4>1. call[c].missing => Gone(p)
        BY <1>2 DEF RecordNonSuccess, MissingStaysMissing, SawMissing
      <4> QED
        BY <1>2, <2>2, <3>5, <4>1 DEF RecordNonSuccess, DeleteTickets, Batch, Reserved, Gone, TypeOK
    <3>7. \A t \in Ticket : Order[t] # p => reservedUntil'[t] = reservedUntil[t]
      BY <1>2, <2>2 DEF RecordNonSuccess, DeleteTickets, Batch, TypeOK
    <3>8. \A s, t \in Ticket : Order[s] = p /\ Order[t] = p => reservedUntil'[s] = reservedUntil'[t]
      BY <1>2, <2>2 DEF RecordNonSuccess, DeleteTickets, Batch, Reserved, SettlementInv,
                        RowsAreTogether, TypeOK
    <3>9. PaymentIsLast'
      BY <1>2, <3>1, <3>3 DEF RecordNonSuccess, SettlementInv, PaymentIsLast
    <3>10. RowsAreTogether'
      BY <1>2, <3>3, <3>6, <3>7, <3>8, TicketingAssumption
         DEF RecordNonSuccess, SettlementInv, RowsAreTogether
    <3>11. ConfirmedIsPaidFor'
      BY <1>2, <3>3, <3>6, TicketingAssumption
         DEF RecordNonSuccess, SettlementInv, ConfirmedIsPaidFor, Confirmed, Issued
    <3>12. NoTicketWithRefund'
      <4>1. p \notin refundRequired
        BY <3>1, UnsettledPayment
      <4> QED
        BY <1>2, <4>1, <3>3, <3>6 DEF RecordNonSuccess, SettlementInv, NoTicketWithRefund, Batch, TypeOK
    <3>13. FailureFreesSeats'
      BY <3>3, <3>6 DEF SettlementInv, FailureFreesSeats, Batch
    <3> QED
      BY <3>4, <3>9, <3>10, <3>11, <3>12, <3>13 DEF SettlementInv
  <2> QED
    BY <2>1, <2>2
<1>3. CASE SettleRefund(c)
  <2> DEFINE gone == IF call[c].missing THEN {} ELSE Batch(p)
  <2>1. CASE Settled(p)
    BY <1>3, <2>1, ReturnKeepsSettlement DEF SettleRefund
  <2>2. CASE ~Settled(p)
    <3>1. /\ p \in Purchase
          /\ payment[p] # "none" /\ payment[p] # "SUCCESS"
          /\ \A d \in Verifier : d # c /\ call[d].pc = "locked" => call[d].ref # p
      BY <1>0, <1>3, <2>2 DEF SettleRefund, Settled, PaymentLocked
    <3>2. CallsHoldTheirPayment'
      BY <1>3, <2>2, <3>1, SettlingKeepsCalls DEF SettleRefund
    <3>3. call[c].missing => Gone(p)
      BY <1>3 DEF SettleRefund, MissingStaysMissing, SawMissing
    <3>4. gone \in {{}, Batch(p)} /\ DeleteTickets(gone) /\ (gone = {} => Gone(p))
      BY <1>3, <2>2, <3>3 DEF SettleRefund, Gone, Batch
    <3> HIDE DEF gone
    <3> QED
      BY <1>3, <2>2, <3>1, <3>2, <3>4, RefundKeepsSettlement DEF SettleRefund
  <2> QED
    BY <2>1, <2>2
<1>4. CASE ActivationLock(c)
  <2>1. CASE Settled(p)
    BY <1>4, <2>1, ReturnKeepsSettlement DEF ActivationLock
  <2>2. CASE ~Settled(p)
    <3> DEFINE found == {t \in Batch(p) : ticket[t] # "none"}
               held == (found \cap Reserved) \ Expired(call[c].now)
               r == [call[c] EXCEPT !.pc = "locked", !.cap = capacity, !.found = found, !.held = held]
    <3>1. call' = [call EXCEPT ![c] = r] /\ r.pc = "locked" /\ r.ref = p
      <4>1. call[c] \in Call
        BY DEF TypeOK
      <4>2. call' = [call EXCEPT ![c] = r]
        BY <1>4, <2>2 DEF ActivationLock, SetCall
      <4> HIDE DEF found, held
      <4>3. r.pc = "locked" /\ r.ref = p
        BY <4>1 DEF Call
      <4> QED
        BY <4>2, <4>3
    <3> HIDE DEF r
    <3>2. CallsHoldTheirPayment'
      BY <1>0, <1>4, <2>2, <3>1
         DEF ActivationLock, Settled, PaymentLocked, SettlementInv, CallsHoldTheirPayment, TypeOK
    <3> QED
      BY <1>4, <3>2, CallsKeepSettlement DEF ActivationLock
  <2> QED
    BY <2>1, <2>2
<1>5. CASE ActivationRefund(c)
  <2> DEFINE gone == IF call[c].found = Batch(p) THEN Batch(p) ELSE {}
  <2>1. /\ p \in Purchase
        /\ payment[p] # "none" /\ payment[p] # "SUCCESS"
        /\ \A d \in Verifier : d # c /\ call[d].pc = "locked" => call[d].ref # p
    BY <1>5 DEF ActivationRefund, SettlementInv, CallsHoldTheirPayment
  <2>2. CallsHoldTheirPayment'
    BY <1>5, <2>1, SettlingKeepsCalls DEF ActivationRefund
  <2>3. gone \in {{}, Batch(p)} /\ DeleteTickets(gone) /\ (gone = {} => Gone(p))
    BY <1>5 DEF ActivationRefund, MissingStaysMissing, SawMissing, Gone, Batch
  <2> HIDE DEF gone
  <2> QED
    BY <1>5, <2>1, <2>2, <2>3, RefundKeepsSettlement DEF ActivationRefund
<1>6. CASE ActivationCommit(c)
  <2>1. /\ p \in Purchase
        /\ payment[p] # "none" /\ payment[p] # "SUCCESS"
        /\ \A d \in Verifier : d # c /\ call[d].pc = "locked" => call[d].ref # p
    BY <1>6 DEF ActivationCommit, SettlementInv, CallsHoldTheirPayment
  <2>2. CallsHoldTheirPayment'
    BY <1>6, <2>1, SettlingKeepsCalls DEF ActivationCommit
  <2>3. checkout[p].pc = "done" /\ p \notin refundRequired
    BY <2>1, UnsettledPayment
  <2>4. \A q \in Purchase : payment'[q] = IF q = p THEN "SUCCESS" ELSE payment[q]
    BY <1>6 DEF ActivationCommit, TypeOK
  <2>5. \A t \in Ticket : ticket'[t] = IF Order[t] = p /\ ticket[t] # "none" THEN "PAID" ELSE ticket[t]
    BY <1>6 DEF ActivationCommit, MarkPaid, Batch
  <2>6. PaymentIsLast'
    BY <1>6, <2>3, <2>4 DEF ActivationCommit, SettlementInv, PaymentIsLast
  <2>7. RowsAreTogether'
    BY <1>6, <2>4, <2>5, TicketingAssumption
       DEF ActivationCommit, MarkPaid, SettlementInv, RowsAreTogether, Batch, TypeOK
  <2>8. ConfirmedIsPaidFor'
    BY <1>6, <2>3, <2>4, <2>5, TicketingAssumption
       DEF ActivationCommit, SettlementInv, ConfirmedIsPaidFor, Confirmed, Issued
  <2>9. NoTicketWithRefund' /\ FailureFreesSeats'
    BY <1>6, <2>3, <2>4, <2>5
       DEF ActivationCommit, SettlementInv, NoTicketWithRefund, FailureFreesSeats, Batch
  <2> QED
    BY <2>2, <2>6, <2>7, <2>8, <2>9 DEF SettlementInv
<1> QED
  BY <1>1, <1>2, <1>3, <1>4, <1>5, <1>6 DEF VerifyStep

\* No step disturbs the settlement invariant.
LEMMA StepKeepsSettlement ==
    ASSUME TypeOK, SettlementInv, MissingStaysMissing, [Next]_vars
    PROVE  SettlementInv'
<1>1. CASE \E p \in Purchase : BookingStep(p)
  BY <1>1, BookingKeepsSettlement
<1>2. ASSUME NEW c \in Verifier, NEW p \in Purchase, VerifyStart(c, p)
      PROVE  SettlementInv'
  <2> DEFINE missing == \E t \in Batch(p) : ticket[t] = "none"
             published == eventStatus = "PUBLISHED"
             r == [IdleCall(p) EXCEPT !.pc = "provider", !.missing = missing, !.published = published]
  <2>1. call' = [call EXCEPT ![c] = r] /\ r.pc = "provider" /\ r.ref = p
    BY <1>2 DEF VerifyStart, SetCall, IdleCall
  <2> HIDE DEF r
  <2>2. CallsHoldTheirPayment'
    BY <1>2, <2>1 DEF VerifyStart, SettlementInv, CallsHoldTheirPayment, TypeOK
  <2> QED
    BY <1>2, <2>2, CallsKeepSettlement DEF VerifyStart
<1>3. CASE \E c \in Verifier : VerifyStep(c)
  BY <1>3, VerifyKeepsSettlement
<1>4. CASE \E c \in Verifier : CallDies(c)
  BY <1>4, ReturnKeepsSettlement DEF CallDies
<1>5. CASE CleanupExpired
  <2>1. /\ \A t \in Expired(clock) : ticket[t] # "PAID"
        /\ \A s, t \in Ticket : Order[s] = Order[t] => (s \in Expired(clock) <=> t \in Expired(clock))
    BY DEF Expired, Reserved, SettlementInv, RowsAreTogether
  <2> QED
    BY <1>5, <2>1, DeletingKeepsSettlement DEF CleanupExpired
<1>6. CASE CancelEvent
  <2>1. /\ \A t \in Reserved : ticket[t] # "PAID"
        /\ \A s, t \in Ticket : Order[s] = Order[t] => (s \in Reserved <=> t \in Reserved)
    BY DEF Reserved, SettlementInv, RowsAreTogether
  <2> QED
    BY <1>6, <2>1, DeletingKeepsSettlement DEF CancelEvent
<1>7. CASE (\E n \in Capacities : SyncCount(n)) \/ SyncCommit \/ Tick \/ UNCHANGED vars
  <2>1. UNCHANGED <<ticket, reservedUntil, checkout, call, paymentVars>>
    BY <1>7 DEF SyncCount, SyncCommit, Tick, vars
  <2>2. CallsHoldTheirPayment'
    BY <2>1 DEF SettlementInv, CallsHoldTheirPayment
  <2> QED
    BY <2>1, <2>2, CallsKeepSettlement
<1> QED
  BY <1>1, <1>2, <1>3, <1>4, <1>5, <1>6, <1>7 DEF Next

-----------------------------------------------------------------------------
(* What a verify call saw missing stays missing. *)

\* The rows of a purchase that has a payment never come back.
LEMMA GoneStaysGone ==
    ASSUME TypeOK, SettlementInv, [Next]_vars, NEW q \in Purchase, payment[q] # "none", Gone(q)
    PROVE  Gone(q)'
<1>1. checkout[q].pc = "done"
  BY DEF SettlementInv, PaymentIsLast
<1>2. ASSUME NEW p \in Purchase, BookingStep(p)
      PROVE  Gone(q)'
  <2>1. CASE ReserveTickets(p) \/ BookFreeEvent(p)
    <3>1. p # q
      BY <1>1, <2>1 DEF ReserveTickets, BookFreeEvent
    <3> QED
      BY <2>1, <3>1 DEF ReserveTickets, BookFreeEvent, Gone, Batch
  <2>2. CASE InitializeFails(p) \/ ConfirmReservedTickets(p)
    BY <2>2 DEF InitializeFails, ConfirmReservedTickets, DeleteTickets, MarkPaid, Gone, Batch
  <2>3. CASE \/ StartCheckout(p) \/ ReserveRejected(p) \/ CreatePayment(p) \/ StartFreeBooking(p)
             \/ BookFreeRejected(p) \/ CheckoutDies(p) \/ ChargeMoves(p)
    BY <2>3 DEF StartCheckout, ReserveRejected, CreatePayment, StartFreeBooking,
                BookFreeRejected, CheckoutDies, ChargeMoves, Gone
  <2> QED
    BY <1>2, <2>1, <2>2, <2>3 DEF BookingStep
<1>3. ASSUME NEW c \in Verifier, VerifyStep(c)
      PROVE  Gone(q)'
  <2>1. CASE ProviderAnswers(c) \/ ActivationLock(c)
    BY <2>1 DEF ProviderAnswers, ActivationLock, Gone
  <2>2. CASE RecordNonSuccess(c) \/ SettleRefund(c)
    BY <2>2 DEF RecordNonSuccess, SettleRefund, DeleteTickets, Gone
  <2>3. CASE ActivationRefund(c) \/ ActivationCommit(c)
    BY <2>3 DEF ActivationRefund, ActivationCommit, DeleteTickets, MarkPaid, Gone
  <2> QED
    BY <1>3, <2>1, <2>2, <2>3 DEF VerifyStep
<1>4. CASE CleanupExpired \/ CancelEvent
  BY <1>4 DEF CleanupExpired, CancelEvent, DeleteTickets, Gone
<1>5. CASE \/ \E c \in Verifier, p \in Purchase : VerifyStart(c, p)
           \/ \E c \in Verifier : CallDies(c)
           \/ \E n \in Capacities : SyncCount(n)
           \/ SyncCommit \/ Tick \/ UNCHANGED vars
  BY <1>5 DEF VerifyStart, CallDies, SyncCount, SyncCommit, Tick, vars, Gone
<1> QED
  BY <1>2, <1>3, <1>4, <1>5 DEF Next

\* Rows are created together, so one that is missing means all are.
LEMMA OneMissingAllGone ==
    ASSUME TypeOK, SettlementInv, NEW p \in Purchase, NEW t \in Ticket,
           Order[t] = p, ticket[t] = "none"
    PROVE  Gone(p)
BY DEF SettlementInv, RowsAreTogether, Gone

\* A call keeps what it saw across any step that leaves the call alone.
LEMMA UntouchedCallKeepsMissing ==
    ASSUME TypeOK, SettlementInv, MissingStaysMissing, [Next]_vars,
           NEW d \in Verifier, call'[d] = call[d]
    PROVE  SawMissing(d)'
<1>1. CASE call[d].pc = "idle"
  BY <1>1 DEF SawMissing
<1>2. CASE call[d].pc # "idle"
  <2>1. call[d].ref \in Purchase /\ payment[call[d].ref] # "none"
    BY <1>2 DEF SettlementInv, CallsHoldTheirPayment
  <2>2. PICK q \in Purchase : q = call[d].ref
    BY <2>1
  <2>3. Gone(q) => Gone(q)'
    BY <2>1, <2>2, GoneStaysGone
  <2> QED
    BY <1>2, <2>2, <2>3 DEF MissingStaysMissing, SawMissing, Batch, Gone
<1> QED
  BY <1>1, <1>2

\* No step disturbs what calls saw.
LEMMA StepKeepsMissing ==
    ASSUME TypeOK, SettlementInv, MissingStaysMissing, [Next]_vars
    PROVE  MissingStaysMissing'
<1>1. SUFFICES ASSUME NEW d \in Verifier, call'[d] # call[d]
               PROVE  SawMissing(d)'
  BY UntouchedCallKeepsMissing DEF MissingStaysMissing
<1>2. ASSUME NEW p \in Purchase, BookingStep(p)
      PROVE  FALSE
  BY <1>1, <1>2 DEF BookingStep, StartCheckout, ReserveTickets, ReserveRejected, CreatePayment,
                    InitializeFails, ConfirmReservedTickets, StartFreeBooking, BookFreeEvent,
                    BookFreeRejected, CheckoutDies, ChargeMoves
<1>3. CASE CleanupExpired \/ CancelEvent \/ (\E n \in Capacities : SyncCount(n)) \/ SyncCommit
           \/ Tick \/ UNCHANGED vars
  BY <1>1, <1>3 DEF CleanupExpired, CancelEvent, SyncCount, SyncCommit, Tick, vars
<1>4. ASSUME NEW c \in Verifier, NEW p \in Purchase, VerifyStart(c, p)
      PROVE  SawMissing(d)'
  <2> DEFINE missing == \E t \in Batch(p) : ticket[t] = "none"
             published == eventStatus = "PUBLISHED"
             r == [IdleCall(p) EXCEPT !.pc = "provider", !.missing = missing, !.published = published]
  <2>1. /\ call' = [call EXCEPT ![c] = r]
        /\ r.pc = "provider" /\ r.ref = p /\ (r.missing <=> missing)
    <3>1. call' = [call EXCEPT ![c] = r]
      BY <1>4 DEF VerifyStart, SetCall
    <3>2. r.pc = "provider" /\ r.ref = p
      BY DEF IdleCall
    <3>3. r.missing = missing
      BY DEF IdleCall
    <3> QED
      BY <3>1, <3>2, <3>3
  <2>2. missing => Gone(p)
    BY OneMissingAllGone DEF Batch
  <2>3. ticket' = ticket
    BY <1>4 DEF VerifyStart
  <2> HIDE DEF r, missing
  <2>4. c = d /\ call'[d] = r
    BY <1>1, <2>1 DEF TypeOK
  <2> QED
    BY <2>1, <2>2, <2>3, <2>4 DEF SawMissing, Gone
<1>5. ASSUME NEW c \in Verifier, Return(c)
      PROVE  SawMissing(d)'
  <2>1. call'[d].pc = "idle"
    BY <1>1, <1>5, ReturnEffect
  <2> QED
    BY <2>1 DEF SawMissing
<1>6. ASSUME NEW c \in Verifier, ProviderAnswers(c)
      PROVE  SawMissing(d)'
  <2>1. PICK p \in Purchase : p = call[c].ref
    BY <1>6 DEF ProviderAnswers, SettlementInv, CallsHoldTheirPayment
  <2> DEFINE record(a) == [call[c] EXCEPT !.pc = "record", !.published = FALSE, !.answer = a]
             settle == [call[c] EXCEPT !.pc = "settle", !.published = FALSE]
             activate == [call[c] EXCEPT !.pc = "activate", !.published = FALSE, !.now = clock]
             keeps(r) == r.pc # "locked" /\ r.ref = p /\ r.missing = call[c].missing
  <2>2. call[c] \in Call
    BY DEF TypeOK
  <2>3. \A a : keeps(record(a))
    BY <2>1, <2>2 DEF Call
  <2>4. keeps(settle) /\ keeps(activate)
    BY <2>1, <2>2 DEF Call
  <2>5. \/ Return(c)
        \/ \E a : SetCall(c, record(a))
        \/ SetCall(c, settle)
        \/ SetCall(c, activate)
    BY <1>6, <2>1 DEF ProviderAnswers
  <2>6. ASSUME NEW r, SetCall(c, r), keeps(r)
        PROVE  SawMissing(d)'
    <3>1. c = d /\ call'[d] = r
      BY <1>1, <2>6 DEF SetCall, TypeOK
    <3>2. call[c].missing => Gone(p)
      BY <1>6, <2>1 DEF ProviderAnswers, MissingStaysMissing, SawMissing
    <3>3. ticket' = ticket
      BY <1>6 DEF ProviderAnswers
    <3> QED
      BY <2>6, <3>1, <3>2, <3>3 DEF SawMissing, Gone
  <2> HIDE DEF record, settle, activate
  <2> QED
    BY <1>5, <2>3, <2>4, <2>5, <2>6
<1>7. ASSUME NEW c \in Verifier, ActivationLock(c)
      PROVE  SawMissing(d)'
  <2>1. CASE Settled(call[c].ref)
    BY <1>5, <1>7, <2>1 DEF ActivationLock
  <2>2. CASE ~Settled(call[c].ref)
    <3>1. PICK p \in Purchase : p = call[c].ref
      BY <1>7 DEF ActivationLock, SettlementInv, CallsHoldTheirPayment
    <3> DEFINE found == {t \in Batch(p) : ticket[t] # "none"}
               held == (found \cap Reserved) \ Expired(call[c].now)
               r == [call[c] EXCEPT !.pc = "locked", !.cap = capacity, !.found = found, !.held = held]
    <3>2. call' = [call EXCEPT ![c] = r]
      BY <1>7, <2>2, <3>1 DEF ActivationLock, SetCall
    <3>3. found \subseteq Batch(p) /\ (found # Batch(p) => Gone(p))
      BY OneMissingAllGone DEF Batch
    <3>4. call[c].missing => Gone(p)
      BY <1>7, <3>1 DEF ActivationLock, MissingStaysMissing, SawMissing
    <3>5. call[c] \in Call
      BY DEF TypeOK
    <3> HIDE DEF found, held
    <3>6. r.pc = "locked" /\ r.ref = p /\ r.found = found
      BY <3>1, <3>5 DEF Call
    <3>7. r.missing = call[c].missing
      BY <3>5 DEF Call
    <3> HIDE DEF r
    <3>8. c = d /\ call'[d] = r
      BY <1>1, <3>2 DEF TypeOK
    <3>9. ticket' = ticket
      BY <1>7 DEF ActivationLock
    <3> QED
      BY <3>3, <3>4, <3>6, <3>7, <3>8, <3>9 DEF SawMissing, Gone, Batch
  <2> QED
    BY <2>1, <2>2
<1>8. CASE \E c \in Verifier : \/ RecordNonSuccess(c) \/ SettleRefund(c)
                               \/ ActivationRefund(c) \/ ActivationCommit(c) \/ CallDies(c)
  BY <1>5, <1>8 DEF RecordNonSuccess, SettleRefund, ActivationRefund, ActivationCommit, CallDies
<1> QED
  BY <1>2, <1>3, <1>4, <1>6, <1>7, <1>8 DEF Next, VerifyStep

-----------------------------------------------------------------------------
(* Every step settles at most one purchase, once, and counts it. *)

SameOutcomes == /\ soldCount' = soldCount
                /\ \A q \in Purchase : Outcome(q)' = Outcome(q)

\* p is settled with the given outcome, and n more tickets are counted.
Settles(p, outcome, n) ==
    /\ Outcome(p) = "open"
    /\ Outcome(p)' = outcome
    /\ \A q \in Purchase : q # p => Outcome(q)' = Outcome(q)
    /\ soldCount' = soldCount + n

SettlesAtMostOne ==
    \/ SameOutcomes
    \/ \E p \in Purchase : Settles(p, "issued", Quantity(p)) \/ Settles(p, "refund", 0)

\* A booking step issues the tickets of its own purchase, or settles nothing.
LEMMA BookingSettles ==
    ASSUME TypeOK, SettlementInv, NEW p \in Purchase, BookingStep(p)
    PROVE  SettlesAtMostOne
<1>1. CASE StartCheckout(p) \/ StartFreeBooking(p)
  <2>1. /\ \A q \in Purchase : q # p => checkout'[q] = checkout[q]
        /\ checkout'[p].pc \in {"reserving", "booking"}
        /\ checkout[p].pc = "idle"
    BY <1>1 DEF StartCheckout, StartFreeBooking, TypeOK
  <2> QED
    BY <1>1, <2>1 DEF StartCheckout, StartFreeBooking, SettlesAtMostOne, SameOutcomes, Outcome, Issued
<1>2. CASE \/ ReserveTickets(p) \/ ReserveRejected(p) \/ BookFreeRejected(p)
           \/ InitializeFails(p) \/ CheckoutDies(p)
  <2>1. PICK pc \in {"reserved", "done"} : SetCheckout(p, pc)
    BY <1>2 DEF ReserveTickets, ReserveRejected, BookFreeRejected, InitializeFails, CheckoutDies
  <2>2. /\ \A q \in Purchase : q # p => checkout'[q] = checkout[q]
        /\ checkout'[p].pc = pc
    BY <2>1, SetCheckoutEffect DEF CheckoutPc
  <2>3. checkout[p].pc \in {"reserving", "reserved", "booking"}
    BY <1>2 DEF ReserveTickets, ReserveRejected, BookFreeRejected, InitializeFails, CheckoutDies
  <2>4. UNCHANGED <<soldCount, payment, refundRequired>>
    BY <1>2 DEF ReserveTickets, ReserveRejected, BookFreeRejected, InitializeFails, CheckoutDies
  <2> QED
    BY <2>2, <2>3, <2>4 DEF SettlesAtMostOne, SameOutcomes, Outcome, Issued
<1>3. CASE CreatePayment(p)
  <2>1. /\ \A q \in Purchase : q # p => checkout'[q] = checkout[q]
        /\ checkout'[p].pc = "done"
    BY <1>3, SetCheckoutEffect DEF CreatePayment, CheckoutPc
  <2>2. payment[p] = "none" /\ checkout[p].pc = "reserved"
    BY <1>3, ReservedPurchase DEF CreatePayment
  <2>3. \A q \in Purchase : payment'[q] = IF q = p THEN "PENDING" ELSE payment[q]
    BY <1>3 DEF CreatePayment, TypeOK
  <2> QED
    BY <1>3, <2>1, <2>2, <2>3 DEF CreatePayment, SettlesAtMostOne, SameOutcomes, Outcome, Issued
<1>4. CASE ConfirmReservedTickets(p) \/ BookFreeEvent(p)
  <2>1. PICK pc \in {"confirmed", "booked"} : SetCheckout(p, pc)
    BY <1>4 DEF ConfirmReservedTickets, BookFreeEvent
  <2>2. /\ \A q \in Purchase : q # p => checkout'[q] = checkout[q]
        /\ checkout'[p].pc = pc
    BY <2>1, SetCheckoutEffect DEF CheckoutPc
  <2>3. /\ checkout[p].pc \in {"reserved", "booking"}
        /\ payment[p] = "none"
        /\ p \notin refundRequired
    BY <1>4, FreshPurchase, ReservedPurchase DEF ConfirmReservedTickets, BookFreeEvent
  <2>4. /\ UNCHANGED <<payment, refundRequired>>
        /\ soldCount' = soldCount + Quantity(p)
    BY <1>4 DEF ConfirmReservedTickets, BookFreeEvent, Quantity
  <2> QED
    BY <2>2, <2>3, <2>4 DEF SettlesAtMostOne, Settles, Outcome, Issued
<1>5. CASE ChargeMoves(p)
  BY <1>5 DEF ChargeMoves, SettlesAtMostOne, SameOutcomes, Outcome, Issued
<1> QED
  BY <1>1, <1>2, <1>3, <1>4, <1>5 DEF BookingStep

\* A verify step issues or refunds the purchase it verifies, or settles nothing.
LEMMA VerifySettles ==
    ASSUME TypeOK, SettlementInv, NEW c \in Verifier, VerifyStep(c)
    PROVE  SettlesAtMostOne
<1>1. CASE ProviderAnswers(c) \/ ActivationLock(c)
  BY <1>1 DEF ProviderAnswers, ActivationLock, SettlesAtMostOne, SameOutcomes, Outcome, Issued
<1>2. PICK p : p = call[c].ref
  OBVIOUS
<1>3. CASE RecordNonSuccess(c)
  <2>1. p \in Purchase /\ payment[p] # "none"
    BY <1>2, <1>3 DEF RecordNonSuccess, SettlementInv, CallsHoldTheirPayment
  <2>2. CASE Settled(p)
    BY <1>2, <1>3, <2>2 DEF RecordNonSuccess, SettlesAtMostOne, SameOutcomes, Outcome, Issued
  <2>3. CASE ~Settled(p)
    <3>1. call[c].answer \in {"FAILED", "ABANDONED"}
      BY DEF TypeOK, Call
    <3>2. \A q \in Purchase : payment'[q] = IF q = p THEN call[c].answer ELSE payment[q]
      BY <1>2, <1>3, <2>3 DEF RecordNonSuccess, TypeOK
    <3>3. payment[p] # "SUCCESS" /\ UNCHANGED <<soldCount, checkout, refundRequired>>
      BY <1>3, <2>3 DEF RecordNonSuccess, Settled
    <3> QED
      BY <3>1, <3>2, <3>3 DEF SettlesAtMostOne, SameOutcomes, Outcome, Issued
  <2> QED
    BY <2>2, <2>3
<1>4. CASE (SettleRefund(c) /\ ~Settled(p)) \/ ActivationRefund(c)
  <2>1. p \in Purchase /\ payment[p] # "none" /\ payment[p] # "SUCCESS"
    BY <1>2, <1>4 DEF SettleRefund, Settled, ActivationRefund, SettlementInv, CallsHoldTheirPayment
  <2>2. checkout[p].pc = "done" /\ p \notin refundRequired
    BY <2>1, UnsettledPayment
  <2>3. \A q \in Purchase : payment'[q] = IF q = p THEN "SUCCESS" ELSE payment[q]
    BY <1>2, <1>4 DEF SettleRefund, ActivationRefund, TypeOK
  <2>4. refundRequired' = refundRequired \cup {p} /\ UNCHANGED <<soldCount, checkout>>
    BY <1>2, <1>4 DEF SettleRefund, ActivationRefund
  <2>5. soldCount' = soldCount + 0
    BY <2>4 DEF TypeOK
  <2>6. Settles(p, "refund", 0)
    BY <2>1, <2>2, <2>3, <2>4, <2>5 DEF Settles, Outcome, Issued
  <2> QED
    BY <2>1, <2>6 DEF SettlesAtMostOne
<1>5. CASE SettleRefund(c) /\ Settled(p)
  BY <1>2, <1>5 DEF SettleRefund, SettlesAtMostOne, SameOutcomes, Outcome, Issued
<1>6. CASE ActivationCommit(c)
  <2>1. p \in Purchase /\ payment[p] # "none" /\ payment[p] # "SUCCESS"
    BY <1>2, <1>6 DEF ActivationCommit, SettlementInv, CallsHoldTheirPayment
  <2>2. checkout[p].pc = "done" /\ p \notin refundRequired
    BY <2>1, UnsettledPayment
  <2>3. \A q \in Purchase : payment'[q] = IF q = p THEN "SUCCESS" ELSE payment[q]
    BY <1>2, <1>6 DEF ActivationCommit, TypeOK
  <2>4. soldCount' = soldCount + Quantity(p) /\ UNCHANGED <<checkout, refundRequired>>
    BY <1>2, <1>6 DEF ActivationCommit, ActivationRefused, Quantity
  <2>5. Settles(p, "issued", Quantity(p))
    BY <2>1, <2>2, <2>3, <2>4 DEF Settles, Outcome, Issued
  <2> QED
    BY <2>1, <2>5 DEF SettlesAtMostOne
<1> QED
  BY <1>1, <1>3, <1>4, <1>5, <1>6 DEF VerifyStep

\* So does every step.
LEMMA StepSettles ==
    ASSUME TypeOK, SettlementInv, [Next]_vars
    PROVE  SettlesAtMostOne
<1>1. CASE \E p \in Purchase : BookingStep(p)
  BY <1>1, BookingSettles
<1>2. CASE \E c \in Verifier : VerifyStep(c)
  BY <1>2, VerifySettles
<1>3. CASE \/ \E c \in Verifier, p \in Purchase : VerifyStart(c, p)
           \/ \E c \in Verifier : CallDies(c)
           \/ \E n \in Capacities : SyncCount(n)
           \/ CleanupExpired \/ CancelEvent \/ SyncCommit \/ Tick \/ UNCHANGED vars
  <2>1. UNCHANGED <<soldCount, payment, refundRequired, checkout>>
    BY <1>3 DEF VerifyStart, CallDies, SyncCount, CleanupExpired, CancelEvent, SyncCommit, Tick, vars
  <2> QED
    BY <2>1 DEF SettlesAtMostOne, SameOutcomes, Outcome, Issued
<1> QED
  BY <1>1, <1>2, <1>3 DEF Next

\* A purchase due a refund has not been issued.
LEMMA IssuedOutcome ==
    ASSUME TypeOK, SettlementInv, NEW p \in Purchase
    PROVE  Issued(p) <=> Outcome(p) = "issued"
BY DEF SettlementInv, NoTicketWithRefund, PaymentIsLast, Outcome, Issued

\* The sold count stays the number of issued tickets.
LEMMA StepKeepsCount ==
    ASSUME TypeOK, SettlementInv, SettlementInv', TypeOK', SoldCountCountsEachIssueOnce,
           SettlesAtMostOne
    PROVE  SoldCountCountsEachIssueOnce'
<1> DEFINE T == {t \in Ticket : Issued(Order[t])}
           T1 == {t \in Ticket : Outcome(Order[t])' = "issued"}
<1>1. T = {t \in Ticket : Outcome(Order[t]) = "issued"}
  BY IssuedOutcome, TicketingAssumption
<1>2. T' = T1
  BY TicketingAssumption DEF SettlementInv, NoTicketWithRefund, PaymentIsLast, Outcome, Issued, TypeOK
<1>3. IsFiniteSet(T) /\ soldCount = Cardinality(T)
  <2>1. T \subseteq Ticket
    OBVIOUS
  <2> QED
    BY <2>1, FS_Subset, TicketingAssumption DEF SoldCountCountsEachIssueOnce
<1>4. CASE SameOutcomes
  <2>1. T1 = T
    BY <1>1, <1>4, TicketingAssumption DEF SameOutcomes
  <2> QED
    BY <1>2, <1>3, <1>4, <2>1 DEF SameOutcomes, SoldCountCountsEachIssueOnce
<1>5. ASSUME NEW p \in Purchase, Settles(p, "refund", 0)
      PROVE  SoldCountCountsEachIssueOnce'
  <2>1. T1 = T
    BY <1>1, <1>5, TicketingAssumption DEF Settles
  <2>2. soldCount' = soldCount
    BY <1>5 DEF Settles, TypeOK
  <2> QED
    BY <1>2, <1>3, <2>1, <2>2 DEF SoldCountCountsEachIssueOnce
<1>6. ASSUME NEW p \in Purchase, Settles(p, "issued", Quantity(p))
      PROVE  SoldCountCountsEachIssueOnce'
  <2>1. T1 = T \cup Batch(p) /\ T \cap Batch(p) = {}
    BY <1>1, <1>6, TicketingAssumption DEF Settles, Batch
  <2>2. IsFiniteSet(Batch(p)) /\ Cardinality(Batch(p)) \in Nat
    BY BatchFinite
  <2>3. Cardinality(T1) = Cardinality(T) + Cardinality(Batch(p))
    <3>1. Cardinality(T \cup Batch(p)) = Cardinality(T) + Cardinality(Batch(p)) - Cardinality(T \cap Batch(p))
      BY <1>3, <2>2, FS_Union
    <3>2. Cardinality(T \cap Batch(p)) = 0
      BY <2>1, FS_EmptySet
    <3>3. Cardinality(T) \in Nat
      BY <1>3, FS_CardinalityType
    <3> HIDE DEF T, T1
    <3> QED
      BY <2>1, <2>2, <3>1, <3>2, <3>3
  <2>4. soldCount' = Cardinality(T1)
    BY <1>3, <1>6, <2>3 DEF Settles, Quantity
  <2> QED
    BY <1>2, <2>4 DEF SoldCountCountsEachIssueOnce
<1> QED
  BY <1>4, <1>5, <1>6 DEF SettlesAtMostOne

-----------------------------------------------------------------------------
(* Confirmed tickets stay. *)

\* No step deletes a confirmed ticket.
LEMMA StepKeepsConfirmed ==
    ASSUME TypeOK, SettlementInv, MissingStaysMissing, [Next]_vars
    PROVE  Confirmed \subseteq Confirmed'
<1>1. SUFFICES ASSUME NEW t \in Ticket, ticket[t] = "PAID"
               PROVE  ticket'[t] = "PAID"
  BY DEF Confirmed
<1>2. ASSUME NEW p \in Purchase, BookingStep(p)
      PROVE  ticket'[t] = "PAID"
  <2>1. CASE ReserveTickets(p)
    <3>1. t \notin Batch(p) /\ t \notin Dropped(p)
      BY <1>1, <2>1, FreshPurchase DEF ReserveTickets, Batch, Dropped, Expired, Reserved
    <3> QED
      BY <1>1, <2>1, <3>1 DEF ReserveTickets
  <2>2. CASE InitializeFails(p)
    BY <1>1, <2>2, ReservedPurchase DEF InitializeFails, DeleteTickets, Batch
  <2>3. CASE ConfirmReservedTickets(p) \/ BookFreeEvent(p)
    BY <1>1, <2>3 DEF ConfirmReservedTickets, MarkPaid, BookFreeEvent
  <2>4. CASE \/ StartCheckout(p) \/ ReserveRejected(p) \/ CreatePayment(p) \/ StartFreeBooking(p)
             \/ BookFreeRejected(p) \/ CheckoutDies(p) \/ ChargeMoves(p)
    BY <1>1, <2>4 DEF StartCheckout, ReserveRejected, CreatePayment, StartFreeBooking,
                      BookFreeRejected, CheckoutDies, ChargeMoves
  <2> QED
    BY <1>2, <2>1, <2>2, <2>3, <2>4 DEF BookingStep
<1>3. ASSUME NEW c \in Verifier, VerifyStep(c)
      PROVE  ticket'[t] = "PAID"
  <2>1. CASE ProviderAnswers(c) \/ ActivationLock(c)
    BY <1>1, <2>1 DEF ProviderAnswers, ActivationLock
  <2>2. CASE RecordNonSuccess(c)
    BY <1>1, <2>2 DEF RecordNonSuccess, DeleteTickets, Reserved
  <2>3. CASE (SettleRefund(c) /\ ~Settled(call[c].ref)) \/ ActivationRefund(c)
    <3>1. PICK p \in Purchase : /\ p = call[c].ref
                                /\ payment[p] # "none" /\ payment[p] # "SUCCESS"
      BY <2>3 DEF SettleRefund, Settled, ActivationRefund, SettlementInv, CallsHoldTheirPayment
    <3>2. Order[t] # p
      BY <1>1, <3>1, UnsettledPayment
    <3> QED
      BY <1>1, <2>3, <3>1, <3>2 DEF SettleRefund, ActivationRefund, DeleteTickets, Batch
  <2>4. CASE SettleRefund(c) /\ Settled(call[c].ref)
    BY <1>1, <2>4 DEF SettleRefund
  <2>5. CASE ActivationCommit(c)
    BY <1>1, <2>5 DEF ActivationCommit, MarkPaid
  <2> QED
    BY <1>3, <2>1, <2>2, <2>3, <2>4, <2>5 DEF VerifyStep
<1>4. CASE CleanupExpired \/ CancelEvent
  BY <1>1, <1>4 DEF CleanupExpired, CancelEvent, DeleteTickets, Expired, Reserved
<1>5. CASE \/ \E c \in Verifier, p \in Purchase : VerifyStart(c, p)
           \/ \E c \in Verifier : CallDies(c)
           \/ \E n \in Capacities : SyncCount(n)
           \/ SyncCommit \/ Tick \/ UNCHANGED vars
  BY <1>1, <1>5 DEF VerifyStart, CallDies, SyncCount, SyncCommit, Tick, vars
<1> QED
  BY <1>2, <1>3, <1>4, <1>5 DEF Next

-----------------------------------------------------------------------------
(* Tiers with a price: capacity and the purchase limit. *)

\* A step of a tier with a price that adds no rows, confirms none, and lets no
\* booking go where only free ones go, keeps both bounds.
LEMMA NoNewRowsKeepsPaidTier ==
    ASSUME TypeOK, SettlementInv, PaidTierInv, price' = price, granted \subseteq granted',
           \A t \in Ticket : /\ ticket'[t] # "none" => ticket[t] # "none"
                             /\ ticket'[t] = "PAID" => ticket[t] = "PAID",
           TypeOK',
           \A q \in Purchase : \/ checkout'[q] = checkout[q]
                               \/ /\ checkout'[q].pc \in {"reserved", "done"}
                                  /\ checkout[q].pc \in {"reserving", "reserved", "booking"}
                                  /\ checkout'[q].user = checkout[q].user
                                  /\ checkout'[q].pays = checkout[q].pays
    PROVE  PaidTierInv'
<1> SUFFICES ASSUME price = "paid" PROVE PaidTierInv'
  BY DEF PaidTierInv, PaidTierRowsFit, PaidTierPurchaseLimit
<1>1. IsFiniteSet(Confirmed \cup Reserved) /\ \A u : IsFiniteSet({t \in Confirmed : OwnerOf(t) = u})
  BY TicketingAssumption, FS_Subset DEF Confirmed, Reserved
<1>2. PICK n \in granted : Cardinality(Confirmed \cup Reserved) <= n
  BY DEF PaidTierInv, PaidTierRowsFit
<1>3. Cardinality((Confirmed \cup Reserved)') <= n
  <2>1. (Confirmed \cup Reserved)' \subseteq Confirmed \cup Reserved
    BY DEF Confirmed, Reserved, TypeOK
  <2>2. /\ Cardinality((Confirmed \cup Reserved)') <= Cardinality(Confirmed \cup Reserved)
        /\ IsFiniteSet((Confirmed \cup Reserved)')
    BY <1>1, <2>1, FS_Subset
  <2>3. /\ Cardinality((Confirmed \cup Reserved)') \in Nat
        /\ Cardinality(Confirmed \cup Reserved) \in Nat
        /\ n \in Nat
    BY <1>1, <2>2, FS_CardinalityType, TicketingAssumption DEF TypeOK
  <2> QED
    BY <1>2, <2>2, <2>3
<1>4. ASSUME NEW u \in User
      PROVE  Cardinality({t \in Confirmed : OwnerOf(t) = u}') <= MaxPerUser
  <2>1. {t \in Confirmed : OwnerOf(t) = u}' \subseteq {t \in Confirmed : OwnerOf(t) = u}
    BY TicketingAssumption DEF Confirmed, OwnerOf
  <2>2. Cardinality({t \in Confirmed : OwnerOf(t) = u}) <= MaxPerUser
    BY DEF PaidTierInv, PaidTierPurchaseLimit
  <2>3. /\ Cardinality({t \in Confirmed : OwnerOf(t) = u}') <= Cardinality({t \in Confirmed : OwnerOf(t) = u})
        /\ IsFiniteSet({t \in Confirmed : OwnerOf(t) = u}')
    BY <1>1, <2>1, FS_Subset
  <2>4. /\ Cardinality({t \in Confirmed : OwnerOf(t) = u}') \in Nat
        /\ Cardinality({t \in Confirmed : OwnerOf(t) = u}) \in Nat
    BY <1>1, <2>3, FS_CardinalityType
  <2> QED
    BY <2>2, <2>3, <2>4, TicketingAssumption
<1>5. PaidTierRowsFit'
  BY <1>2, <1>3 DEF PaidTierInv, PaidTierRowsFit
<1> QED
  BY <1>4, <1>5 DEF PaidTierInv, PaidTierPurchaseLimit

\* On a tier with a price a booking step reserves within the capacity it read
\* and confirms nothing.
LEMMA BookingKeepsPaidTier ==
    ASSUME TypeOK, TypeOK', SettlementInv, PaidTierInv, price = "paid",
           NEW p \in Purchase, BookingStep(p)
    PROVE  PaidTierInv'
<1>0. granted' = granted
  BY DEF BookingStep, StartCheckout, ReserveTickets, ReserveRejected, CreatePayment,
         InitializeFails, ConfirmReservedTickets, StartFreeBooking, BookFreeEvent,
         BookFreeRejected, CheckoutDies, ChargeMoves
<1>1. CASE StartCheckout(p)
  <2>1. PICK u \in User, pays \in BOOLEAN :
          /\ pays
          /\ checkout' = [checkout EXCEPT ![p] =
             [pc |-> "reserving", user |-> u, now |-> clock, cap |-> capacity, pays |-> pays]]
    BY <1>1 DEF StartCheckout
  <2>2. /\ checkout'[p].pc = "reserving" /\ checkout'[p].pays /\ checkout'[p].cap \in granted
        /\ \A q \in Purchase : q # p => checkout'[q] = checkout[q]
    BY <2>1 DEF TypeOK
  <2>3. \A t \in Ticket : Order[t] = p => ticket[t] = "none"
    BY <1>1, FreshPurchase DEF StartCheckout
  <2>4. Confirmed' = Confirmed /\ Reserved' = Reserved /\ price' = price
    BY <1>1 DEF StartCheckout, Confirmed, Reserved
  <2>5. PaidTierRowsFit'
    BY <1>0, <2>2, <2>4 DEF PaidTierInv, PaidTierRowsFit
  <2>6. \A u1 \in User : {t \in Confirmed : OwnerOf(t) = u1}' = {t \in Confirmed : OwnerOf(t) = u1}
    BY <2>2, <2>3, <2>4, TicketingAssumption DEF Confirmed, OwnerOf
  <2> QED
    BY <2>4, <2>5, <2>6 DEF PaidTierInv, PaidTierPurchaseLimit
<1>2. CASE ReserveTickets(p)
  <2> DEFINE live == Active(checkout[p].now) \ Dropped(p)
             cap == checkout[p].cap
  <2>1. /\ \A q \in Purchase : q # p => checkout'[q] = checkout[q]
        /\ checkout'[p].pc = "reserved"
        /\ \A q \in Purchase : checkout'[q].user = checkout[q].user
        /\ checkout'[p].pays = checkout[p].pays
    BY <1>2, SetCheckoutEffect DEF ReserveTickets, CheckoutPc
  <2>2. checkout[p].pays /\ cap \in granted
    BY <1>2 DEF ReserveTickets, PaidTierInv, PaidTierRowsFit
  <2>3. \A t \in Ticket : Order[t] = p => ticket[t] = "none"
    BY <1>2, FreshPurchase DEF ReserveTickets
  <2>4. (Confirmed \cup Reserved)' = live \cup Batch(p)
    BY <1>2 DEF ReserveTickets, Confirmed, Reserved, Active, Dropped, Batch, TypeOK
  <2>5. live \subseteq Ticket /\ Batch(p) \subseteq Ticket /\ live \cap Batch(p) = {}
    BY <2>3 DEF Active, Confirmed, Reserved, Batch
  <2>6. Cardinality(live) + Cardinality(Batch(p)) <= cap
    BY <1>2 DEF ReserveTickets, Reservable, Available
  <2>7. Cardinality(live \cup Batch(p)) <= cap
    <3>1. IsFiniteSet(live) /\ IsFiniteSet(Batch(p))
      BY <2>5, FS_Subset, TicketingAssumption
    <3>2. Cardinality(live \cup Batch(p)) = Cardinality(live) + Cardinality(Batch(p)) - Cardinality({})
      BY <2>5, <3>1, FS_Union
    <3>3. Cardinality(live) \in Nat /\ Cardinality(Batch(p)) \in Nat /\ Cardinality({}) = 0
      BY <3>1, FS_CardinalityType, FS_EmptySet
    <3>4. cap \in Nat
      BY <2>2, TicketingAssumption DEF TypeOK
    <3> HIDE DEF live, cap
    <3> QED
      BY <2>6, <3>2, <3>3, <3>4
  <2>8. price' = price /\ Confirmed' = Confirmed
    BY <1>2, <2>3 DEF ReserveTickets, Confirmed, Dropped, Expired, Reserved, Batch
  <2>9. PaidTierRowsFit'
    BY <1>0, <2>1, <2>2, <2>4, <2>7, <2>8 DEF PaidTierInv, PaidTierRowsFit
  <2>10. \A u \in User : {t \in Confirmed : OwnerOf(t) = u}' = {t \in Confirmed : OwnerOf(t) = u}
    BY <2>1, <2>8, TicketingAssumption DEF Confirmed, OwnerOf
  <2> QED
    BY <2>8, <2>9, <2>10 DEF PaidTierInv, PaidTierPurchaseLimit
<1>3. CASE \/ ReserveRejected(p) \/ BookFreeRejected(p) \/ CheckoutDies(p)
           \/ InitializeFails(p) \/ CreatePayment(p)
  <2>1. SetCheckout(p, "done")
    BY <1>3 DEF ReserveRejected, BookFreeRejected, CheckoutDies, InitializeFails, CreatePayment
  <2>2. /\ \A q \in Purchase : q # p => checkout'[q] = checkout[q]
        /\ checkout'[p].pc = "done"
        /\ checkout'[p].user = checkout[p].user
        /\ checkout'[p].pays = checkout[p].pays
    BY <2>1, SetCheckoutEffect DEF CheckoutPc
  <2>3. checkout[p].pc \in {"reserving", "reserved", "booking"}
    BY <1>3 DEF ReserveRejected, BookFreeRejected, CheckoutDies, InitializeFails, CreatePayment
  <2>4. price' = price
    BY <1>3 DEF ReserveRejected, BookFreeRejected, CheckoutDies, InitializeFails, CreatePayment
  <2>5. \A t \in Ticket : /\ ticket'[t] # "none" => ticket[t] # "none"
                          /\ ticket'[t] = "PAID" => ticket[t] = "PAID"
    BY <1>3 DEF ReserveRejected, BookFreeRejected, CheckoutDies, InitializeFails, CreatePayment,
                DeleteTickets
  <2> QED
    BY <1>0, <2>2, <2>3, <2>4, <2>5, NoNewRowsKeepsPaidTier
<1>4. CASE ConfirmReservedTickets(p) \/ StartFreeBooking(p) \/ BookFreeEvent(p)
  BY <1>4 DEF ConfirmReservedTickets, StartFreeBooking, BookFreeEvent, PaidTierInv, PaidTierRowsFit
<1>5. CASE ChargeMoves(p)
  <2>1. UNCHANGED <<price, checkout, ticket>>
    BY <1>5 DEF ChargeMoves
  <2> QED
    BY <1>0, <2>1, NoNewRowsKeepsPaidTier
<1> QED
  BY <1>1, <1>2, <1>3, <1>4, <1>5 DEF BookingStep

\* An activation confirms rows that already fit, after checking the limit.
LEMMA ActivationKeepsPaidTier ==
    ASSUME TypeOK, TypeOK', SettlementInv, MissingStaysMissing, PaidTierInv, price = "paid",
           NEW c \in Verifier, ActivationCommit(c)
    PROVE  PaidTierInv'
<1>1. PICK p \in Purchase : p = call[c].ref
  BY DEF ActivationCommit, SettlementInv, CallsHoldTheirPayment
<1>2. call[c].found = Batch(p)
  BY <1>1 DEF ActivationCommit, ActivationRefused
<1>3. UNCHANGED <<price, granted, checkout>>
  BY DEF ActivationCommit
<1>4. \A t \in Ticket : ticket'[t] = IF Order[t] = p /\ ticket[t] # "none" THEN "PAID" ELSE ticket[t]
  BY <1>1 DEF ActivationCommit, MarkPaid, Batch
<1>5. (Confirmed \cup Reserved)' = Confirmed \cup Reserved
  BY <1>4 DEF Confirmed, Reserved, TypeOK
<1>6. PaidTierRowsFit'
  BY <1>3, <1>5 DEF PaidTierInv, PaidTierRowsFit
<1>7. ASSUME NEW u \in User
      PROVE  Cardinality({t \in Confirmed : OwnerOf(t) = u}') <= MaxPerUser
  <2> DEFINE had == {t \in Confirmed : OwnerOf(t) = u}
  <2>1. Cardinality(had) <= MaxPerUser
    BY DEF PaidTierInv, PaidTierPurchaseLimit
  <2>2. CASE u # checkout[p].user
    <3>1. had' = had
      BY <1>3, <1>4, <2>2 DEF Confirmed, OwnerOf
    <3> QED
      BY <2>1, <3>1
  <2>3. CASE u = checkout[p].user
    <3> DEFINE others == had \ Batch(p)
    <3>1. had' \subseteq others \cup Batch(p)
      BY <1>3, <1>4 DEF Confirmed, OwnerOf, Batch
    <3>2. Cardinality(others) + Cardinality(Batch(p)) <= MaxPerUser
      <4>1. ~(Cardinality(others) + Cardinality(Batch(p)) > MaxPerUser)
        BY <1>1, <1>2, <2>3 DEF ActivationCommit, ActivationRefused, OverLimit, ConfirmedOf
      <4>2. IsFiniteSet(others) /\ Cardinality(Batch(p)) \in Nat
        BY BatchFinite, FS_Subset, TicketingAssumption DEF Confirmed
      <4>3. Cardinality(others) \in Nat
        BY <4>2, FS_CardinalityType
      <4> HIDE DEF others
      <4> QED
        BY <4>1, <4>2, <4>3, TicketingAssumption
    <3>3. IsFiniteSet(others) /\ IsFiniteSet(Batch(p))
      BY BatchFinite, FS_Subset, TicketingAssumption DEF Confirmed
    <3>4. others \cap Batch(p) = {}
      OBVIOUS
    <3>5. /\ IsFiniteSet(others \cup Batch(p))
          /\ Cardinality(others \cup Batch(p)) = Cardinality(others) + Cardinality(Batch(p)) - Cardinality({})
      BY <3>3, <3>4, FS_Union
    <3>6. IsFiniteSet(had') /\ Cardinality(had') <= Cardinality(others \cup Batch(p))
      BY <3>1, <3>5, FS_Subset
    <3>7. /\ Cardinality(had') \in Nat /\ Cardinality(others) \in Nat
          /\ Cardinality(Batch(p)) \in Nat /\ Cardinality({}) = 0
      BY <3>3, <3>6, FS_CardinalityType, FS_EmptySet
    <3> HIDE DEF others, had
    <3>8. Cardinality(had') <= MaxPerUser
      BY <3>2, <3>5, <3>6, <3>7, TicketingAssumption
    <3> QED
      BY <3>8 DEF had
  <2> QED
    BY <2>2, <2>3
<1> QED
  BY <1>6, <1>7 DEF PaidTierInv, PaidTierPurchaseLimit

\* No step disturbs the bounds of a tier with a price.
LEMMA StepKeepsPaidTier ==
    ASSUME TypeOK, TypeOK', SettlementInv, MissingStaysMissing, PaidTierInv, [Next]_vars
    PROVE  PaidTierInv'
<1>1. price' = price /\ granted \subseteq granted'
  BY DEF Next, BookingStep, StartCheckout, ReserveTickets, ReserveRejected, CreatePayment,
         InitializeFails, ConfirmReservedTickets, StartFreeBooking, BookFreeEvent,
         BookFreeRejected, CheckoutDies, ChargeMoves, VerifyStart, VerifyStep, ProviderAnswers,
         RecordNonSuccess, SettleRefund, ActivationLock, ActivationRefund, ActivationCommit,
         CallDies, CleanupExpired, CancelEvent, SyncCount, SyncCommit, Tick, vars
<1>2. CASE price # "paid"
  BY <1>1, <1>2 DEF PaidTierInv, PaidTierRowsFit, PaidTierPurchaseLimit
<1>3. CASE price = "paid"
  <2>1. ASSUME NEW p \in Purchase, BookingStep(p)
        PROVE  PaidTierInv'
    BY <1>3, <2>1, BookingKeepsPaidTier
  <2>2. ASSUME NEW c \in Verifier, ActivationCommit(c)
        PROVE  PaidTierInv'
    BY <1>3, <2>2, ActivationKeepsPaidTier
  <2>3. ASSUME UNCHANGED checkout,
               \A t \in Ticket : /\ ticket'[t] # "none" => ticket[t] # "none"
                                 /\ ticket'[t] = "PAID" => ticket[t] = "PAID"
        PROVE  PaidTierInv'
    BY <1>1, <2>3, NoNewRowsKeepsPaidTier
  <2>4. ASSUME NEW c \in Verifier,
               RecordNonSuccess(c) \/ SettleRefund(c) \/ ActivationRefund(c)
        PROVE  PaidTierInv'
    BY <2>3, <2>4 DEF RecordNonSuccess, SettleRefund, ActivationRefund, DeleteTickets
  <2>5. CASE CleanupExpired \/ CancelEvent
    BY <2>3, <2>5 DEF CleanupExpired, CancelEvent, DeleteTickets
  <2>6. CASE \/ \E c \in Verifier, p \in Purchase : VerifyStart(c, p)
             \/ \E c \in Verifier : ProviderAnswers(c) \/ ActivationLock(c) \/ CallDies(c)
             \/ \E n \in Capacities : SyncCount(n)
             \/ SyncCommit \/ Tick \/ UNCHANGED vars
    BY <2>3, <2>6 DEF VerifyStart, ProviderAnswers, ActivationLock, CallDies, SyncCount,
                      SyncCommit, Tick, vars
  <2> QED
    BY <2>1, <2>2, <2>4, <2>5, <2>6 DEF Next, VerifyStep
<1> QED
  BY <1>2, <1>3

-----------------------------------------------------------------------------
(* The theorems. *)

IInv == /\ TypeOK
        /\ SettlementInv
        /\ MissingStaysMissing
        /\ SoldCountCountsEachIssueOnce
        /\ PaidTierInv

\* Nothing is issued, reserved or in flight at the start.
LEMMA InitInv == ASSUME Init PROVE IInv
<1>1. TypeOK
  <2>1. NoCheckout \in Checkout
    BY TicketingAssumption DEF NoCheckout, Checkout, CheckoutPc
  <2> QED
    BY <2>1, NoCallIsACall, TicketingAssumption DEF Init, TypeOK
<1>2. \A p \in Purchase : checkout[p].pc = "idle"
  BY DEF Init, NoCheckout
<1>3. \A c \in Verifier : call[c].pc = "idle"
  BY NoCallIsACall DEF Init
<1>4. Confirmed = {} /\ Reserved = {}
  BY DEF Init, Confirmed, Reserved
<1>5. SettlementInv
  BY <1>2, <1>3, <1>4 DEF Init, SettlementInv, PaymentIsLast, RowsAreTogether,
     CallsHoldTheirPayment, ConfirmedIsPaidFor, NoTicketWithRefund, FailureFreesSeats
<1>6. MissingStaysMissing
  BY <1>3 DEF MissingStaysMissing, SawMissing
<1>7. SoldCountCountsEachIssueOnce
  <2>1. {t \in Ticket : Issued(Order[t])} = {}
    BY <1>2, TicketingAssumption DEF Init, Issued
  <2> QED
    BY <2>1, FS_EmptySet DEF Init, SoldCountCountsEachIssueOnce
<1>8. PaidTierInv
  <2>1. PICK n \in granted : n \in Nat
    BY TicketingAssumption DEF Init
  <2>2. Cardinality(Confirmed \cup Reserved) = 0 /\ 0 <= n
    BY <1>4, <2>1, FS_EmptySet
  <2>3. \A u \in User : {t \in Confirmed : OwnerOf(t) = u} = {}
    BY <1>4
  <2>4. PaidTierPurchaseLimit
    <3>1. Cardinality({}) = 0 /\ 0 <= MaxPerUser
      BY FS_EmptySet, TicketingAssumption
    <3> QED
      BY <2>3, <3>1 DEF PaidTierPurchaseLimit
  <2>5. PaidTierRowsFit
    BY <1>2, <2>2 DEF PaidTierRowsFit
  <2> QED
    BY <2>4, <2>5 DEF PaidTierInv
<1> QED
  BY <1>1, <1>5, <1>6, <1>7, <1>8 DEF IInv

LEMMA StepInv == ASSUME IInv, [Next]_vars PROVE IInv'
<1>1. CallsHoldTheirPayment
  BY DEF IInv, SettlementInv
<1>2. TypeOK'
  BY <1>1, StepTyped DEF IInv
<1>3. SettlementInv' /\ MissingStaysMissing'
  BY StepKeepsSettlement, StepKeepsMissing DEF IInv
<1>4. SoldCountCountsEachIssueOnce'
  BY <1>2, <1>3, StepSettles, StepKeepsCount DEF IInv
<1>5. PaidTierInv'
  BY <1>2, StepKeepsPaidTier DEF IInv
<1> QED
  BY <1>2, <1>3, <1>4, <1>5 DEF IInv

\* The inductive invariant holds in every state.
THEOREM Invariance == Spec => []IInv
<1>1. Init => IInv
  BY InitInv
<1>2. IInv /\ [Next]_vars => IInv'
  BY StepInv
<1> QED
  BY <1>1, <1>2, PTL DEF Spec

\* The tables, the calls and the counters keep their types.
THEOREM TypeCorrect == Spec => []TypeOK
<1>1. IInv => TypeOK
  BY DEF IInv
<1> QED
  BY <1>1, Invariance, PTL

\* soldCount counts every issued ticket once, whatever is retried or fails.
THEOREM SoldCountIsExact == Spec => []SoldCountCountsEachIssueOnce
<1>1. IInv => SoldCountCountsEachIssueOnce
  BY DEF IInv
<1> QED
  BY <1>1, Invariance, PTL

\* Confirmed tickets have been paid for, and refunds and failures hold no seats.
THEOREM SettlementIsConsistent ==
    Spec => [](ConfirmedIsPaidFor /\ LostPaymentsKeepNoSeats)
<1>1. IInv => ConfirmedIsPaidFor /\ LostPaymentsKeepNoSeats
  BY DEF IInv, SettlementInv, LostPaymentsKeepNoSeats
<1> QED
  BY <1>1, Invariance, PTL

\* A tier with a price is not oversold: its confirmed tickets are among its rows.
THEOREM PaidTierIsNotOversold == Spec => []PaidTierNeverOversold
<1>1. ASSUME IInv PROVE PaidTierNeverOversold
  <2>1. SUFFICES ASSUME price = "paid"
                 PROVE  \E n \in granted : Cardinality(Confirmed) <= n
    BY DEF PaidTierNeverOversold
  <2>2. PICK n \in granted : Cardinality(Confirmed \cup Reserved) <= n
    BY <1>1, <2>1 DEF IInv, PaidTierInv, PaidTierRowsFit
  <2>3. IsFiniteSet(Confirmed \cup Reserved)
    BY FS_Subset, TicketingAssumption DEF Confirmed, Reserved
  <2>4. /\ IsFiniteSet(Confirmed)
        /\ Cardinality(Confirmed) <= Cardinality(Confirmed \cup Reserved)
    BY <2>3, FS_Subset
  <2>5. /\ Cardinality(Confirmed) \in Nat
        /\ Cardinality(Confirmed \cup Reserved) \in Nat
        /\ n \in Nat
    BY <1>1, <2>3, <2>4, FS_CardinalityType, TicketingAssumption DEF IInv, TypeOK
  <2> QED
    BY <2>2, <2>4, <2>5
<1>2. IInv => PaidTierNeverOversold
  BY <1>1
<1> QED
  BY <1>2, Invariance, PTL

\* Nobody exceeds the purchase limit of a tier with a price.
THEOREM PaidTierLimitIsKept == Spec => []PaidTierPurchaseLimit
<1>1. IInv => PaidTierPurchaseLimit
  BY DEF IInv, PaidTierInv
<1> QED
  BY <1>1, Invariance, PTL

\* No step takes a confirmed ticket away.
THEOREM ConfirmedStays == Spec => ConfirmedForever
<1>1. IInv /\ [Next]_vars => [Confirmed \subseteq Confirmed']_vars
  BY StepKeepsConfirmed DEF IInv
<1> QED
  BY <1>1, Invariance, PTL DEF Spec, ConfirmedForever

\* Ticketing implements Settlement: every purchase is settled at most once.
THEOREM ImplementsSettlement == Spec => SettlesOnce
<1>1. Init => Sales!Init
  BY DEF Init, Sales!Init, Outcome, Issued, NoCheckout
<1>2. ASSUME IInv, [Next]_vars
      PROVE  [Sales!Next]_<<[p \in Purchase |-> Outcome(p)], soldCount>>
  <2>1. CASE SameOutcomes
    BY <2>1 DEF SameOutcomes
  <2>2. ASSUME NEW p \in Purchase, Settles(p, "issued", Quantity(p))
        PROVE  Sales!Issue(p)
    BY <2>2 DEF Settles, Sales!Issue
  <2>3. ASSUME NEW p \in Purchase, Settles(p, "refund", 0)
        PROVE  Sales!Refund(p)
    <3>1. soldCount' = soldCount
      BY <1>2, <2>3 DEF Settles, IInv, TypeOK
    <3> QED
      BY <2>3, <3>1 DEF Settles, Sales!Refund
  <2> QED
    BY <1>2, <2>1, <2>2, <2>3, StepSettles DEF IInv, SettlesAtMostOne, Sales!Next
<1> QED
  BY <1>1, <1>2, Invariance, PTL DEF Spec, SettlesOnce, Sales!Spec
=============================================================================

----------------------------- MODULE GuestBookings -----------------------------
(***************************************************************************)
(* Free tickets for visitors without an account (guest-tickets.service.ts) *)
(* of one event: an address asks for a code, and books with the code.      *)
(* Members book tickets of the same tiers (bookFreeEvent).                 *)
(*                                                                         *)
(* A caller is one request in progress.  What it has read outside its      *)
(* transaction may have changed when the transaction writes; the lock of   *)
(* the tier's row is held from ConfirmLock to the end.                     *)
(***************************************************************************)
EXTENDS Naturals, FiniteSets

CONSTANTS
    Caller,         \* requests being served at a time
    Address,        \* e-mail addresses, normalised
    Tier,           \* ticket types of the event
    Code,           \* GuestTicketRequest ids, each with its own code
    Capacity,       \* TicketType.capacity
    Limit,          \* TicketType.maxTicketsPerUser
    MaxAttempts,    \* MAX_VERIFICATION_ATTEMPTS
    MaxDeaths,      \* bound on processes that end in the middle of a request
    Nobody

ASSUME GuestAssumption ==
    /\ Capacity \in Nat /\ Limit \in Nat /\ MaxAttempts \in Nat \ {0} /\ MaxDeaths \in Nat
    /\ IsFiniteSet(Caller) /\ IsFiniteSet(Code)
    /\ Nobody \notin Caller \cup Address \cup Tier \cup Code

VARIABLES
    code,       \* GuestTicketRequest rows
    guesses,    \* wrong codes compared with each row's
    order,      \* GuestTicketOrder rows, with the number of their tickets
    members,    \* tickets of members in each tier
    free,       \* the event's tiers have no price
    published,  \* Event.status is PUBLISHED and the event is not over
    caller,     \* progress of each request
    tierLock,   \* the transaction that holds TicketType FOR UPDATE
    deaths

guestVars == <<code, guesses, order, members, free, published, caller, tierLock, deaths>>

Quantity == 1..Limit

\* GuestTicketRequest and GuestTicketOrder; one request to confirmBooking or
\* requestVerification, with what it has read.
CodeRow == [state : {"none", "open", "expired", "deleted", "consumed"}, email : Address \cup {Nobody},
            tier : Tier \cup {Nobody}, quantity : Nat, attempts : Nat]
OrderRow == [code : Code, email : Address, tier : Tier, quantity : Quantity]
CallerState == [pc : {"idle", "create", "count", "lock", "book"}, code : Code \cup {Nobody},
                email : Address \cup {Nobody}, tier : Tier \cup {Nobody}, quantity : Nat]
NoCode == [state |-> "none", email |-> Nobody, tier |-> Nobody, quantity |-> 0, attempts |-> 0]
Free == [pc |-> "idle", code |-> Nobody, email |-> Nobody, tier |-> Nobody, quantity |-> 0]

GuestInit ==
    /\ code = [c \in Code |-> NoCode]
    /\ guesses = [c \in Code |-> 0]
    /\ order = {}
    /\ members = [t \in Tier |-> 0]
    /\ free = TRUE
    /\ published = TRUE
    /\ caller = [k \in Caller |-> Free]
    /\ tierLock = [t \in Tier |-> Nobody]
    /\ deaths = 0

-----------------------------------------------------------------------------
\* isRequestUsable, now and for a request that began while the code was open.
Usable(c) == code[c].state = "open" /\ code[c].attempts < MaxAttempts
StillUsable(c) == code[c].state \in {"open", "expired"} /\ code[c].attempts < MaxAttempts

\* The Ticket rows of orders, numbered in each of them.
TicketsOf(O) == {x \in O \X Quantity : x[2] <= x[1].quantity}
GuestTickets(t) == Cardinality(TicketsOf({o \in order : o.tier = t}))
OwnedBy(e, t) == Cardinality(TicketsOf({o \in order : o.tier = t /\ o.email = e}))

\* assertGuestTicketAvailability
RoomFor(e, t, q) ==
    /\ GuestTickets(t) + members[t] + q <= Capacity
    /\ OwnedBy(e, t) + q <= Limit

Booked(e) == \E o \in order : o.email = e
Leave(k) == caller' = [caller EXCEPT ![k] = Free]

\* Bound: a request for a code begins only while a row is left for it.
CodesLeft == Cardinality({c \in Code : code[c].state = "none"})
             > Cardinality({k \in Caller : caller[k].pc = "create"})

-----------------------------------------------------------------------------
(* requestVerification *)

AskStart(k, e, t, q) ==
    /\ caller[k] = Free
    /\ published /\ free
    /\ ~Booked(e)
    /\ RoomFor(e, t, q)
    /\ CodesLeft
    /\ caller' = [caller EXCEPT ![k] = [Free EXCEPT !.pc = "create", !.email = e,
                                                    !.tier = t, !.quantity = q]]
    /\ UNCHANGED <<code, guesses, order, members, free, published, tierLock, deaths>>

\* Deletes the address's codes of this tier that were not used, and creates one.
\* Two of them do not see each other's.
AskCommit(k) ==
    LET r == caller[k]
        c == CHOOSE d \in Code : code[d].state = "none"   \* a fresh id, whichever
    IN
    /\ r.pc = "create"
    /\ code' = [d \in Code |->
                  CASE d = c -> [state |-> "open", email |-> r.email, tier |-> r.tier,
                                 quantity |-> r.quantity, attempts |-> 0]
                    [] code[d].state \in {"open", "expired"} /\ code[d].email = r.email
                       /\ code[d].tier = r.tier -> [code[d] EXCEPT !.state = "deleted"]
                    [] OTHER -> code[d]]
    /\ Leave(k)
    /\ UNCHANGED <<guesses, order, members, free, published, tierLock, deaths>>

CodeExpires(c) ==
    /\ code[c].state = "open"
    /\ code' = [code EXCEPT ![c].state = "expired"]
    /\ UNCHANGED <<guesses, order, members, free, published, caller, tierLock, deaths>>

-----------------------------------------------------------------------------
(* confirmBooking *)

\* The row is read; only the code of a usable row is compared.
Guess(k, c, right) ==
    /\ caller[k] = Free
    /\ Usable(c)
    /\ guesses' = [guesses EXCEPT ![c] = IF right THEN @ ELSE @ + 1]
    /\ caller' = [caller EXCEPT ![k] = [Free EXCEPT !.pc = IF right THEN "lock" ELSE "count",
                                                    !.code = c]]
    /\ UNCHANGED <<code, order, members, free, published, tierLock, deaths>>

\* Mutant: the number read before is written, increased by one.
CountGuess_Overwrites(k) ==
    LET c == caller[k].code IN
    /\ caller[k].pc = "count"
    /\ code' = IF code[c].state = "deleted" THEN code
               ELSE [code EXCEPT ![c].attempts = 1]
    /\ Leave(k)
    /\ UNCHANGED <<guesses, order, members, free, published, tierLock, deaths>>

\* The wrong guess is counted by an increment of its own; the row may be gone.
CountGuess(k) ==
    LET c == caller[k].code IN
    /\ caller[k].pc = "count"
    /\ code' = IF code[c].state = "deleted" THEN code ELSE [code EXCEPT ![c].attempts = @ + 1]
    /\ Leave(k)
    /\ UNCHANGED <<guesses, order, members, free, published, tierLock, deaths>>

\* Mutant: the tier's row is read without its lock.
TierIsFree_Unlocked(t) == TRUE

TierIsFree(t) == tierLock[t] = Nobody

\* The tier's row is locked, and everything that allows the booking is read again.
ConfirmLock(k) ==
    LET c == caller[k].code
        r == code[c]
    IN
    /\ caller[k].pc = "lock"
    /\ TierIsFree(r.tier)
    /\ StillUsable(c)
    /\ published /\ free
    /\ ~Booked(r.email)
    /\ RoomFor(r.email, r.tier, r.quantity)
    /\ tierLock' = [tierLock EXCEPT ![r.tier] = k]
    /\ caller' = [caller EXCEPT ![k] = [pc |-> "book", code |-> c, email |-> r.email,
                                        tier |-> r.tier, quantity |-> r.quantity]]
    /\ UNCHANGED <<code, guesses, order, members, free, published, deaths>>

ConfirmRefused(k) ==
    LET c == caller[k].code
        r == code[c]
    IN
    /\ caller[k].pc = "lock"
    /\ TierIsFree(r.tier)
    /\ \/ ~StillUsable(c) \/ ~published \/ ~free \/ Booked(r.email)
       \/ ~RoomFor(r.email, r.tier, r.quantity)
    /\ Leave(k)
    /\ UNCHANGED <<code, guesses, order, members, free, published, tierLock, deaths>>

\* Mutant: the booking key is made of the event, the tier and the address.
SameKey_PerTier(o, r) == o.email = r.email /\ o.tier = r.tier

\* GuestTicketOrder.bookingKey is made of the event and the address, and unique.
SameKey(o, r) == o.email = r.email

Unlock(k) == tierLock' = [t \in Tier |-> IF tierLock[t] = k THEN Nobody ELSE tierLock[t]]

\* The conditional update of the code (expiry is judged by the time at which the
\* request began), the order under its unique key, its tickets and the tier's count.
ConfirmCommit(k) ==
    LET r == caller[k] IN
    /\ r.pc = "book"
    /\ StillUsable(r.code)
    /\ \A o \in order : ~SameKey(o, r)
    /\ code' = [code EXCEPT ![r.code].state = "consumed"]
    /\ order' = order \cup {[code |-> r.code, email |-> r.email, tier |-> r.tier,
                             quantity |-> r.quantity]}
    /\ Unlock(k)
    /\ Leave(k)
    /\ UNCHANGED <<guesses, members, free, published, deaths>>

\* Nothing was updated, the key exists (P2002), or a statement failed.
ConfirmRollsBack(k) ==
    /\ caller[k].pc = "book"
    /\ Unlock(k)
    /\ Leave(k)
    /\ UNCHANGED <<code, guesses, order, members, free, published, deaths>>

-----------------------------------------------------------------------------
(* Around them: members, the organiser, the process. *)

\* bookFreeEvent counts and issues under the lock of the tier's row.
MemberBooks(t) ==
    /\ published /\ free
    /\ tierLock[t] = Nobody
    /\ GuestTickets(t) + members[t] + 1 <= Capacity
    /\ members' = [members EXCEPT ![t] = @ + 1]
    /\ UNCHANGED <<code, guesses, order, free, published, caller, tierLock, deaths>>

\* syncTicketTypes gives the tier a price.  The update waits for the tier's lock.
TierGetsPrice ==
    /\ free
    /\ \A t \in Tier : tierLock[t] = Nobody
    /\ free' = FALSE
    /\ UNCHANGED <<code, guesses, order, members, published, caller, tierLock, deaths>>

EventCloses ==
    /\ published
    /\ published' = FALSE
    /\ UNCHANGED <<code, guesses, order, members, free, caller, tierLock, deaths>>

\* The connection ends and PostgreSQL rolls an open transaction back.
CallerDies(k) ==
    /\ caller[k] # Free
    /\ deaths < MaxDeaths
    /\ deaths' = deaths + 1
    /\ Unlock(k)
    /\ Leave(k)
    /\ UNCHANGED <<code, guesses, order, members, free, published>>

GuestNext ==
    \/ \E k \in Caller :
        \/ \E e \in Address, t \in Tier, q \in Quantity : AskStart(k, e, t, q)
        \/ \E c \in Code, right \in BOOLEAN : Guess(k, c, right)
        \/ AskCommit(k) \/ CountGuess(k) \/ ConfirmLock(k) \/ ConfirmRefused(k)
        \/ ConfirmCommit(k) \/ ConfirmRollsBack(k) \/ CallerDies(k)
    \/ \E c \in Code : CodeExpires(c)
    \/ \E t \in Tier : MemberBooks(t)
    \/ TierGetsPrice \/ EventCloses

GuestSpec == GuestInit /\ [][GuestNext]_guestVars

-----------------------------------------------------------------------------
(* Properties. *)

GuestTypeOK ==
    /\ code \in [Code -> CodeRow]
    /\ guesses \in [Code -> Nat]
    /\ order \subseteq OrderRow
    /\ members \in [Tier -> Nat]
    /\ free \in BOOLEAN /\ published \in BOOLEAN
    /\ caller \in [Caller -> CallerState]
    /\ tierLock \in [Tier -> Caller \cup {Nobody}]
    /\ deaths \in 0..MaxDeaths

\* However many confirmations of an address run at once, on one tier or on several,
\* it ends with one booking, and each code that was consumed made exactly one of
\* its own address and tier (guest-tickets.service.ts:123, the unique bookingKey).
OneBookingPerAddress ==
    /\ \A o, p \in order : o.email = p.email => o = p
    /\ \A c \in Code : code[c].state = "consumed" <=> \E o \in order : o.code = c
    /\ \A o \in order : code[o.code].email = o.email /\ code[o.code].tier = o.tier

\* Guests and members together never hold more tickets of a free tier than it has
\* seats, although both count before they issue (guest-tickets.service.ts:107).
GuestsNeverOversell == \A t \in Tier : GuestTickets(t) + members[t] <= Capacity

\* A code can be guessed MaxAttempts times, and once more by each other request
\* that read the row before the last guesses were counted, or that died before it
\* counted its own (guest-tickets.service.ts:91).
GuessesAreBounded ==
    \A c \in Code : guesses[c] <= MaxAttempts + (Cardinality(Caller) - 1) + deaths
=============================================================================

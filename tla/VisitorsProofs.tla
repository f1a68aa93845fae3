---------------------------- MODULE VisitorsProofs ----------------------------
(*************************************************************************)
(* Proofs about those who come to an event: the bookings of guests, and  *)
(* the scans at the door.                                                *)
(*************************************************************************)
EXTENDS GuestBookings, Admissions, FiniteSetTheorems, TLAPS

-----------------------------------------------------------------------------
(***************************************************************************)
(* Proofs about guest bookings, for any number of addresses, tiers, codes  *)
(* and requests at a time.  A confirmation books under the lock of its     *)
(* tier, so that what it has counted stays true (TiersAreHeld); what it    *)
(* has read of its code outside the lock, the conditional update of the    *)
(* code and the unique key of the order check again.                       *)
(***************************************************************************)

Pending(c) == {k \in Caller : caller[k].pc = "count" /\ caller[k].code = c}
Creating == {k \in Caller : caller[k].pc = "create"}
Unborn == {c \in Code : code[c].state = "none"}

\* Every request that is about to create a code finds a fresh id.
CodesAreLeft == Cardinality(Creating) <= Cardinality(Unborn)

\* A code that was created belongs to an address and a tier for good.
CodesAreComplete ==
    \A c \in Code : code[c].state # "none" =>
        code[c].email \in Address /\ code[c].tier \in Tier /\ code[c].quantity \in Quantity

\* A request remembers a code that exists, and books what the code is for.
CallersKnowTheirCode ==
    \A k \in Caller :
        /\ caller[k].pc = "create" =>
            caller[k].email \in Address /\ caller[k].tier \in Tier /\ caller[k].quantity \in Quantity
        /\ caller[k].pc \in {"count", "lock", "book"} =>
            caller[k].code \in Code /\ code[caller[k].code].state # "none"
        /\ caller[k].pc = "book" =>
            /\ code[caller[k].code].email = caller[k].email
            /\ code[caller[k].code].tier = caller[k].tier
            /\ code[caller[k].code].quantity = caller[k].quantity

\* A request that books has its tier's lock, and the seats it has counted are still free.
TiersAreHeld ==
    \A k \in Caller : caller[k].pc = "book" =>
        /\ tierLock[caller[k].tier] = k
        /\ GuestTickets(caller[k].tier) + members[caller[k].tier] + caller[k].quantity <= Capacity

\* A wrong guess is counted in the row, about to be, or its request has died.
GuessesAreCounted ==
    \A c \in Code :
        /\ code[c].state = "none" => guesses[c] = 0
        /\ code[c].state # "deleted" => guesses[c] <= code[c].attempts + Cardinality(Pending(c)) + deaths

GInv ==
    /\ GuestTypeOK
    /\ IsFiniteSet(order)
    /\ CodesAreLeft /\ CodesAreComplete /\ CallersKnowTheirCode /\ TiersAreHeld /\ GuessesAreCounted
    /\ OneBookingPerAddress /\ GuestsNeverOversell /\ GuessesAreBounded

-----------------------------------------------------------------------------
(* Counting. *)

\* The sets that are counted are finite.
LEMMA FiniteCounts ==
    /\ IsFiniteSet(Creating) /\ Cardinality(Creating) \in Nat
    /\ IsFiniteSet(Unborn) /\ Cardinality(Unborn) \in Nat
    /\ \A c : IsFiniteSet(Pending(c)) /\ Cardinality(Pending(c)) \in Nat /\ Cardinality(Pending(c)) <= Cardinality(Caller)
    /\ Cardinality(Caller) \in Nat
<1>1. IsFiniteSet(Caller) /\ IsFiniteSet(Code)
  BY GuestAssumption
<1>2. Creating \in SUBSET Caller /\ Unborn \in SUBSET Code /\ \A c : Pending(c) \in SUBSET Caller
  BY DEF Creating, Unborn, Pending
<1>3. IsFiniteSet(Creating) /\ IsFiniteSet(Unborn)
  BY <1>1, <1>2, FS_Subset
<1>4. ASSUME NEW c PROVE IsFiniteSet(Pending(c)) /\ Cardinality(Pending(c)) <= Cardinality(Caller)
  BY <1>1, <1>2, FS_Subset
<1> QED
  BY <1>1, <1>3, <1>4, FS_CardinalityType

\* What a step of one request does to the sets of requests.
LEMMA CallerMoves ==
    ASSUME GuestTypeOK, NEW k \in Caller, NEW x \in CallerState, caller' = [caller EXCEPT ![k] = x]
    PROVE  /\ \A c : Pending(c)' = IF x.pc = "count" /\ x.code = c THEN Pending(c) \cup {k} ELSE Pending(c) \ {k}
           /\ Creating' = IF x.pc = "create" THEN Creating \cup {k} ELSE Creating \ {k}
  BY DEF GuestTypeOK, Pending, Creating

LEMMA FirstNumbers == ASSUME NEW q \in Nat PROVE IsFiniteSet(1 .. q) /\ Cardinality(1 .. q) = q
<1>1. IsFiniteSet(1 .. q) /\ Cardinality(1 .. q) = IF 1 > q THEN 0 ELSE q - 1 + 1
  BY FS_Interval
<1> QED
  BY <1>1

\* The tickets of a set of orders and one more.
LEMMA TicketsOfOneMore ==
    ASSUME NEW O, IsFiniteSet(O), NEW o \in OrderRow, o \notin O
    PROVE  /\ IsFiniteSet(TicketsOf(O)) /\ Cardinality(TicketsOf(O)) \in Nat
           /\ Cardinality(TicketsOf(O \cup {o})) = Cardinality(TicketsOf(O)) + o.quantity
<1>1. o.quantity \in Nat /\ o.quantity <= Limit /\ Limit \in Nat
  BY GuestAssumption DEF OrderRow, Quantity
<1>2. IsFiniteSet(Quantity)
  BY <1>1, FS_Interval DEF Quantity
<1>3. IsFiniteSet(TicketsOf(O)) /\ Cardinality(TicketsOf(O)) \in Nat
  <2>1. IsFiniteSet(O \X Quantity)
    BY <1>2, FS_Product
  <2>2. TicketsOf(O) \in SUBSET (O \X Quantity)
    BY DEF TicketsOf
  <2> QED
    BY <2>1, <2>2, FS_Subset, FS_CardinalityType
<1> DEFINE New == {o} \X (1 .. o.quantity)
<1>4. IsFiniteSet(New) /\ Cardinality(New) = o.quantity
  <2>1. IsFiniteSet(1 .. o.quantity) /\ Cardinality(1 .. o.quantity) = o.quantity
    BY <1>1, FirstNumbers
  <2>2. IsFiniteSet({o}) /\ Cardinality({o}) = 1
    BY FS_Singleton
  <2>3. IsFiniteSet({o} \X (1 .. o.quantity))
        /\ Cardinality({o} \X (1 .. o.quantity)) = Cardinality({o}) * Cardinality(1 .. o.quantity)
    BY <2>1, <2>2, FS_Product, Zenon
  <2>4. Cardinality({o}) * Cardinality(1 .. o.quantity) = o.quantity
    BY <1>1, <2>1, <2>2
  <2> QED
    BY <2>3, <2>4, Zenon
<1>5. TicketsOf(O \cup {o}) = TicketsOf(O) \cup New /\ TicketsOf(O) \cap New = {}
  <2>1. \A x \in {o} \X Quantity : x[2] <= x[1].quantity <=> x \in New
    BY <1>1 DEF Quantity
  <2>2. \A x : x \in New => x \in {o} \X Quantity /\ x[1] = o
    BY <1>1 DEF Quantity
  <2>3. \A x : x \in (O \cup {o}) \X Quantity <=> x \in O \X Quantity \/ x \in {o} \X Quantity
    OBVIOUS
  <2>4. \A x \in O \X Quantity : x[1] # o
    OBVIOUS
  <2> HIDE DEF New
  <2> QED
    BY <2>1, <2>2, <2>3, <2>4 DEF TicketsOf
<1>6. Cardinality(TicketsOf(O) \cup New) = Cardinality(TicketsOf(O)) + Cardinality(New) - Cardinality({})
  <2> HIDE DEF New
  <2> QED
    BY <1>3, <1>4, <1>5, FS_Union
<1>7. Cardinality({}) = 0
  BY FS_EmptySet
<1>8. Cardinality(TicketsOf(O \cup {o})) = Cardinality(TicketsOf(O)) + o.quantity - 0
  BY <1>4, <1>5, <1>6, <1>7, Zenon
<1> QED
  BY <1>1, <1>3, <1>8

\* The shapes of the rows that steps write.
LEMMA Shapes ==
    /\ Free \in CallerState /\ Free.pc = "idle"
    /\ NoCode \in CodeRow
    /\ \A r \in CodeRow : /\ [r EXCEPT !.state = "expired"] \in CodeRow
                          /\ [r EXCEPT !.state = "deleted"] \in CodeRow
                          /\ [r EXCEPT !.state = "consumed"] \in CodeRow
                          /\ [r EXCEPT !.attempts = r.attempts + 1] \in CodeRow
    /\ \A e \in Address, t \in Tier, q \in Quantity :
        /\ [Free EXCEPT !.pc = "create", !.email = e, !.tier = t, !.quantity = q] \in CallerState
        /\ [state |-> "open", email |-> e, tier |-> t, quantity |-> q, attempts |-> 0] \in CodeRow
    /\ \A c \in Code, e \in Address, t \in Tier, q \in Quantity :
        [pc |-> "book", code |-> c, email |-> e, tier |-> t, quantity |-> q] \in CallerState
    /\ \A c \in Code : /\ [Free EXCEPT !.pc = "lock", !.code = c] \in CallerState
                       /\ [Free EXCEPT !.pc = "count", !.code = c] \in CallerState
<1> USE GuestAssumption DEF Free
<1>1. Free \in CallerState /\ Free.pc = "idle"
  BY DEF CallerState
<1>2. NoCode \in CodeRow
  BY DEF NoCode, CodeRow
<1>3. ASSUME NEW r \in CodeRow
      PROVE  /\ [r EXCEPT !.state = "expired"] \in CodeRow
             /\ [r EXCEPT !.state = "deleted"] \in CodeRow
             /\ [r EXCEPT !.state = "consumed"] \in CodeRow
             /\ [r EXCEPT !.attempts = r.attempts + 1] \in CodeRow
  BY DEF CodeRow
<1>4. ASSUME NEW e \in Address, NEW t \in Tier, NEW q \in Quantity
      PROVE  /\ [Free EXCEPT !.pc = "create", !.email = e, !.tier = t, !.quantity = q] \in CallerState
             /\ [state |-> "open", email |-> e, tier |-> t, quantity |-> q, attempts |-> 0] \in CodeRow
             /\ \A c \in Code : [pc |-> "book", code |-> c, email |-> e, tier |-> t, quantity |-> q] \in CallerState
  <2>1. q \in Nat
    BY DEF Quantity
  <2> QED
    BY <2>1 DEF CallerState, CodeRow
<1>5. ASSUME NEW c \in Code
      PROVE  [Free EXCEPT !.pc = "lock", !.code = c] \in CallerState /\ [Free EXCEPT !.pc = "count", !.code = c] \in CallerState
  BY DEF CallerState
<1> QED
  BY <1>1, <1>2, <1>3, <1>4, <1>5

-----------------------------------------------------------------------------
(* Preservation, action by action. *)

\* Before the first request.
LEMMA Inits == GuestInit => GInv
<1> SUFFICES ASSUME GuestInit PROVE GInv
  OBVIOUS
<1> USE DEF GuestInit
<1>1. GuestTypeOK
  <2>1. code \in [Code -> CodeRow] /\ caller \in [Caller -> CallerState]
    BY Shapes
  <2>2. deaths \in 0..MaxDeaths /\ guesses \in [Code -> Nat] /\ members \in [Tier -> Nat]
    BY GuestAssumption
  <2> QED
    BY <2>1, <2>2 DEF GuestTypeOK
<1>2. \A k \in Caller : caller[k].pc = "idle"
  BY Shapes
<1>3. \A c \in Code : code[c].state = "none" /\ guesses[c] = 0
  BY DEF NoCode
<1>4. IsFiniteSet(order) /\ Creating = {} /\ Cardinality(Creating) = 0
  BY <1>2, FS_EmptySet DEF Creating
<1>5. \A t \in Tier : GuestTickets(t) = 0
  <2>1. \A t \in Tier : TicketsOf({o \in order : o.tier = t}) = {}
    BY DEF TicketsOf
  <2> QED
    BY <2>1, FS_EmptySet DEF GuestTickets
<1>6. OneBookingPerAddress
  BY <1>3 DEF OneBookingPerAddress
<1>7. GuestsNeverOversell
  BY <1>5, GuestAssumption DEF GuestsNeverOversell
<1>8. GuessesAreBounded /\ GuessesAreCounted
  <2>1. \A c \in Code : code[c].attempts = 0
    BY DEF NoCode
  <2> QED
    BY <1>3, <2>1, FiniteCounts, GuestAssumption DEF GuessesAreBounded, GuessesAreCounted
<1>9. CodesAreLeft
  BY <1>4, FiniteCounts DEF CodesAreLeft
<1>10. CodesAreComplete /\ CallersKnowTheirCode /\ TiersAreHeld
  BY <1>2, <1>3 DEF CodesAreComplete, CallersKnowTheirCode, TiersAreHeld
<1> QED
  BY <1>1, <1>4, <1>6, <1>7, <1>8, <1>9, <1>10 DEF GInv

\* What depends on the rows alone.
LEMMA RowsKept ==
    ASSUME GInv, UNCHANGED <<code, order, members>>
    PROVE  /\ OneBookingPerAddress' /\ GuestsNeverOversell' /\ CodesAreComplete' /\ IsFiniteSet(order')
           /\ Unborn' = Unborn
           /\ \A t : GuestTickets(t)' = GuestTickets(t)
  BY DEF GInv, OneBookingPerAddress, GuestsNeverOversell, CodesAreComplete, Unborn, GuestTickets

\* A request for a code begins.
LEMMA AskStartStep ==
    ASSUME GInv, NEW k \in Caller, NEW e \in Address, NEW t \in Tier, NEW q \in Quantity, AskStart(k, e, t, q)
    PROVE  GInv'
<1> DEFINE x == [Free EXCEPT !.pc = "create", !.email = e, !.tier = t, !.quantity = q]
<1>1. x \in CallerState /\ x.pc = "create" /\ x.email = e /\ x.tier = t /\ x.quantity = q
  BY Shapes DEF Free
<1>2. caller[k].pc = "idle" /\ caller' = [caller EXCEPT ![k] = x]
  BY Shapes DEF AskStart
<1>3. UNCHANGED <<code, guesses, order, members, free, published, tierLock, deaths>>
  BY DEF AskStart
<1>4. CodesLeft
  BY DEF AskStart
<1> HIDE DEF x
<1>5. Creating' = Creating \cup {k} /\ k \notin Creating /\ \A c : Pending(c)' = Pending(c)
  <2>1. Creating' = Creating \cup {k} /\ \A c : Pending(c)' = Pending(c) \ {k}
    BY <1>1, <1>2, CallerMoves DEF GInv
  <2>2. k \notin Creating /\ \A c : k \notin Pending(c)
    BY <1>2 DEF Creating, Pending
  <2> QED
    BY <2>1, <2>2
<1>6. GuestTypeOK'
  BY <1>1, <1>2, <1>3 DEF GInv, GuestTypeOK
<1>7. CodesAreLeft'
  <2>1. Cardinality(Creating') = Cardinality(Creating) + 1
    BY <1>5, FiniteCounts, FS_AddElement
  <2>2. Cardinality(Unborn) > Cardinality(Creating)
    BY <1>4 DEF CodesLeft, Unborn, Creating
  <2> QED
    BY <1>3, <2>1, <2>2, RowsKept, FiniteCounts DEF CodesAreLeft
<1>8. CallersKnowTheirCode'
  BY <1>1, <1>2, <1>3 DEF GInv, CallersKnowTheirCode, GuestTypeOK
<1>9. TiersAreHeld'
  BY <1>1, <1>2, <1>3, RowsKept DEF GInv, TiersAreHeld, GuestTypeOK
<1>10. GuessesAreCounted' /\ GuessesAreBounded'
  BY <1>3, <1>5 DEF GInv, GuessesAreCounted, GuessesAreBounded
<1> QED
  BY <1>3, <1>6, <1>7, <1>8, <1>9, <1>10, RowsKept DEF GInv

\* A request that ends.
LEMMA Leaves ==
    ASSUME GInv, NEW k \in Caller, Leave(k)
    PROVE  /\ caller' \in [Caller -> CallerState] /\ caller'[k].pc = "idle"
           /\ \A j \in Caller \ {k} : caller'[j] = caller[j]
           /\ Creating' = Creating \ {k} /\ \A c : Pending(c)' = Pending(c) \ {k}
           /\ Cardinality(Creating') = IF caller[k].pc = "create" THEN Cardinality(Creating) - 1 ELSE Cardinality(Creating)
           /\ \A c : Cardinality(Pending(c)') = IF caller[k].pc = "count" /\ caller[k].code = c
                                                 THEN Cardinality(Pending(c)) - 1 ELSE Cardinality(Pending(c))
<1>1. caller' = [caller EXCEPT ![k] = Free] /\ GuestTypeOK /\ Free \in CallerState /\ Free.pc = "idle"
  BY Shapes DEF Leave, GInv
<1>2. caller' \in [Caller -> CallerState] /\ caller'[k].pc = "idle" /\ \A j \in Caller \ {k} : caller'[j] = caller[j]
  BY <1>1 DEF GuestTypeOK
<1>3. Creating' = Creating \ {k} /\ \A c : Pending(c)' = Pending(c) \ {k}
  BY <1>1, CallerMoves
<1>4. (k \in Creating <=> caller[k].pc = "create") /\ \A c : k \in Pending(c) <=> caller[k].pc = "count" /\ caller[k].code = c
  BY DEF Creating, Pending
<1>5. Cardinality(Creating \ {k}) = IF k \in Creating THEN Cardinality(Creating) - 1 ELSE Cardinality(Creating)
  BY FiniteCounts, FS_RemoveElement
<1>6. ASSUME NEW c
      PROVE  Cardinality(Pending(c) \ {k}) = IF k \in Pending(c) THEN Cardinality(Pending(c)) - 1 ELSE Cardinality(Pending(c))
  BY FiniteCounts, FS_RemoveElement
<1>7. Cardinality(Creating') = IF caller[k].pc = "create" THEN Cardinality(Creating) - 1 ELSE Cardinality(Creating)
  BY <1>3, <1>4, <1>5
<1>8. ASSUME NEW c
      PROVE  Cardinality(Pending(c)') = IF caller[k].pc = "count" /\ caller[k].code = c
                                       THEN Cardinality(Pending(c)) - 1 ELSE Cardinality(Pending(c))
  BY <1>3, <1>4, <1>6
<1> QED
  BY <1>2, <1>3, <1>7, <1>8

\* A request that ends and leaves the rows as they are: it was refused, rolled back, or died.
LEMMA EndSteps ==
    ASSUME GInv, NEW k \in Caller, ConfirmRefused(k) \/ ConfirmRollsBack(k) \/ CallerDies(k)
    PROVE  GInv'
<1>1. Leave(k) /\ UNCHANGED <<code, guesses, order, members, free, published>>
  BY DEF ConfirmRefused, ConfirmRollsBack, CallerDies
<1>2. /\ tierLock' \in [Tier -> Caller \cup {Nobody}]
      /\ \A t \in Tier, j \in Caller \ {k} : tierLock[t] = j => tierLock'[t] = j
  BY DEF ConfirmRefused, ConfirmRollsBack, CallerDies, Unlock, GInv, GuestTypeOK
<1>3. /\ deaths' \in 0..MaxDeaths /\ deaths' >= deaths
      /\ caller[k].pc = "count" => deaths' = deaths + 1
  BY GuestAssumption DEF ConfirmRefused, ConfirmRollsBack, CallerDies, GInv, GuestTypeOK
<1>4. GuestTypeOK'
  <2>1. caller' \in [Caller -> CallerState]
    BY <1>1, Leaves
  <2> QED
    BY <1>1, <1>2, <1>3, <2>1 DEF GInv, GuestTypeOK
<1>5. CodesAreLeft'
  BY <1>1, Leaves, RowsKept, FiniteCounts DEF GInv, CodesAreLeft
<1>6. CallersKnowTheirCode'
  BY <1>1, Leaves DEF GInv, CallersKnowTheirCode
<1>7. TiersAreHeld'
  <2> SUFFICES ASSUME NEW j \in Caller, caller'[j].pc = "book"
               PROVE  /\ tierLock'[caller[j].tier] = j /\ j # k
                      /\ GuestTickets(caller[j].tier) + members[caller[j].tier] + caller[j].quantity <= Capacity
    BY <1>1, Leaves, RowsKept DEF TiersAreHeld
  <2>1. j # k /\ caller[j].pc = "book"
    BY <1>1, Leaves
  <2>2. caller[j].tier \in Tier
    BY <2>1 DEF GInv, CallersKnowTheirCode, CodesAreComplete
  <2> QED
    BY <1>2, <2>1, <2>2 DEF GInv, TiersAreHeld
<1>8. ASSUME NEW c \in Code
      PROVE  /\ code[c].state # "deleted" => guesses[c] <= code[c].attempts + Cardinality(Pending(c)') + deaths'
             /\ guesses[c] <= MaxAttempts + (Cardinality(Caller) - 1) + deaths'
  <2>1. code[c].attempts \in Nat /\ guesses[c] \in Nat /\ deaths \in Nat /\ MaxAttempts \in Nat
    BY GuestAssumption DEF GInv, GuestTypeOK, CodeRow
  <2>2. Cardinality(Pending(c)) \in Nat /\ Cardinality(Caller) \in Nat
    BY FiniteCounts
  <2>3. Cardinality(Pending(c)') = IF caller[k].pc = "count" /\ caller[k].code = c
                                  THEN Cardinality(Pending(c)) - 1 ELSE Cardinality(Pending(c))
    BY <1>1, Leaves
  <2>4. deaths' \in Nat
    BY <1>3
  <2>5. deaths' >= deaths /\ (caller[k].pc = "count" => deaths' = deaths + 1)
    BY <1>3, <2>1
  <2>6. /\ code[c].state # "deleted" => guesses[c] <= code[c].attempts + Cardinality(Pending(c)) + deaths
        /\ guesses[c] <= MaxAttempts + (Cardinality(Caller) - 1) + deaths
    BY DEF GInv, GuessesAreCounted, GuessesAreBounded
  <2>7. Cardinality(Pending(c)') + deaths' >= Cardinality(Pending(c)) + deaths /\ Cardinality(Pending(c)') \in Int
    BY <2>1, <2>2, <2>3, <2>4, <2>5
  <2> QED
    BY <2>1, <2>2, <2>4, <2>5, <2>6, <2>7
<1> QED
  BY <1>1, <1>4, <1>5, <1>6, <1>7, <1>8, RowsKept DEF GInv, GuessesAreCounted, GuessesAreBounded

\* A code is created and the address's other ones of the tier are deleted.
LEMMA AskCommitStep == ASSUME GInv, NEW k \in Caller, AskCommit(k) PROVE GInv'
<1> DEFINE r == caller[k]
           c == CHOOSE d \in Code : code[d].state = "none"
           new == [state |-> "open", email |-> r.email, tier |-> r.tier, quantity |-> r.quantity, attempts |-> 0]
           Replaced(d) == code[d].state \in {"open", "expired"} /\ code[d].email = r.email /\ code[d].tier = r.tier
<1>1. Leave(k) /\ r.pc = "create" /\ UNCHANGED <<guesses, order, members, free, published, tierLock, deaths>>
  BY DEF AskCommit
<1>2. code' = [d \in Code |-> CASE d = c -> new [] Replaced(d) -> [code[d] EXCEPT !.state = "deleted"] [] OTHER -> code[d]]
  BY DEF AskCommit
<1>3. r.email \in Address /\ r.tier \in Tier /\ r.quantity \in Quantity
  BY <1>1 DEF GInv, CallersKnowTheirCode
<1>4. new \in CodeRow /\ new.state = "open" /\ new.email = r.email /\ new.tier = r.tier /\ new.quantity = r.quantity
      /\ new.attempts = 0
  BY <1>3, Shapes
<1>5. c \in Code /\ code[c].state = "none"
  <2>1. k \in Creating
    BY <1>1 DEF Creating
  <2>2. Cardinality(Creating) # 0
    BY <2>1, FiniteCounts, FS_EmptySet
  <2>3. Unborn # {}
    BY <2>2, FiniteCounts, FS_EmptySet DEF GInv, CodesAreLeft
  <2> QED
    BY <2>3 DEF Unborn
<1> HIDE DEF c, new
<1>6. code'[c] = new /\ \A d \in Code \ {c} : code'[d] = IF Replaced(d) THEN [code[d] EXCEPT !.state = "deleted"] ELSE code[d]
  BY <1>2, <1>5
<1>7. ASSUME NEW d \in Code \ {c}
      PROVE  /\ code'[d].state = IF Replaced(d) THEN "deleted" ELSE code[d].state
             /\ code'[d].email = code[d].email /\ code'[d].tier = code[d].tier
             /\ code'[d].quantity = code[d].quantity /\ code'[d].attempts = code[d].attempts
             /\ code'[d] \in CodeRow
  <2>1. code[d] \in CodeRow
    BY DEF GInv, GuestTypeOK
  <2>2. CASE Replaced(d)
    <3>1. code'[d] = [code[d] EXCEPT !.state = "deleted"]
      BY <1>6, <2>2
    <3>2. code'[d] \in CodeRow
      BY <2>1, <3>1, Shapes
    <3> QED
      BY <2>1, <2>2, <3>1, <3>2 DEF CodeRow
  <2>3. CASE ~Replaced(d)
    BY <1>6, <2>1, <2>3
  <2> QED
    BY <2>2, <2>3
<1> HIDE DEF Replaced
<1>8. GuestTypeOK'
  <2>1. code' \in [Code -> CodeRow]
    BY <1>2, <1>4, <1>5, <1>6, <1>7
  <2>2. caller' \in [Caller -> CallerState]
    BY <1>1, Leaves
  <2> QED
    BY <1>1, <2>1, <2>2 DEF GInv, GuestTypeOK
<1>9. CodesAreLeft'
  <2>1. Unborn' = Unborn \ {c} /\ c \in Unborn
    BY <1>4, <1>5, <1>6, <1>7 DEF Unborn, Replaced
  <2>2. Cardinality(Unborn') = Cardinality(Unborn) - 1
    BY <2>1, FiniteCounts, FS_RemoveElement
  <2>3. Cardinality(Creating') = Cardinality(Creating) - 1
    BY <1>1, Leaves
  <2> QED
    BY <2>2, <2>3, FiniteCounts DEF GInv, CodesAreLeft
<1>10. CodesAreComplete'
  BY <1>3, <1>4, <1>6, <1>7 DEF GInv, CodesAreComplete, Replaced
<1>11. CallersKnowTheirCode'
  <2> SUFFICES ASSUME NEW j \in Caller \ {k}, caller'[j] = caller[j]
               PROVE  /\ caller[j].pc = "create" =>
                          caller[j].email \in Address /\ caller[j].tier \in Tier /\ caller[j].quantity \in Quantity
                      /\ caller[j].pc \in {"count", "lock", "book"} =>
                          caller[j].code \in Code /\ code'[caller[j].code].state # "none"
                      /\ caller[j].pc = "book" =>
                          /\ code'[caller[j].code].email = caller[j].email
                          /\ code'[caller[j].code].tier = caller[j].tier
                          /\ code'[caller[j].code].quantity = caller[j].quantity
    BY <1>1, Leaves DEF CallersKnowTheirCode
  <2>1. caller[j].pc \in {"count", "lock", "book"} => caller[j].code \in Code \ {c}
    BY <1>5 DEF GInv, CallersKnowTheirCode
  <2> QED
    BY <1>7, <2>1 DEF GInv, CallersKnowTheirCode
<1>12. TiersAreHeld' /\ GuestsNeverOversell'
  <2>1. \A t : GuestTickets(t)' = GuestTickets(t)
    BY <1>1 DEF GuestTickets
  <2>2. GuestsNeverOversell'
    BY <1>1, <2>1 DEF GInv, GuestsNeverOversell
  <2>3. TiersAreHeld'
    BY <1>1, <2>1, Leaves DEF GInv, TiersAreHeld
  <2> QED
    BY <2>2, <2>3
<1>13. OneBookingPerAddress'
  <2>1. \A o \in order : o.code \in Code \ {c} /\ code[o.code].state = "consumed"
    BY <1>5 DEF GInv, OneBookingPerAddress, GuestTypeOK, OrderRow
  <2>2. \A d \in Code : code'[d].state = "consumed" <=> code[d].state = "consumed"
    BY <1>4, <1>5, <1>6, <1>7 DEF Replaced
  <2> QED
    BY <1>1, <1>7, <2>1, <2>2 DEF GInv, OneBookingPerAddress
<1>14. GuessesAreCounted'
  <2> SUFFICES ASSUME NEW d \in Code
               PROVE  /\ code'[d].state = "none" => guesses[d] = 0
                      /\ code'[d].state # "deleted" => guesses[d] <= code'[d].attempts + Cardinality(Pending(d)') + deaths
    BY <1>1 DEF GuessesAreCounted
  <2>1. Cardinality(Pending(d)') = Cardinality(Pending(d)) /\ Cardinality(Pending(d)) \in Nat /\ deaths \in Nat
    BY <1>1, Leaves, FiniteCounts, GuestAssumption DEF GInv, GuestTypeOK
  <2>2. CASE d = c
    BY <1>4, <1>5, <1>6, <2>1, <2>2 DEF GInv, GuessesAreCounted
  <2>3. CASE d # c
    <3>1. code'[d].state = "none" => code[d].state = "none"
      BY <1>7, <2>3
    <3>2. code'[d].state # "deleted" => code[d].state # "deleted" /\ code'[d].attempts = code[d].attempts
      BY <1>7, <2>3 DEF Replaced
    <3> QED
      BY <2>1, <3>1, <3>2 DEF GInv, GuessesAreCounted
  <2> QED
    BY <2>2, <2>3
<1>15. GuessesAreBounded'
  BY <1>1 DEF GInv, GuessesAreBounded
<1> QED
  BY <1>1, <1>8, <1>9, <1>10, <1>11, <1>12, <1>13, <1>14, <1>15 DEF GInv

\* What steps that only change the state or the attempts of a code keep.
LEMMA CodeKept ==
    ASSUME GInv, NEW c \in Code, code[c].state # "none",
           NEW row \in CodeRow, code' = [code EXCEPT ![c] = row],
           row.email = code[c].email, row.tier = code[c].tier, row.quantity = code[c].quantity, row.state # "none",
           row.state = "consumed" <=> code[c].state = "consumed",
           UNCHANGED <<order, members>>
    PROVE  /\ code' \in [Code -> CodeRow] /\ Unborn' = Unborn
           /\ CodesAreComplete' /\ OneBookingPerAddress' /\ GuestsNeverOversell' /\ IsFiniteSet(order')
           /\ \A t : GuestTickets(t)' = GuestTickets(t)
           /\ \A d \in Code : /\ code'[d].state # "none" <=> code[d].state # "none"
                              /\ code'[d].email = code[d].email /\ code'[d].tier = code[d].tier
                              /\ code'[d].quantity = code[d].quantity
<1>1. code \in [Code -> CodeRow]
  BY DEF GInv, GuestTypeOK
<1>2. /\ \A d \in Code : /\ code'[d].state # "none" <=> code[d].state # "none"
                         /\ code'[d].state = "consumed" <=> code[d].state = "consumed"
                         /\ code'[d].email = code[d].email /\ code'[d].tier = code[d].tier
                         /\ code'[d].quantity = code[d].quantity
      /\ code' \in [Code -> CodeRow]
  <2>1. code' \in [Code -> CodeRow] /\ \A d \in Code : code'[d] = IF d = c THEN row ELSE code[d]
    BY <1>1
  <2>2. row.state = "consumed" <=> code[c].state = "consumed"
    OBVIOUS
  <2>3. ASSUME NEW d \in Code
        PROVE  /\ code'[d].state # "none" <=> code[d].state # "none"
               /\ code'[d].state = "consumed" <=> code[d].state = "consumed"
               /\ code'[d].email = code[d].email /\ code'[d].tier = code[d].tier
               /\ code'[d].quantity = code[d].quantity
    <3>1. CASE d = c
      BY <2>1, <2>2, <3>1
    <3>2. CASE d # c
      BY <2>1, <3>2
    <3> QED
      BY <3>1, <3>2
  <2> QED
    BY <2>1, <2>3
<1>3. Unborn' = Unborn
  BY <1>2 DEF Unborn
<1>4. CodesAreComplete'
  BY <1>2 DEF GInv, CodesAreComplete
<1>5. OneBookingPerAddress'
  BY <1>2 DEF GInv, OneBookingPerAddress, GuestTypeOK, OrderRow
<1>6. GuestsNeverOversell' /\ \A t : GuestTickets(t)' = GuestTickets(t)
  BY DEF GInv, GuestsNeverOversell, GuestTickets
<1>7. IsFiniteSet(order')
  BY DEF GInv
<1> QED
  BY <1>2, <1>3, <1>4, <1>5, <1>6, <1>7

\* A code's time is over.
LEMMA CodeExpiresStep == ASSUME GInv, NEW c \in Code, CodeExpires(c) PROVE GInv'
<1> DEFINE row == [code[c] EXCEPT !.state = "expired"]
<1>1. code[c] \in CodeRow /\ code[c].state = "open"
  BY DEF GInv, GuestTypeOK, CodeExpires
<1>2. row \in CodeRow /\ row.state = "expired" /\ row.email = code[c].email /\ row.tier = code[c].tier
      /\ row.quantity = code[c].quantity /\ row.attempts = code[c].attempts
  BY <1>1, Shapes DEF CodeRow
<1>3. code' = [code EXCEPT ![c] = row] /\ UNCHANGED <<guesses, order, members, free, published, caller, tierLock, deaths>>
  BY DEF CodeExpires
<1> HIDE DEF row
<1>4. /\ code' \in [Code -> CodeRow] /\ Unborn' = Unborn
      /\ CodesAreComplete' /\ OneBookingPerAddress' /\ GuestsNeverOversell' /\ IsFiniteSet(order')
      /\ \A t : GuestTickets(t)' = GuestTickets(t)
      /\ \A d \in Code : /\ code'[d].state # "none" <=> code[d].state # "none"
                         /\ code'[d].email = code[d].email /\ code'[d].tier = code[d].tier
                         /\ code'[d].quantity = code[d].quantity
  BY <1>1, <1>2, <1>3, CodeKept
<1>5. Creating' = Creating /\ \A d : Pending(d)' = Pending(d)
  BY <1>3 DEF Creating, Pending
<1>6. GuestTypeOK' /\ CodesAreLeft' /\ CallersKnowTheirCode'
  BY <1>3, <1>4, <1>5 DEF GInv, GuestTypeOK, CodesAreLeft, CallersKnowTheirCode
<1>7. TiersAreHeld' /\ GuessesAreBounded'
  BY <1>3, <1>4 DEF GInv, TiersAreHeld, GuessesAreBounded
<1>8. GuessesAreCounted'
  <2>1. \A d \in Code : /\ code'[d].attempts = code[d].attempts
                        /\ code'[d].state = code[d].state \/ (d = c /\ code'[d].state = "expired")
    BY <1>2, <1>3 DEF GInv, GuestTypeOK
  <2> SUFFICES ASSUME NEW d \in Code
               PROVE  /\ code'[d].state = "none" => guesses[d] = 0
                      /\ code'[d].state # "deleted" => guesses[d] <= code'[d].attempts + Cardinality(Pending(d)') + deaths
    BY <1>3 DEF GuessesAreCounted
  <2>2. /\ code[d].state = "none" => guesses[d] = 0
        /\ code[d].state # "deleted" => guesses[d] <= code[d].attempts + Cardinality(Pending(d)) + deaths
    BY DEF GInv, GuessesAreCounted
  <2>3. Cardinality(Pending(d)') = Cardinality(Pending(d)) /\ code'[d].attempts = code[d].attempts
    <3>1. Pending(d)' = Pending(d)
      BY <1>5
    <3>2. code'[d].attempts = code[d].attempts
      BY <2>1
    <3> QED
      BY <3>1, <3>2, Zenon
  <2>4. code'[d].state = "none" => code[d].state = "none"
    BY <2>1
  <2>5. code'[d].state # "deleted" => code[d].state # "deleted"
    BY <1>1, <2>1
  <2> QED
    BY <2>2, <2>3, <2>4, <2>5
<1> QED
  BY <1>4, <1>6, <1>7, <1>8 DEF GInv

\* The guess of a code is compared.
LEMMA GuessStep == ASSUME GInv, NEW k \in Caller, NEW c \in Code, NEW right \in BOOLEAN, Guess(k, c, right) PROVE GInv'
<1> DEFINE x == [Free EXCEPT !.pc = IF right THEN "lock" ELSE "count", !.code = c]
<1>1. x \in CallerState /\ x.pc = (IF right THEN "lock" ELSE "count") /\ x.code = c
  BY Shapes DEF Free
<1>2. caller[k].pc = "idle" /\ caller' = [caller EXCEPT ![k] = x]
  BY Shapes DEF Guess
<1>3. UNCHANGED <<code, order, members, free, published, tierLock, deaths>>
  BY DEF Guess
<1>4. code[c].state = "open" /\ code[c].attempts < MaxAttempts
  BY DEF Guess, Usable
<1>5. guesses' = [guesses EXCEPT ![c] = IF right THEN @ ELSE @ + 1]
  BY DEF Guess
<1> HIDE DEF x
<1>6. /\ Creating' = Creating
      /\ \A d \in Code : Pending(d)' = IF ~right /\ d = c THEN Pending(d) \cup {k} ELSE Pending(d)
      /\ k \notin Pending(c)
  <2>1. /\ Creating' = Creating \ {k}
        /\ \A d : Pending(d)' = IF x.pc = "count" /\ x.code = d THEN Pending(d) \cup {k} ELSE Pending(d) \ {k}
    BY <1>1, <1>2, CallerMoves DEF GInv
  <2>2. k \notin Creating /\ \A d : k \notin Pending(d)
    BY <1>2 DEF Creating, Pending
  <2> QED
    BY <1>1, <2>1, <2>2
<1>7. /\ \A d \in Code : Cardinality(Pending(d)') = Cardinality(Pending(d)) + IF ~right /\ d = c THEN 1 ELSE 0
      /\ ~right => Cardinality(Pending(c)) + 1 <= Cardinality(Caller)
  <2>1. Cardinality(Pending(c) \cup {k}) = Cardinality(Pending(c)) + 1
    BY <1>6, FiniteCounts, FS_AddElement
  <2>2. Pending(c) \cup {k} \in SUBSET Caller /\ IsFiniteSet(Caller)
    BY GuestAssumption DEF Pending
  <2>3. Cardinality(Pending(c) \cup {k}) <= Cardinality(Caller)
    BY <2>2, FS_Subset
  <2>4. ASSUME NEW d \in Code
        PROVE  Cardinality(Pending(d)') = Cardinality(Pending(d)) + IF ~right /\ d = c THEN 1 ELSE 0
    <3>1. Cardinality(Pending(d)) \in Nat
      BY FiniteCounts
    <3>2. CASE ~right /\ d = c
      <4>1. Pending(d)' = Pending(c) \cup {k}
        BY <1>6, <3>2
      <4> QED
        BY <2>1, <3>2, <4>1
    <3>3. CASE ~(~right /\ d = c)
      <4>1. Pending(d)' = Pending(d)
        BY <1>6, <3>3
      <4> QED
        BY <3>1, <3>3, <4>1
    <3> QED
      BY <3>2, <3>3
  <2> QED
    BY <2>1, <2>3, <2>4
<1>8. GuestTypeOK'
  BY <1>1, <1>2, <1>3, <1>5 DEF GInv, GuestTypeOK
<1>9. CodesAreLeft'
  BY <1>3, <1>6, RowsKept DEF GInv, CodesAreLeft
<1>10. CallersKnowTheirCode'
  BY <1>1, <1>2, <1>3, <1>4 DEF GInv, CallersKnowTheirCode, GuestTypeOK
<1>11. TiersAreHeld'
  BY <1>1, <1>2, <1>3, RowsKept DEF GInv, TiersAreHeld, GuestTypeOK
<1>12. ASSUME NEW d \in Code
       PROVE  /\ code[d].state = "none" => guesses'[d] = 0
              /\ code[d].state # "deleted" => guesses'[d] <= code[d].attempts + Cardinality(Pending(d)') + deaths
              /\ guesses'[d] <= MaxAttempts + (Cardinality(Caller) - 1) + deaths
  <2>1. code[d].attempts \in Nat /\ guesses[d] \in Nat /\ deaths \in Nat /\ MaxAttempts \in Nat
    BY GuestAssumption DEF GInv, GuestTypeOK, CodeRow
  <2>2. Cardinality(Pending(d)) \in Nat /\ Cardinality(Caller) \in Nat
    BY FiniteCounts
  <2>3. guesses'[d] = guesses[d] + IF ~right /\ d = c THEN 1 ELSE 0
    BY <1>5, <2>1 DEF GInv, GuestTypeOK
  <2>4. /\ code[d].state = "none" => guesses[d] = 0
        /\ code[d].state # "deleted" => guesses[d] <= code[d].attempts + Cardinality(Pending(d)) + deaths
        /\ guesses[d] <= MaxAttempts + (Cardinality(Caller) - 1) + deaths
    BY DEF GInv, GuessesAreCounted, GuessesAreBounded
  <2>5. Cardinality(Pending(d)') = Cardinality(Pending(d)) + IF ~right /\ d = c THEN 1 ELSE 0
    BY <1>7
  <2>6. CASE ~right /\ d = c
    BY <1>4, <1>7, <2>1, <2>2, <2>3, <2>4, <2>5, <2>6
  <2>7. CASE ~(~right /\ d = c)
    BY <2>1, <2>2, <2>3, <2>4, <2>5, <2>7
  <2> QED
    BY <2>6, <2>7
<1> QED
  BY <1>3, <1>8, <1>9, <1>10, <1>11, <1>12, RowsKept DEF GInv, GuessesAreCounted, GuessesAreBounded

\* The wrong guess is counted, if the code is still there.
LEMMA CountGuessStep == ASSUME GInv, NEW k \in Caller, CountGuess(k) PROVE GInv'
<1> DEFINE c == caller[k].code
           row == IF code[c].state = "deleted" THEN code[c] ELSE [code[c] EXCEPT !.attempts = code[c].attempts + 1]
<1>1. Leave(k) /\ caller[k].pc = "count" /\ UNCHANGED <<guesses, order, members, free, published, tierLock, deaths>>
  BY DEF CountGuess
<1>2. c \in Code /\ code[c].state # "none" /\ code[c] \in CodeRow
  BY <1>1 DEF GInv, CallersKnowTheirCode, GuestTypeOK
<1>3. /\ row \in CodeRow /\ row.state = code[c].state /\ row.email = code[c].email /\ row.tier = code[c].tier
      /\ row.quantity = code[c].quantity
      /\ row.attempts = IF code[c].state = "deleted" THEN code[c].attempts ELSE code[c].attempts + 1
  BY <1>2, Shapes DEF CodeRow
<1>4. code' = [code EXCEPT ![c] = row]
  <2>1. CASE code[c].state = "deleted"
    BY <1>2, <2>1 DEF CountGuess, GInv, GuestTypeOK
  <2>2. CASE code[c].state # "deleted"
    BY <1>2, <2>2 DEF CountGuess, GInv, GuestTypeOK
  <2> QED
    BY <2>1, <2>2
<1> HIDE DEF row
<1>5. /\ code' \in [Code -> CodeRow] /\ Unborn' = Unborn
      /\ CodesAreComplete' /\ OneBookingPerAddress' /\ GuestsNeverOversell' /\ IsFiniteSet(order')
      /\ \A t : GuestTickets(t)' = GuestTickets(t)
      /\ \A d \in Code : /\ code'[d].state # "none" <=> code[d].state # "none"
                         /\ code'[d].email = code[d].email /\ code'[d].tier = code[d].tier
                         /\ code'[d].quantity = code[d].quantity
  <2>1. row.state # "none" /\ (row.state = "consumed" <=> code[c].state = "consumed")
    BY <1>2, <1>3
  <2> HIDE DEF c
  <2> QED
    BY <1>1, <1>2, <1>3, <1>4, <2>1, CodeKept
<1>6. /\ caller' \in [Caller -> CallerState] /\ caller'[k].pc = "idle"
      /\ \A j \in Caller \ {k} : caller'[j] = caller[j]
      /\ Cardinality(Creating') = Cardinality(Creating)
      /\ \A d : Cardinality(Pending(d)') = IF c = d THEN Cardinality(Pending(d)) - 1 ELSE Cardinality(Pending(d))
  BY <1>1, Leaves
<1>7. GuestTypeOK' /\ CodesAreLeft'
  BY <1>1, <1>5, <1>6 DEF GInv, GuestTypeOK, CodesAreLeft
<1>8. CallersKnowTheirCode'
  BY <1>5, <1>6 DEF GInv, CallersKnowTheirCode
<1>9. TiersAreHeld'
  BY <1>1, <1>5, <1>6 DEF GInv, TiersAreHeld
<1>10. GuessesAreBounded'
  BY <1>1 DEF GInv, GuessesAreBounded
<1>11. GuessesAreCounted'
  <2> SUFFICES ASSUME NEW d \in Code
               PROVE  /\ code'[d].state = "none" => guesses[d] = 0
                      /\ code'[d].state # "deleted" => guesses[d] <= code'[d].attempts + Cardinality(Pending(d)') + deaths
    BY <1>1 DEF GuessesAreCounted
  <2>1. /\ code[d].state = "none" => guesses[d] = 0
        /\ code[d].state # "deleted" => guesses[d] <= code[d].attempts + Cardinality(Pending(d)) + deaths
    BY DEF GInv, GuessesAreCounted
  <2>2. /\ code[d].attempts \in Nat /\ guesses[d] \in Nat /\ deaths \in Nat
        /\ Cardinality(Pending(d)) \in Nat
    BY GuestAssumption, FiniteCounts DEF GInv, GuestTypeOK, CodeRow
  <2>3. /\ code'[d].state = code[d].state
        /\ code'[d].attempts = IF d = c /\ code[d].state # "deleted" THEN code[d].attempts + 1 ELSE code[d].attempts
    BY <1>3, <1>4 DEF GInv, GuestTypeOK
  <2>4. Cardinality(Pending(d)') = IF c = d THEN Cardinality(Pending(d)) - 1 ELSE Cardinality(Pending(d))
    BY <1>6
  <2> QED
    BY <2>1, <2>2, <2>3, <2>4
<1> QED
  BY <1>5, <1>7, <1>8, <1>9, <1>10, <1>11 DEF GInv

\* A right guess takes the lock of its tier and counts again.
LEMMA ConfirmLockStep == ASSUME GInv, NEW k \in Caller, ConfirmLock(k) PROVE GInv'
<1> DEFINE c == caller[k].code
           r == code[c]
           x == [pc |-> "book", code |-> c, email |-> r.email, tier |-> r.tier, quantity |-> r.quantity]
<1>1. caller[k].pc = "lock" /\ UNCHANGED <<code, guesses, order, members, free, published, deaths>>
  BY DEF ConfirmLock
<1>2. c \in Code /\ r.state # "none" /\ r.email \in Address /\ r.tier \in Tier /\ r.quantity \in Quantity
  BY <1>1 DEF GInv, CallersKnowTheirCode, CodesAreComplete
<1>3. x \in CallerState /\ x.pc = "book" /\ x.code = c /\ x.email = r.email /\ x.tier = r.tier /\ x.quantity = r.quantity
  BY <1>2, Shapes
<1>4. /\ caller' = [caller EXCEPT ![k] = x] /\ tierLock' = [tierLock EXCEPT ![r.tier] = k]
      /\ tierLock[r.tier] = Nobody /\ GuestTickets(r.tier) + members[r.tier] + r.quantity <= Capacity
  BY DEF ConfirmLock, TierIsFree, RoomFor
<1> HIDE DEF x
<1>5. Creating' = Creating /\ \A d : Pending(d)' = Pending(d)
  <2>1. Creating' = Creating \ {k} /\ \A d : Pending(d)' = Pending(d) \ {k}
    BY <1>3, <1>4, CallerMoves DEF GInv
  <2>2. k \notin Creating /\ \A d : k \notin Pending(d)
    BY <1>1 DEF Creating, Pending
  <2> QED
    BY <2>1, <2>2
<1>6. GuestTypeOK'
  BY <1>1, <1>2, <1>3, <1>4 DEF GInv, GuestTypeOK
<1>7. CodesAreLeft'
  BY <1>1, <1>5, RowsKept DEF GInv, CodesAreLeft
<1>8. CallersKnowTheirCode'
  BY <1>1, <1>2, <1>3, <1>4 DEF GInv, CallersKnowTheirCode, GuestTypeOK
<1>9. TiersAreHeld'
  <2> SUFFICES ASSUME NEW j \in Caller, caller'[j].pc = "book"
               PROVE  /\ tierLock'[caller'[j].tier] = j
                      /\ GuestTickets(caller'[j].tier) + members[caller'[j].tier] + caller'[j].quantity <= Capacity
    BY <1>1, RowsKept DEF TiersAreHeld
  <2>1. CASE j = k
    BY <1>2, <1>3, <1>4, <2>1 DEF GInv, GuestTypeOK
  <2>2. CASE j # k
    <3>1. caller'[j] = caller[j] /\ tierLock[caller[j].tier] = j
      BY <1>4, <2>2 DEF GInv, TiersAreHeld, GuestTypeOK
    <3>2. caller[j].tier # r.tier
      BY <1>4, <3>1, GuestAssumption
    <3> QED
      BY <1>4, <3>1, <3>2, <2>2 DEF GInv, TiersAreHeld, GuestTypeOK
  <2> QED
    BY <2>1, <2>2
<1>10. GuessesAreCounted' /\ GuessesAreBounded'
  BY <1>1, <1>5 DEF GInv, GuessesAreCounted, GuessesAreBounded
<1> QED
  BY <1>1, <1>6, <1>7, <1>8, <1>9, <1>10, RowsKept DEF GInv

\* The booking is written, unless the code was used or the address has booked meanwhile.
LEMMA ConfirmCommitStep == ASSUME GInv, NEW k \in Caller, ConfirmCommit(k) PROVE GInv'
<1> DEFINE r == caller[k]
           c == r.code
           o == [code |-> c, email |-> r.email, tier |-> r.tier, quantity |-> r.quantity]
<1>1. /\ Leave(k) /\ Unlock(k) /\ r.pc = "book" /\ code[c].state \in {"open", "expired"}
      /\ \A p \in order : p.email # r.email
      /\ code' = [code EXCEPT ![c].state = "consumed"] /\ order' = order \cup {o}
      /\ UNCHANGED <<guesses, members, free, published, deaths>>
  BY DEF ConfirmCommit, StillUsable, SameKey
<1>2. /\ c \in Code /\ code[c] \in CodeRow
      /\ code[c].email = r.email /\ code[c].tier = r.tier /\ code[c].quantity = r.quantity
  BY <1>1 DEF GInv, CallersKnowTheirCode, GuestTypeOK
<1>3. r.email \in Address /\ r.tier \in Tier /\ r.quantity \in Quantity
  BY <1>1, <1>2 DEF GInv, CodesAreComplete
<1>4. o \in OrderRow /\ o \notin order /\ o.email = r.email /\ o.tier = r.tier /\ o.quantity = r.quantity /\ o.code = c
  BY <1>1, <1>2, <1>3 DEF OrderRow
<1>5. /\ code' \in [Code -> CodeRow] /\ code'[c].state = "consumed"
      /\ \A d \in Code : /\ d # c => code'[d] = code[d]
                         /\ code'[d].email = code[d].email /\ code'[d].tier = code[d].tier
                         /\ code'[d].quantity = code[d].quantity /\ code'[d].attempts = code[d].attempts
  <2>1. code' = [code EXCEPT ![c] = [code[c] EXCEPT !.state = "consumed"]]
    BY <1>1
  <2>2. [code[c] EXCEPT !.state = "consumed"] \in CodeRow
    BY <1>2, Shapes
  <2>3. \A d \in Code : code[d] \in CodeRow
    BY DEF GInv, GuestTypeOK
  <2>4. code' \in [Code -> CodeRow] /\ code'[c].state = "consumed"
    BY <1>2, <2>1, <2>2 DEF GInv, GuestTypeOK, CodeRow
  <2>5. ASSUME NEW d \in Code
        PROVE  /\ d # c => code'[d] = code[d]
               /\ code'[d].email = code[d].email /\ code'[d].tier = code[d].tier
               /\ code'[d].quantity = code[d].quantity /\ code'[d].attempts = code[d].attempts
    BY <1>2, <2>1, <2>3 DEF GInv, GuestTypeOK, CodeRow
  <2> QED
    BY <2>4, <2>5
<1> HIDE DEF o, c
<1>6. /\ caller' \in [Caller -> CallerState] /\ caller'[k].pc = "idle"
      /\ \A j \in Caller \ {k} : caller'[j] = caller[j]
      /\ Cardinality(Creating') = Cardinality(Creating)
      /\ \A d : Cardinality(Pending(d)') = Cardinality(Pending(d))
  BY <1>1, Leaves
<1>7. /\ tierLock' \in [Tier -> Caller \cup {Nobody}] /\ tierLock[r.tier] = k
      /\ \A t \in Tier, j \in Caller \ {k} : tierLock[t] = j => tierLock'[t] = j
  BY <1>1 DEF Unlock, GInv, GuestTypeOK, TiersAreHeld
<1>8. ASSUME NEW t \in Tier
      PROVE  GuestTickets(t)' = IF t = r.tier THEN GuestTickets(t) + r.quantity ELSE GuestTickets(t)
  <2> DEFINE O == {p \in order : p.tier = t}
  <2>1. CASE t = r.tier
    <3>1. {p \in order' : p.tier = t} = O \cup {o} /\ o \notin O
      BY <1>1, <1>4, <2>1
    <3>2. IsFiniteSet(O)
      BY FS_Subset DEF GInv
    <3>3. Cardinality(TicketsOf(O \cup {o})) = Cardinality(TicketsOf(O)) + o.quantity
      BY <1>4, <3>1, <3>2, TicketsOfOneMore
    <3> QED
      BY <1>4, <2>1, <3>1, <3>3 DEF GuestTickets, TicketsOf
  <2>2. CASE t # r.tier
    <3>1. {p \in order' : p.tier = t} = O
      BY <1>1, <1>4, <2>2
    <3> QED
      BY <2>2, <3>1 DEF GuestTickets, TicketsOf
  <2> QED
    BY <2>1, <2>2
<1>9. GuestTypeOK'
  BY <1>1, <1>4, <1>5, <1>6, <1>7 DEF GInv, GuestTypeOK
<1>10. IsFiniteSet(order')
  BY <1>1, FS_AddElement DEF GInv
<1>11. CodesAreLeft'
  <2>1. Unborn' = Unborn
    BY <1>1, <1>5 DEF Unborn
  <2> QED
    BY <1>6, <2>1 DEF GInv, CodesAreLeft
<1>12. CodesAreComplete'
  BY <1>2, <1>3, <1>5 DEF GInv, CodesAreComplete
<1>13. CallersKnowTheirCode'
  <2>1. \A d \in Code : code[d].state # "none" => code'[d].state # "none"
    BY <1>5
  <2> QED
    BY <1>5, <1>6, <2>1 DEF GInv, CallersKnowTheirCode
<1>14. TiersAreHeld'
  <2>1. ASSUME NEW j \in Caller, caller'[j].pc = "book", NEW t \in Tier, t = caller[j].tier
        PROVE  /\ caller'[j] = caller[j] /\ tierLock'[t] = j
               /\ GuestTickets(t)' + members'[t] + caller[j].quantity <= Capacity
    <3>1. j # k /\ caller'[j] = caller[j] /\ tierLock[t] = j
      BY <1>6, <2>1 DEF GInv, TiersAreHeld
    <3>2. t # r.tier
      BY <1>7, <3>1
    <3>3. GuestTickets(t)' = GuestTickets(t)
      BY <1>8, <3>2
    <3> QED
      BY <1>1, <1>7, <2>1, <3>1, <3>3 DEF GInv, TiersAreHeld
  <2>2. ASSUME NEW j \in Caller, caller'[j].pc = "book"
        PROVE  caller'[j] = caller[j] /\ caller[j].tier \in Tier
    BY <1>6, <2>2 DEF GInv, CallersKnowTheirCode, CodesAreComplete
  <2> QED
    BY <2>1, <2>2 DEF TiersAreHeld, GuestTickets
<1>15. GuestsNeverOversell'
  <2>1. GuestTickets(r.tier) + members[r.tier] + r.quantity <= Capacity
    BY <1>1 DEF GInv, TiersAreHeld
  <2>2. ASSUME NEW t \in Tier PROVE GuestTickets(t)' + members[t] <= Capacity
    <3>1. CASE t = r.tier
      <4>1. GuestTickets(t) \in Nat /\ members[t] \in Nat /\ r.quantity \in Nat
        <5>1. IsFiniteSet({p \in order : p.tier = t}) /\ o \notin {p \in order : p.tier = t}
          BY <1>4, FS_Subset DEF GInv
        <5>2. GuestTickets(t) \in Nat
          BY <1>4, <5>1, TicketsOfOneMore DEF GuestTickets
        <5> QED
          BY <1>3, <5>2 DEF GInv, GuestTypeOK, Quantity
      <4> QED
        BY <1>8, <2>1, <3>1, <4>1, GuestAssumption
    <3>2. CASE t # r.tier
      BY <1>8, <3>2 DEF GInv, GuestsNeverOversell
    <3> QED
      BY <3>1, <3>2
  <2> QED
    BY <1>1, <2>2 DEF GuestsNeverOversell
<1>16. OneBookingPerAddress'
  <2>1. \A p, q \in order' : p.email = q.email => p = q
    BY <1>1, <1>4 DEF GInv, OneBookingPerAddress
  <2>2. \A d \in Code : code'[d].state = "consumed" <=> \E p \in order' : p.code = d
    BY <1>1, <1>4, <1>5 DEF GInv, OneBookingPerAddress
  <2>3. \A p \in order' : code'[p.code].email = p.email /\ code'[p.code].tier = p.tier
    BY <1>1, <1>2, <1>4, <1>5 DEF GInv, OneBookingPerAddress, GuestTypeOK, OrderRow
  <2> QED
    BY <2>1, <2>2, <2>3 DEF OneBookingPerAddress
<1>17. GuessesAreCounted' /\ GuessesAreBounded'
  <2>1. ASSUME NEW d \in Code
        PROVE  /\ code'[d].state = "none" => guesses[d] = 0
               /\ code'[d].state # "deleted" => guesses[d] <= code'[d].attempts + Cardinality(Pending(d)') + deaths
    <3>1. /\ code'[d].state = "none" => code[d].state = "none"
          /\ code'[d].state # "deleted" => code[d].state # "deleted"
          /\ code'[d].attempts = code[d].attempts
      BY <1>1, <1>5
    <3>2. Cardinality(Pending(d)') = Cardinality(Pending(d))
      BY <1>6
    <3> QED
      BY <3>1, <3>2 DEF GInv, GuessesAreCounted
  <2> QED
    BY <1>1, <2>1 DEF GInv, GuessesAreCounted, GuessesAreBounded
<1> QED
  BY <1>9, <1>10, <1>11, <1>12, <1>13, <1>14, <1>15, <1>16, <1>17 DEF GInv

\* The booking of a member waits for the lock of the tier's row.
LEMMA MemberBooksStep == ASSUME GInv, NEW t \in Tier, MemberBooks(t) PROVE GInv'
<1>1. /\ tierLock[t] = Nobody /\ GuestTickets(t) + members[t] + 1 <= Capacity
      /\ members' = [members EXCEPT ![t] = @ + 1]
      /\ UNCHANGED <<code, guesses, order, free, published, caller, tierLock, deaths>>
  BY DEF MemberBooks
<1>2. GuestTypeOK'
  BY <1>1 DEF GInv, GuestTypeOK
<1>3. \A u \in Tier : members'[u] = IF u = t THEN members[u] + 1 ELSE members[u]
  BY <1>1 DEF GInv, GuestTypeOK
<1>4. \A u : GuestTickets(u)' = GuestTickets(u)
  BY <1>1 DEF GuestTickets
<1>5. GuestTickets(t) \in Nat
  <2> DEFINE O == {o \in order : o.tier = t}
  <2>1. IsFiniteSet(O)
    BY FS_Subset DEF GInv
  <2>2. IsFiniteSet(Quantity)
    BY GuestAssumption, FS_Interval DEF Quantity
  <2>3. IsFiniteSet(O \X Quantity)
    BY <2>1, <2>2, FS_Product
  <2>4. TicketsOf(O) \in SUBSET (O \X Quantity)
    BY DEF TicketsOf
  <2> QED
    BY <2>3, <2>4, FS_Subset, FS_CardinalityType DEF GuestTickets
<1>6. GuestsNeverOversell'
  <2>1. members[t] \in Nat
    BY DEF GInv, GuestTypeOK
  <2>2. GuestTickets(t) + (members[t] + 1) <= Capacity
    BY <1>1, <1>5, <2>1, GuestAssumption
  <2> QED
    BY <1>3, <1>4, <2>2 DEF GInv, GuestsNeverOversell
<1>7. TiersAreHeld'
  <2>1. ASSUME NEW k \in Caller, caller[k].pc = "book", NEW u \in Tier, u = caller[k].tier
        PROVE  tierLock[u] = k /\ GuestTickets(u)' + members'[u] + caller[k].quantity <= Capacity
    <3>1. tierLock[u] = k /\ u # t
      BY <1>1, <2>1, GuestAssumption DEF GInv, TiersAreHeld
    <3> QED
      BY <1>3, <1>4, <2>1, <3>1 DEF GInv, TiersAreHeld
  <2>2. \A k \in Caller : caller[k].pc = "book" => caller[k].tier \in Tier
    BY DEF GInv, CallersKnowTheirCode, CodesAreComplete
  <2> QED
    BY <1>1, <2>1, <2>2 DEF TiersAreHeld, GuestTickets
<1>8. CodesAreLeft' /\ CodesAreComplete' /\ CallersKnowTheirCode'
  BY <1>1 DEF GInv, CodesAreLeft, Creating, Unborn, CodesAreComplete, CallersKnowTheirCode
<1>9. GuessesAreCounted' /\ GuessesAreBounded'
  BY <1>1 DEF GInv, GuessesAreCounted, Pending, GuessesAreBounded
<1>10. OneBookingPerAddress' /\ IsFiniteSet(order')
  BY <1>1 DEF GInv, OneBookingPerAddress
<1> QED
  BY <1>2, <1>6, <1>7, <1>8, <1>9, <1>10 DEF GInv

\* What the organiser does to the event, and steps of nobody.
LEMMA EventSteps == ASSUME GInv, TierGetsPrice \/ EventCloses \/ UNCHANGED guestVars PROVE GInv'
<1>1. UNCHANGED <<code, guesses, order, members, caller, tierLock, deaths>>
  BY DEF TierGetsPrice, EventCloses, guestVars
<1>2. free' \in BOOLEAN /\ published' \in BOOLEAN
  BY DEF TierGetsPrice, EventCloses, guestVars, GInv, GuestTypeOK
<1>3. GuestTypeOK'
  BY <1>1, <1>2 DEF GInv, GuestTypeOK
<1>4. TiersAreHeld'
  BY <1>1 DEF GInv, TiersAreHeld, GuestTickets
<1>5. CodesAreLeft' /\ CallersKnowTheirCode'
  BY <1>1 DEF GInv, CodesAreLeft, Creating, Unborn, CallersKnowTheirCode
<1>6. GuessesAreCounted' /\ GuessesAreBounded'
  BY <1>1 DEF GInv, GuessesAreCounted, Pending, GuessesAreBounded
<1> QED
  BY <1>1, <1>3, <1>4, <1>5, <1>6, RowsKept DEF GInv

-----------------------------------------------------------------------------
(* The theorems. *)

\* Every reachable state of guest bookings, of any size, satisfies the invariant:
\* what a confirmation has counted under its tier's lock stays true until it ends.
THEOREM GuestInvariance == GuestSpec => []GInv
<1>1. GInv /\ [GuestNext]_guestVars => GInv'
  <2> SUFFICES ASSUME GInv, [GuestNext]_guestVars PROVE GInv'
    OBVIOUS
  <2>1. ASSUME NEW k \in Caller, NEW e \in Address, NEW t \in Tier, NEW q \in Quantity, AskStart(k, e, t, q)
        PROVE  GInv'
    BY <2>1, AskStartStep
  <2>2. ASSUME NEW k \in Caller, NEW c \in Code, NEW right \in BOOLEAN, Guess(k, c, right) PROVE GInv'
    BY <2>2, GuessStep
  <2>3. ASSUME NEW k \in Caller, AskCommit(k) PROVE GInv'
    BY <2>3, AskCommitStep
  <2>4. ASSUME NEW k \in Caller, CountGuess(k) PROVE GInv'
    BY <2>4, CountGuessStep
  <2>5. ASSUME NEW k \in Caller, ConfirmLock(k) PROVE GInv'
    BY <2>5, ConfirmLockStep
  <2>6. ASSUME NEW k \in Caller, ConfirmRefused(k) \/ ConfirmRollsBack(k) \/ CallerDies(k) PROVE GInv'
    BY <2>6, EndSteps
  <2>7. ASSUME NEW k \in Caller, ConfirmCommit(k) PROVE GInv'
    BY <2>7, ConfirmCommitStep
  <2>8. ASSUME NEW c \in Code, CodeExpires(c) PROVE GInv'
    BY <2>8, CodeExpiresStep
  <2>9. ASSUME NEW t \in Tier, MemberBooks(t) PROVE GInv'
    BY <2>9, MemberBooksStep
  <2>10. CASE TierGetsPrice \/ EventCloses \/ UNCHANGED guestVars
    BY <2>10, EventSteps
  <2> QED
    BY <2>1, <2>2, <2>3, <2>4, <2>5, <2>6, <2>7, <2>8, <2>9, <2>10, Zenon DEF GuestNext
<1> QED
  BY Inits, <1>1, PTL DEF GuestSpec

\* However many confirmations of an address run at once, one of them books, and each
\* consumed code made exactly one booking (the unique bookingKey).
THEOREM AddressBooksOnce == GuestSpec => []OneBookingPerAddress
<1>1. GInv => OneBookingPerAddress
  BY DEF GInv
<1> QED
  BY GuestInvariance, <1>1, PTL

\* Guests and members together never hold more tickets of a tier than it has seats.
THEOREM SeatsSuffice == GuestSpec => []GuestsNeverOversell
<1>1. GInv => GuestsNeverOversell
  BY DEF GInv
<1> QED
  BY GuestInvariance, <1>1, PTL

\* A code meets at most MaxAttempts wrong guesses, and one more for each other request
\* at a time and for each that died.
THEOREM GuessesBound == GuestSpec => []GuessesAreBounded
<1>1. GInv => GuessesAreBounded
  BY DEF GInv
<1> QED
  BY GuestInvariance, <1>1, PTL

-----------------------------------------------------------------------------
(***************************************************************************)
(* Proofs about the scans at the door, for any number of persons, scans    *)
(* and tickets.  Why a ticket admits once and a revoked scanner admits     *)
(* nobody is the same for both: a scan decides by what it has read, and    *)
(* the locks it holds keep what it has read as it was (LocksKeepWhatIsRead *)
(* and OneScanPerTicket).                                                  *)
(***************************************************************************)

\* A scan that is over remembers nothing; one in progress has a scanner and a ticket.
ScansAreComplete ==
    \A s \in Scan : IF scan[s].pc = "idle" THEN scan[s] = Quiet
                    ELSE scan[s].by \in Person /\ scan[s].seat \in Seat

\* FOR UPDATE: of the scans of one ticket, one has its row.
OneScanPerTicket ==
    \A s, r \in Scan : Past(s, {"ticket"}) /\ Past(r, {"ticket"}) /\ scan[s].seat = scan[r].seat => s = r

\* The account, the assignment and the event that a scan has checked, and the status
\* of the ticket that it has read, are still what they were.
LocksKeepWhatIsRead ==
    \A s \in Scan :
        /\ ~Past(s, {"idle"}) => scan[s].by \notin blocked
        /\ Past(s, {"staff", "ticket"}) => scan[s].by \in Admin \cup staff /\ door = "open"
        /\ Past(s, {"ticket"}) => scan[s].seen = seat[scan[s].seat]

AInv ==
    /\ AdmissionTypeOK
    /\ AdmittedOnce
    /\ ScansAreComplete
    /\ OneScanPerTicket
    /\ LocksKeepWhatIsRead

USE AdmissionsAssumption

\* A scan that has begun is of the shape it declares.
LEMMA ScanStates ==
    /\ Quiet \in ScanState
    /\ \A p \in Person, t \in Seat : [pc |-> "actor", by |-> p, seat |-> t, seen |-> Unknown] \in ScanState
    /\ \A r \in ScanState : /\ [r EXCEPT !.pc = "event"] \in ScanState
                            /\ [r EXCEPT !.pc = "staff"] \in ScanState
    /\ \A r \in ScanState, st \in SeatStatus : [r EXCEPT !.pc = "ticket", !.seen = st] \in ScanState
  BY DEF ScanState, Quiet

\* The count of answers starts at 0 and may reach 1.
LEMMA Counts == 0 \in 0..MaxScans /\ 1 \in 0..MaxScans
  BY AdmissionsAssumption

\* Before the first scan.
LEMMA ScansStart == AdmissionInit => AInv
<1> SUFFICES ASSUME AdmissionInit PROVE AInv
  OBVIOUS
<1>1. \A s \in Scan : scan[s] = Quiet /\ scan[s].pc = "idle"
  BY DEF AdmissionInit, Quiet
<1>2. AdmissionTypeOK
  <2>1. admitted \in [Seat -> 0..MaxScans] /\ scan \in [Scan -> ScanState]
    BY Counts, ScanStates DEF AdmissionInit
  <2>2. seat \in [Seat -> SeatStatus] /\ door \in DoorStatus
    BY DEF AdmissionInit, SeatStatus, DoorStatus
  <2>3. blocked \subseteq Person /\ staff \subseteq Person /\ checkedBy \in [Seat -> Person \cup {Unknown}]
    BY DEF AdmissionInit
  <2> QED
    BY <2>1, <2>2, <2>3 DEF AdmissionTypeOK
<1>3. AdmittedOnce
  BY DEF AdmissionInit, AdmittedOnce
<1> QED
  BY <1>1, <1>2, <1>3 DEF AInv, ScansAreComplete, OneScanPerTicket, LocksKeepWhatIsRead, Past

\* The steps of a scan that only change its own progress.
LEMMA ScanSteps ==
    ASSUME AInv, NEW s \in Scan,
           \/ \E p \in Person, t \in Seat : ScanActor(s, p, t)
           \/ ScanEvent(s) \/ ScanStaff(s) \/ ScanTicket(s) \/ ScanDies(s)
    PROVE  AInv'
<1> USE DEF AInv, world
<1>1. UNCHANGED world
  BY DEF ScanActor, ScanEvent, ScanStaff, ScanTicket, ScanDies
<1>2. AdmissionTypeOK'
  <2>1. scan[s] \in ScanState /\ scan \in [Scan -> ScanState]
    BY DEF AdmissionTypeOK
  <2>2. ASSUME ScanTicket(s) PROVE seat[scan[s].seat] \in SeatStatus
    BY <2>2 DEF AdmissionTypeOK, ScansAreComplete, ScanTicket
  <2>3. \E x \in ScanState : scan' = [scan EXCEPT ![s] = x]
    <3>1. ASSUME NEW p \in Person, NEW t \in Seat, ScanActor(s, p, t) PROVE <2>3
      BY <3>1, ScanStates DEF ScanActor
    <3>2. ASSUME ScanEvent(s) \/ ScanStaff(s) \/ ScanDies(s) PROVE <2>3
      BY <2>1, <3>2, ScanStates DEF ScanEvent, ScanStaff, ScanDies, Refused, Advance
    <3>3. ASSUME ScanTicket(s) PROVE <2>3
      BY <2>1, <2>2, <3>3, ScanStates DEF ScanTicket
    <3> QED
      BY <3>1, <3>2, <3>3
  <2> QED
    BY <1>1, <2>1, <2>3 DEF AdmissionTypeOK
<1>3. AdmittedOnce'
  BY <1>1 DEF AdmittedOnce
<1>4. ScansAreComplete'
  BY DEF AdmissionTypeOK, ScansAreComplete, ScanState, Quiet, ScanActor, ScanEvent, ScanStaff, ScanTicket, ScanDies,
     Refused, Advance
<1>5. OneScanPerTicket'
  BY DEF AdmissionTypeOK, OneScanPerTicket, Past, ScanState, Quiet, ScanActor, ScanEvent, ScanStaff, ScanTicket,
     ScanDies, Refused, Advance, TicketHeld
<1>6. LocksKeepWhatIsRead'
  BY <1>1 DEF AdmissionTypeOK, LocksKeepWhatIsRead, Past, ScanState, Quiet, ScanActor, ScanEvent, ScanStaff,
     ScanTicket, ScanDies, Refused, Advance
<1> QED
  BY <1>2, <1>3, <1>4, <1>5, <1>6

\* The answer of a scan.
LEMMA AnswerStep == ASSUME AInv, NEW s \in Scan, ScanAnswer(s) PROVE AInv'
<1> USE DEF AInv
<1> DEFINE t == scan[s].seat
<1>1. scan[s].by \in Person /\ t \in Seat /\ scan[s] # Quiet
  BY DEF ScanAnswer, ScansAreComplete, Quiet
<1>2. scan' = [scan EXCEPT ![s] = Quiet] /\ UNCHANGED <<blocked, staff, door>>
  BY DEF ScanAnswer, Refused
<1>3. scan[s].seen = seat[t]
  BY DEF ScanAnswer, LocksKeepWhatIsRead, Past
<1>4. ScansAreComplete' /\ OneScanPerTicket'
  BY <1>2 DEF ScansAreComplete, OneScanPerTicket, AdmissionTypeOK, Past, Quiet
<1>5. CASE seat[t] # "CONFIRMED"
  <2>1. UNCHANGED <<seat, checkedBy, admitted>>
    BY <1>3, <1>5 DEF ScanAnswer
  <2> QED
    BY <1>2, <1>4, <2>1, ScanStates DEF AdmissionTypeOK, AdmittedOnce, LocksKeepWhatIsRead, Past, Quiet
<1>6. CASE seat[t] = "CONFIRMED"
  <2>1. /\ seat' = [seat EXCEPT ![t] = "CHECKED_IN"]
        /\ checkedBy' = [checkedBy EXCEPT ![t] = scan[s].by]
        /\ admitted' = [admitted EXCEPT ![t] = 1]
    <3>1. admitted[t] = 0
      BY <1>1, <1>6 DEF AdmittedOnce
    <3> QED
      BY <1>3, <1>6, <3>1 DEF ScanAnswer
  <2>2. AdmissionTypeOK'
    <3>1. scan' \in [Scan -> ScanState]
      BY <1>2, ScanStates DEF AdmissionTypeOK
    <3>2. admitted' \in [Seat -> 0..MaxScans]
      BY <2>1, Counts DEF AdmissionTypeOK
    <3>3. seat' \in [Seat -> SeatStatus]
      BY <2>1 DEF AdmissionTypeOK, SeatStatus
    <3>4. checkedBy' \in [Seat -> Person \cup {Unknown}]
      BY <1>1, <2>1 DEF AdmissionTypeOK
    <3> QED
      BY <1>2, <3>1, <3>2, <3>3, <3>4 DEF AdmissionTypeOK
  <2>3. AdmittedOnce'
    BY <1>1, <2>1 DEF AdmittedOnce, AdmissionTypeOK
  <2>4. \A r \in Scan \ {s} : Past(r, {"ticket"}) => scan[r].seat # t
    BY DEF ScanAnswer, OneScanPerTicket, Past
  <2>5. LocksKeepWhatIsRead'
    BY <1>1, <1>2, <2>1, <2>4 DEF LocksKeepWhatIsRead, AdmissionTypeOK, Past, Quiet, ScansAreComplete
  <2> QED
    BY <1>4, <2>2, <2>3, <2>5
<1> QED
  BY <1>5, <1>6

\* Everybody else writes the rows, and waits for the scans that have locked them.
LEMMA OtherSteps ==
    ASSUME AInv,
           \/ \E a, p \in Person : AssignStaff(a, p) \/ RemoveStaff(a, p)
           \/ \E p \in Person : AccountBlocked(p) \/ AccountRestored(p)
           \/ \E t \in Seat : TicketConfirmed(t)
           \/ EventMoves
    PROVE  AInv'
<1> USE DEF AInv
<1>1. scan' = scan
  BY DEF AssignStaff, RemoveStaff, AccountBlocked, AccountRestored, TicketConfirmed, EventMoves
<1>2. ScansAreComplete' /\ OneScanPerTicket'
  BY <1>1 DEF ScansAreComplete, OneScanPerTicket, Past
<1>3. ASSUME NEW a \in Person, NEW p \in Person, AssignStaff(a, p) \/ RemoveStaff(a, p) PROVE AInv'
  BY <1>1, <1>2, <1>3 DEF AssignStaff, RemoveStaff, StaffShared, AdmissionTypeOK, AdmittedOnce, LocksKeepWhatIsRead, Past
<1>4. ASSUME NEW p \in Person, AccountBlocked(p) \/ AccountRestored(p) PROVE AInv'
  BY <1>1, <1>2, <1>4 DEF AccountBlocked, AccountRestored, UserShared, AdmissionTypeOK, AdmittedOnce,
     LocksKeepWhatIsRead, Past
<1>5. ASSUME NEW t \in Seat, TicketConfirmed(t) PROVE AInv'
  <2>1. \A s \in Scan : Past(s, {"ticket"}) => scan[s].seat # t
    BY <1>5 DEF TicketConfirmed, TicketHeld
  <2> QED
    BY <1>1, <1>2, <1>5, <2>1 DEF TicketConfirmed, AdmissionTypeOK, AdmittedOnce, LocksKeepWhatIsRead, Past,
       SeatStatus, ScansAreComplete
<1>6. ASSUME EventMoves PROVE AInv'
  <2>1. \A s \in Scan : ~Past(s, {"event", "staff", "ticket"})
    BY <1>6 DEF EventMoves, EventShared
  <2> QED
    BY <1>1, <1>2, <1>6, <2>1 DEF EventMoves, AdmissionTypeOK, AdmittedOnce, LocksKeepWhatIsRead, Past, DoorStatus
<1> QED
  BY <1>3, <1>4, <1>5, <1>6

\* Steps of other parts of the site.
LEMMA Stutters == ASSUME AInv, UNCHANGED admissionVars PROVE AInv'
  BY DEF admissionVars, AInv, AdmissionTypeOK, AdmittedOnce, ScansAreComplete, OneScanPerTicket, LocksKeepWhatIsRead, Past

\* The inductive invariant.
THEOREM AdmissionInvariance == AdmissionSpec => []AInv
<1>1. ASSUME AInv, [AdmissionNext]_admissionVars PROVE AInv'
  BY <1>1, ScanSteps, AnswerStep, OtherSteps, Stutters DEF AdmissionNext
<1> QED
  BY ScansStart, <1>1, PTL DEF AdmissionSpec

\* A ticket admits once, whatever scans, moderation and changes of the event interleave
\* (admissions.service.ts:86).
THEOREM TicketsAdmitOnce == AdmissionSpec => []AdmittedOnce
  BY AdmissionInvariance, PTL DEF AInv

\* Whoever checks a ticket in is at that moment neither blocked nor removed, at an event
\* that is open (admissions.service.ts:84).
THEOREM RevocationsHold == AdmissionSpec => NoScanAfterRevocation
<1> DEFINE Honest == \A t \in Seat : seat[t] # "CHECKED_IN" /\ seat'[t] = "CHECKED_IN" =>
                        /\ checkedBy'[t] \notin blocked
                        /\ checkedBy'[t] \in Admin \cup staff
                        /\ door = "open"
<1>1. ASSUME AInv, AdmissionNext PROVE Honest
  <2> SUFFICES ASSUME NEW t \in Seat, seat[t] # "CHECKED_IN", seat'[t] = "CHECKED_IN"
               PROVE  checkedBy'[t] \notin blocked /\ checkedBy'[t] \in Admin \cup staff /\ door = "open"
    OBVIOUS
  <2>1. PICK s \in Scan : ScanAnswer(s)
    BY <1>1 DEF AdmissionNext, ScanActor, ScanEvent, ScanStaff, ScanTicket, ScanDies, world, AssignStaff, RemoveStaff,
       AccountBlocked, AccountRestored, TicketConfirmed, EventMoves, AInv, AdmissionTypeOK
  <2>2. scan[s].seat = t /\ checkedBy'[t] = scan[s].by
    BY <1>1, <2>1 DEF ScanAnswer, AInv, AdmissionTypeOK, ScansAreComplete, Quiet
  <2> QED
    BY <1>1, <2>1, <2>2 DEF ScanAnswer, AInv, LocksKeepWhatIsRead, Past
<1>2. ASSUME AInv, [AdmissionNext]_admissionVars PROVE [Honest]_admissionVars
  BY <1>1, <1>2
<1> QED
  BY AdmissionInvariance, <1>2, PTL DEF AdmissionSpec, NoScanAfterRevocation
=============================================================================

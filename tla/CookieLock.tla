------------------------------ MODULE CookieLock ------------------------------
(***************************************************************************)
(* The cookie lock of browsers without Web Locks (withCookieLock in        *)
(* lib/browser-session.ts): Lamport's bakery over localStorage, with       *)
(* leases.  Every claim has a key of its own; a lease that is not used up  *)
(* in 60 seconds is ignored and removed by whoever reads it, so that a tab *)
(* that was closed does not block the others for ever.                     *)
(*                                                                         *)
(* The tabs read and write single items of localStorage in any             *)
(* interleaving; the enumeration of its keys is one step, and a write is   *)
(* seen by the tabs that read after it.                                    *)
(***************************************************************************)
EXTENDS Naturals

\* The claims in the order of their keys.  A claim is made once.
CONSTANT Claim

ASSUME CookieLockAssumption == Claim \subseteq Nat

VARIABLES
    pc,         \* progress of each claim
    lease,      \* the item of each claim: ticket, choosing, expired; or No
    todo,       \* the keys a claim has yet to read in its present round
    highest,    \* the highest ticket it has read
    late        \* claims whose lease has expired under them (history)

lockVars == <<pc, lease, todo, highest, late>>

No == [ticket |-> 0, choosing |-> FALSE, expired |-> TRUE]
LeaseItem == [ticket : Nat, choosing : BOOLEAN, expired : BOOLEAN]
Lease(n, c) == [ticket |-> n, choosing |-> c, expired |-> FALSE]

Keys == {c \in Claim : lease[c] # No}

LockInit ==
    /\ pc = [c \in Claim |-> "new"]
    /\ lease = [c \in Claim |-> No]
    /\ todo = [c \in Claim |-> {}]
    /\ highest = [c \in Claim |-> 0]
    /\ late = {}

\* setItem with choosing set
Announce(c) ==
    /\ pc[c] = "new"
    /\ pc' = [pc EXCEPT ![c] = "announced"]
    /\ lease' = [lease EXCEPT ![c] = Lease(0, TRUE)]
    /\ UNCHANGED <<todo, highest, late>>

\* readLeases: the keys, then their items.
List(c) ==
    /\ pc[c] = "announced"
    /\ pc' = [pc EXCEPT ![c] = "choosing"]
    /\ todo' = [todo EXCEPT ![c] = Keys]
    /\ UNCHANGED <<lease, highest, late>>

\* An item that has expired is removed.
Swept(k) == lease' = IF lease[k].expired THEN [lease EXCEPT ![k] = No] ELSE lease

ReadTicket(c, k) ==
    /\ pc[c] = "choosing" /\ k \in todo[c]
    /\ todo' = [todo EXCEPT ![c] = @ \ {k}]
    /\ highest' = [highest EXCEPT ![c] = IF lease[k].ticket > @ /\ ~lease[k].expired
                                         THEN lease[k].ticket ELSE @]
    /\ Swept(k)
    /\ UNCHANGED <<pc, late>>

TakeTicket(c) ==
    /\ pc[c] = "choosing" /\ todo[c] = {}
    /\ pc' = [pc EXCEPT ![c] = "waiting"]
    /\ lease' = [lease EXCEPT ![c] = Lease(highest[c] + 1, FALSE)]
    /\ UNCHANGED <<todo, highest, late>>

\* Another round of the loop.
Look(c) ==
    /\ pc[c] = "waiting"
    /\ pc' = [pc EXCEPT ![c] = "looking"]
    /\ todo' = [todo EXCEPT ![c] = Keys \ {c}]
    /\ UNCHANGED <<lease, highest, late>>

\* The ticket of the claim itself is the one it took, whatever became of its item.
Ahead(k, c) ==
    \/ lease[k].ticket < highest[c] + 1
    \/ lease[k].ticket = highest[c] + 1 /\ k < c

\* Mutant: a claim that is choosing does not count.
Blocks_NotChoosing(k, c) == ~lease[k].expired /\ ~lease[k].choosing /\ Ahead(k, c)

Blocks(k, c) == ~lease[k].expired /\ (lease[k].choosing \/ Ahead(k, c))

\* The code reads a whole round before it decides; past the first claim that blocks,
\* the rest of the round would only remove items.
LookAt(c, k) ==
    /\ pc[c] = "looking" /\ k \in todo[c]
    /\ IF Blocks(k, c)
       THEN pc' = [pc EXCEPT ![c] = "waiting"] /\ todo' = [todo EXCEPT ![c] = {}]
       ELSE todo' = [todo EXCEPT ![c] = @ \ {k}] /\ UNCHANGED pc
    /\ Swept(k)
    /\ UNCHANGED <<highest, late>>

Enters(c) ==
    /\ pc[c] = "looking" /\ todo[c] = {}
    /\ pc' = [pc EXCEPT ![c] = "inside"]
    /\ UNCHANGED <<lease, todo, highest, late>>

\* finally: after the request, an error, or 30 seconds in the queue.
Leaves(c) ==
    /\ pc[c] \in {"announced", "choosing", "waiting", "looking", "inside"}
    /\ pc' = [pc EXCEPT ![c] = "done"]
    /\ lease' = [lease EXCEPT ![c] = No]
    /\ todo' = [todo EXCEPT ![c] = {}]
    /\ UNCHANGED <<highest, late>>

\* The tab is closed, or the storage refuses to remove the item.
Closed(c) ==
    /\ pc[c] \in {"announced", "choosing", "waiting", "looking", "inside"}
    /\ pc' = [pc EXCEPT ![c] = "done"]
    /\ todo' = [todo EXCEPT ![c] = {}]
    /\ UNCHANGED <<lease, highest, late>>

\* 60 seconds: the tab was closed, or suspended by the browser; 30 seconds of waiting
\* and 15 of the request do not take a running tab this far.
Expire(c) ==
    /\ lease[c] # No /\ ~lease[c].expired
    /\ lease' = [lease EXCEPT ![c].expired = TRUE]
    /\ late' = late \cup {c}
    /\ UNCHANGED <<pc, todo, highest>>

LockNext ==
    \E c \in Claim :
        \/ Announce(c) \/ List(c) \/ TakeTicket(c) \/ Look(c) \/ Enters(c)
        \/ Leaves(c) \/ Closed(c) \/ Expire(c)
        \/ \E k \in Claim : ReadTicket(c, k) \/ LookAt(c, k)

LockSpec == LockInit /\ [][LockNext]_lockVars

-----------------------------------------------------------------------------
(* Properties. *)

LockTypeOK ==
    /\ pc \in [Claim -> {"new", "announced", "choosing", "waiting", "looking", "inside", "done"}]
    /\ lease \in [Claim -> LeaseItem]
    /\ todo \in [Claim -> SUBSET Claim]
    /\ highest \in [Claim -> Nat]
    /\ late \subseteq Claim

\* "The fallback cannot promise perfect exclusion if a browser suspends a tab longer
\* than its 60-second lease" (deploy/staging/release-5-authentication.md): of the
\* tabs within their leases at most one at a time changes the cookie, whatever became
\* of the others, whose leases anybody removes.
TabsExclude ==
    \A c, d \in Claim \ late : pc[c] = "inside" /\ pc[d] = "inside" => c = d
=============================================================================

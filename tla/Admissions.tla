------------------------------ MODULE Admissions ------------------------------
(***************************************************************************)
(* Scanning tickets at the door of one event (admissions.service.ts).      *)
(*                                                                         *)
(* A scan is one transaction.  It locks, in this order, the scanner's User *)
(* row, the Event row and the EventCheckInStaff row FOR SHARE, and the     *)
(* Ticket row FOR UPDATE, and holds them until it ends.  Moderation, a     *)
(* removal from the staff and a cancellation write those rows and wait.    *)
(***************************************************************************)
EXTENDS Naturals, FiniteSets

CONSTANTS
    Person,     \* who scans: administrators and members
    Admin,      \* those whose role is ADMIN
    Scan,       \* scans in progress at a time
    Seat,       \* tickets of the event
    MaxScans,   \* bound on the answers counted for a ticket
    Unknown

ASSUME AdmissionsAssumption ==
    /\ Admin \subseteq Person
    /\ MaxScans \in Nat \ {0}
    /\ Unknown \notin Person \cup Scan \cup Seat

VARIABLES
    blocked,    \* persons whose account is blocked
    staff,      \* EventCheckInStaff rows of the event
    door,       \* Event.status: draft, open (published or completed) or cancelled
    seat,       \* Ticket.status
    checkedBy,  \* Ticket.checkedInById
    admitted,   \* answers that said "not checked in before" of each ticket
    scan        \* progress of each scan

admissionVars == <<blocked, staff, door, seat, checkedBy, admitted, scan>>

\* The part of TicketStatus and EventStatus a scan can meet.
SeatStatus == {"RESERVED", "CONFIRMED", "CHECKED_IN"}
DoorStatus == {"draft", "open", "cancelled"}
ScanState == [pc : {"idle", "actor", "event", "staff", "ticket"}, by : Person \cup {Unknown},
              seat : Seat \cup {Unknown}, seen : SeatStatus \cup {Unknown}]

Quiet == [pc |-> "idle", by |-> Unknown, seat |-> Unknown, seen |-> Unknown]

AdmissionInit ==
    /\ blocked = {}
    /\ staff = {}
    /\ door = "draft"
    /\ seat = [t \in Seat |-> "RESERVED"]
    /\ checkedBy = [t \in Seat |-> Unknown]
    /\ admitted = [t \in Seat |-> 0]
    /\ scan = [s \in Scan |-> Quiet]

-----------------------------------------------------------------------------
\* The locks that the open scans hold.
Past(s, steps) == scan[s].pc \in steps
UserShared(p) == \E s \in Scan : scan[s].by = p
EventShared == \E s \in Scan : Past(s, {"event", "staff", "ticket"})
StaffShared(p) == \E s \in Scan : scan[s].by = p /\ Past(s, {"staff", "ticket"})
TicketHeld(t) == \E s \in Scan : scan[s].seat = t /\ Past(s, {"ticket"})

Refused(s) == scan' = [scan EXCEPT ![s] = Quiet]
Advance(s, pc) == scan' = [scan EXCEPT ![s].pc = pc]
world == <<blocked, staff, door, seat, checkedBy, admitted>>

\* actor: the scanner's account, FOR SHARE.
ScanActor(s, p, t) ==
    /\ scan[s] = Quiet
    /\ p \notin blocked
    /\ scan' = [scan EXCEPT ![s] = [pc |-> "actor", by |-> p, seat |-> t, seen |-> Unknown]]
    /\ UNCHANGED world

\* authorize: the event's row, FOR SHARE.
ScanEvent(s) ==
    /\ scan[s].pc = "actor"
    /\ Advance(s, "event")
    /\ UNCHANGED world

\* authorize: the assignment, FOR SHARE, unless the actor is an administrator; then
\* the status of the event that is locked.
ScanStaff(s) ==
    /\ scan[s].pc = "event"
    /\ IF (scan[s].by \in Admin \/ scan[s].by \in staff) /\ door = "open"
       THEN Advance(s, "staff")
       ELSE Refused(s)
    /\ UNCHANGED world

\* Mutant: the ticket is read without FOR UPDATE.
ScanTicket_NoLock(s) ==
    /\ scan[s].pc = "staff"
    /\ scan' = [scan EXCEPT ![s].pc = "ticket", ![s].seen = seat[scan[s].seat]]
    /\ UNCHANGED world

\* The ticket's row, FOR UPDATE, and its status.
ScanTicket(s) ==
    /\ scan[s].pc = "staff"
    /\ ~TicketHeld(scan[s].seat)
    /\ scan' = [scan EXCEPT ![s].pc = "ticket", ![s].seen = seat[scan[s].seat]]
    /\ UNCHANGED world

\* A ticket that is checked in answers so and is left alone; one that is paid or
\* confirmed is checked in; every other one is not valid.
ScanAnswer(s) ==
    /\ scan[s].pc = "ticket"
    /\ LET t == scan[s].seat IN
        \/ /\ scan[s].seen = "CONFIRMED"
           /\ seat' = [seat EXCEPT ![t] = "CHECKED_IN"]
           /\ checkedBy' = [checkedBy EXCEPT ![t] = scan[s].by]
           /\ admitted' = [admitted EXCEPT ![t] = IF @ < MaxScans THEN @ + 1 ELSE @]
        \/ /\ scan[s].seen # "CONFIRMED"
           /\ UNCHANGED <<seat, checkedBy, admitted>>
    /\ Refused(s)
    /\ UNCHANGED <<blocked, staff, door>>

\* The connection ends; its locks and its writes are gone.
ScanDies(s) ==
    /\ scan[s] # Quiet
    /\ Refused(s)
    /\ UNCHANGED world

-----------------------------------------------------------------------------
\* assignStaff: an account that is not blocked, by an administrator.
AssignStaff(a, p) ==
    /\ a \in Admin \ blocked
    /\ p \notin blocked
    /\ p \notin Admin
    /\ staff' = staff \cup {p}
    /\ UNCHANGED <<blocked, door, seat, checkedBy, admitted, scan>>

\* Mutant: the removal does not wait for the scans that share the row.
RemoveStaff_NoWait(a, p) ==
    /\ a \in Admin \ blocked
    /\ staff' = staff \ {p}
    /\ UNCHANGED <<blocked, door, seat, checkedBy, admitted, scan>>

\* removeStaff
RemoveStaff(a, p) ==
    /\ a \in Admin \ blocked
    /\ ~StaffShared(p)
    /\ staff' = staff \ {p}
    /\ UNCHANGED <<blocked, door, seat, checkedBy, admitted, scan>>

\* The other writers of the rows a scan locks: moderateReportedUser and the member's
\* own changes, updateEvent, and the payments and cleanups of the ticket.
AccountBlocked(p) ==
    /\ ~UserShared(p)
    /\ blocked' = blocked \cup {p}
    /\ UNCHANGED <<staff, door, seat, checkedBy, admitted, scan>>

AccountRestored(p) ==
    /\ ~UserShared(p)
    /\ blocked' = blocked \ {p}
    /\ UNCHANGED <<staff, door, seat, checkedBy, admitted, scan>>

EventMoves ==
    /\ ~EventShared
    /\ \/ door = "draft" /\ door' = "open"
       \/ door \in {"draft", "open"} /\ door' = "cancelled"
    /\ UNCHANGED <<blocked, staff, seat, checkedBy, admitted, scan>>

TicketConfirmed(t) ==
    /\ seat[t] = "RESERVED"
    /\ ~TicketHeld(t)
    /\ seat' = [seat EXCEPT ![t] = "CONFIRMED"]
    /\ UNCHANGED <<blocked, staff, door, checkedBy, admitted, scan>>

AdmissionNext ==
    \/ \E s \in Scan :
        \/ \E p \in Person, t \in Seat : ScanActor(s, p, t)
        \/ ScanEvent(s) \/ ScanStaff(s) \/ ScanTicket(s) \/ ScanAnswer(s) \/ ScanDies(s)
    \/ \E a, p \in Person : AssignStaff(a, p) \/ RemoveStaff(a, p)
    \/ \E p \in Person : AccountBlocked(p) \/ AccountRestored(p)
    \/ \E t \in Seat : TicketConfirmed(t)
    \/ EventMoves

AdmissionSpec == AdmissionInit /\ [][AdmissionNext]_admissionVars

-----------------------------------------------------------------------------
(* Properties. *)

AdmissionTypeOK ==
    /\ blocked \subseteq Person
    /\ staff \subseteq Person
    /\ door \in DoorStatus
    /\ seat \in [Seat -> SeatStatus]
    /\ checkedBy \in [Seat -> Person \cup {Unknown}]
    /\ admitted \in [Seat -> 0..MaxScans]
    /\ scan \in [Scan -> ScanState]

\* A ticket lets its holder in once, at however many doors it is scanned at the same
\* time: one answer of all its scans says that it was not checked in before
\* (admissions.service.ts:86; deploy/table-ticket-types.md:7 "Repeated scans remain blocked").
AdmittedOnce ==
    \A t \in Seat : admitted[t] = (IF seat[t] = "CHECKED_IN" THEN 1 ELSE 0)

\* Once a removal from the staff, a block of the account or a cancellation has
\* committed, no scan that began before it admits anyone (admissions.service.ts:84,
\* "Assignment and account locks make revocation/moderation effective").
NoScanAfterRevocation ==
    [][\A t \in Seat : seat[t] # "CHECKED_IN" /\ seat'[t] = "CHECKED_IN" =>
        /\ checkedBy'[t] \notin blocked
        /\ checkedBy'[t] \in Admin \cup staff
        /\ door = "open"]_admissionVars
=============================================================================

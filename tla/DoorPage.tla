------------------------------- MODULE DoorPage -------------------------------
(***************************************************************************)
(* The phone at the door of one event (app/check-in/page.tsx): the list of *)
(* events a staff member may scan for, and the dialog that scans tickets   *)
(* (ticket-check-in-modal.tsx, ticket-camera-scanner.tsx); and the dialog  *)
(* in which an administrator keeps the staff                               *)
(* (event-check-in-staff-modal.tsx).                                       *)
(*                                                                         *)
(* A check runs in one step on the server: its locks are module            *)
(* Admissions.  Other doors are somebody who checks a ticket in elsewhere. *)
(* The further pages of the list of events are left out.                   *)
(***************************************************************************)
EXTENDS Naturals, Sequences

CONSTANTS
    Pass,           \* tickets of the event
    NoPass,         \* an empty box, or a QR that is no ticket code
    MaxChecks,      \* bound on the checks sent
    MaxLoads,       \* bound on the loads of either list
    MaxPosts,       \* bound on the changes of the staff
    MaxTroubles     \* bound on what happens to the network, the event and the session

ASSUME DoorPageAssumption ==
    /\ NoPass \notin Pass
    /\ {MaxChecks, MaxLoads, MaxPosts, MaxTroubles} \subseteq Nat

VARIABLES
    pass,           \* of each ticket: may be checked in, checked in, or neither
    onDuty,         \* the EventCheckInStaff row of the member; a blocked account is turned away alike
    takesPlace,     \* the event is published
    network,        \* navigator.onLine
    workspace,      \* the page with the list
    modal,          \* the scanning dialog
    checks,         \* the checks in the order they were sent
    roster,         \* the administrator's dialog
    posts, troubles

doorVars == <<pass, onDuty, takesPlace, network, workspace, modal, checks, roster, posts, troubles>>

Says == {"ready", "checking", "valid", "used", "refused", "unconfirmed"}
Answered == {"valid", "used", "refused", "unconfirmed"}

NewWorkspace(loads) ==
    [there |-> TRUE, lists |-> FALSE, denied |-> FALSE, loading |-> TRUE, asked |-> "asked", loads |-> loads]
NewModal == [open |-> TRUE, camera |-> TRUE, running |-> FALSE, code |-> NoPass, says |-> "ready",
             about |-> NoPass, online |-> network]
NoModal == [open |-> FALSE, camera |-> TRUE, running |-> FALSE, code |-> NoPass, says |-> "ready",
            about |-> NoPass, online |-> TRUE]
Load(reason) == [for |-> reason, at |-> "asked"]
NewRoster == [open |-> TRUE, lists |-> FALSE, busy |-> "no", loads |-> <<Load("opening")>>]
NoRoster == [open |-> FALSE, lists |-> FALSE, busy |-> "no", loads |-> <<>>]

DoorPageInit ==
    /\ pass \in [Pass -> {"valid", "void"}]
    /\ onDuty = TRUE /\ takesPlace = TRUE /\ network = TRUE
    /\ workspace = NewWorkspace(1)
    /\ modal = NoModal
    /\ checks = <<>>
    /\ roster = NoRoster
    /\ posts = 0
    /\ troubles = 0

Trouble == troubles < MaxTroubles /\ troubles' = troubles + 1
\* The dialog goes, and with it what it waits for: an answer finds mounted.current unset.
Unheard == [i \in DOMAIN checks |->
    IF checks[i].heard = "waiting" THEN [checks[i] EXCEPT !.heard = "left"] ELSE checks[i]]

-----------------------------------------------------------------------------
(* The list of events. *)

\* What no step of this part changes.
elsewhere == <<pass, onDuty, takesPlace, network, roster, posts>>

\* load, for the first time or again: the button waits for the load before.
RefreshesEvents ==
    /\ workspace.there /\ ~workspace.denied /\ ~workspace.loading /\ ~modal.open
    /\ workspace.loads < MaxLoads
    /\ workspace' = [workspace EXCEPT !.loading = TRUE, !.asked = "asked", !.loads = @ + 1]
    /\ UNCHANGED <<elsewhere, modal, checks, troubles>>

\* A new token loads the list again; that it may overtake a load under way is left out.
TokenRenewed ==
    /\ workspace.there /\ workspace.asked = "no"
    /\ Trouble
    /\ workspace' = [workspace EXCEPT !.loading = TRUE, !.asked = "asked"]
    /\ UNCHANGED <<elsewhere, modal, checks>>

\* listEvents
EventsRead ==
    /\ workspace.there /\ workspace.asked = "asked"
    /\ workspace' = [workspace EXCEPT !.asked =
        IF ~onDuty THEN "denied" ELSE IF takesPlace THEN "listed" ELSE "empty"]
    /\ UNCHANGED <<elsewhere, modal, checks, troubles>>

\* The answer; one that denies takes the dialog away, whatever it is doing.
EventsArrive ==
    /\ workspace.there /\ workspace.asked \in {"denied", "listed", "empty"}
    /\ workspace' = [workspace EXCEPT !.asked = "no", !.loading = FALSE,
                        !.lists = (workspace.asked = "listed"),
                        !.denied = @ \/ workspace.asked = "denied"]
    /\ IF workspace.asked = "denied"
       THEN modal' = NoModal /\ checks' = Unheard
       ELSE UNCHANGED <<modal, checks>>
    /\ UNCHANGED <<elsewhere, troubles>>

EventsFail ==
    /\ workspace.there /\ workspace.asked # "no"
    /\ Trouble
    /\ workspace' = [workspace EXCEPT !.asked = "no", !.loading = FALSE]
    /\ UNCHANGED <<elsewhere, modal, checks>>

\* The session ends or begins anew, or the document is loaded again: the workspace and
\* its dialog are made anew, and nobody waits for the answers.
WorkspaceRestarts ==
    /\ workspace.loads < MaxLoads
    /\ Trouble
    /\ workspace' = NewWorkspace(workspace.loads + 1)
    /\ modal' = NoModal
    /\ checks' = Unheard
    /\ UNCHANGED elsewhere

-----------------------------------------------------------------------------
(* The scanning dialog. *)

Emptied == [modal EXCEPT !.says = "ready", !.code = NoPass, !.about = NoPass]
phone == <<pass, onDuty, takesPlace, network, workspace, roster, posts>>

OpensScanner ==
    /\ workspace.there /\ workspace.lists /\ ~workspace.denied /\ ~modal.open
    /\ modal' = NewModal
    /\ UNCHANGED <<phone, checks, troubles>>

\* The button, the backdrop and Escape are off while a check is under way.
ClosesScanner ==
    /\ modal.open /\ modal.says # "checking"
    /\ modal' = NoModal
    /\ UNCHANGED <<phone, checks, troubles>>

NetworkTurns ==
    /\ Trouble
    /\ network' = ~network
    /\ UNCHANGED <<pass, onDuty, takesPlace, workspace, modal, checks, roster, posts>>

\* The listener of "online" and "offline".
NoticesNetwork ==
    /\ modal.open /\ modal.online # network
    /\ modal' = [modal EXCEPT !.online = network]
    /\ UNCHANGED <<phone, checks, troubles>>

\* Mutant: the buttons that change the mode are not disabled during a check.
MayMoveOn_Always == modal.open
\* The mode, and the next ticket, wait for the answer.
MayMoveOn == modal.open /\ modal.says # "checking"

PicksMode(camera) ==
    /\ MayMoveOn
    /\ modal' = [Emptied EXCEPT !.camera = camera, !.running = camera /\ @]
    /\ UNCHANGED <<phone, checks, troubles>>

OpensCamera ==
    /\ modal.open /\ modal.camera /\ ~modal.running /\ modal.online
    /\ modal' = [Emptied EXCEPT !.running = TRUE]
    /\ UNCHANGED <<phone, checks, troubles>>

\* cameraFailed: it did not start, or start again.
CameraFails ==
    /\ modal.open /\ modal.running /\ modal.says = "ready"
    /\ modal' = [modal EXCEPT !.running = FALSE]
    /\ UNCHANGED <<phone, checks, troubles>>

NextTicket ==
    /\ modal.open /\ modal.says \in Answered
    /\ modal' = Emptied
    /\ UNCHANGED <<phone, checks, troubles>>

\* checkIn: what is no code is refused here, and nothing is sent while offline.
CheckIn(t) ==
    \/ /\ t = NoPass
       /\ modal' = [modal EXCEPT !.says = "refused", !.about = NoPass]
       /\ UNCHANGED checks
    \/ /\ t # NoPass /\ ~network
       /\ modal' = [modal EXCEPT !.says = "unconfirmed", !.code = t, !.about = NoPass]
       /\ UNCHANGED checks
    \/ /\ t # NoPass /\ network
       /\ Len(checks) < MaxChecks
       /\ modal' = [modal EXCEPT !.says = "checking", !.code = t, !.about = NoPass]
       /\ checks' = Append(checks, [pass |-> t, at |-> "sent", heard |-> "waiting"])

\* The camera sees a QR; it is paused while offline and until the next ticket is asked for.
ScansQr(t) ==
    /\ modal.open /\ modal.camera /\ modal.running
    /\ modal.online /\ modal.says = "ready"
    /\ CheckIn(t)
    /\ UNCHANGED <<phone, troubles>>

TypesCode(t) ==
    /\ modal.open /\ ~modal.camera /\ modal.says = "ready"
    /\ modal' = [modal EXCEPT !.code = t]
    /\ UNCHANGED <<phone, checks, troubles>>

SubmitsCode ==
    /\ modal.open /\ ~modal.camera /\ modal.says = "ready"
    /\ modal.online /\ modal.code # NoPass
    /\ CheckIn(modal.code)
    /\ UNCHANGED <<phone, troubles>>

RetriesTicket ==
    /\ modal.open /\ modal.says = "unconfirmed" /\ modal.online
    /\ CheckIn(modal.code)
    /\ UNCHANGED <<phone, troubles>>

\* checkInTicket, or the throttle before it.
CheckRuns(i) ==
    /\ checks[i].at = "sent"
    /\ \/ /\ onDuty /\ takesPlace /\ pass[checks[i].pass] = "valid"
          /\ pass' = [pass EXCEPT ![checks[i].pass] = "used"]
          /\ checks' = [checks EXCEPT ![i].at = "valid"]
       \/ /\ onDuty /\ takesPlace /\ pass[checks[i].pass] = "used"
          /\ checks' = [checks EXCEPT ![i].at = "used"]
          /\ UNCHANGED pass
       \/ /\ checks' = [checks EXCEPT ![i].at = "refused"]
          /\ UNCHANGED pass
    /\ UNCHANGED <<onDuty, takesPlace, network, workspace, modal, roster, posts, troubles>>

\* The answer, to the dialog that waits for it; busy.current lets it wait for one only.
CheckAnswered(i) ==
    /\ checks[i].heard = "waiting" /\ checks[i].at # "sent"
    /\ modal' = [modal EXCEPT !.says = checks[i].at, !.about = checks[i].pass]
    /\ checks' = [checks EXCEPT ![i].heard = "told"]
    /\ UNCHANGED <<phone, troubles>>

\* How a check may end without saying what became of it: the network, or 15 seconds
\* without an answer; a server error after its transaction; a time-out on the way.
Failure == {"no answer", "500", "408"}

\* Mutant: whatever has a status is taken for an answer.
Ambiguous_OnlyNetwork(failure) == failure = "no answer"
Ambiguous(failure) == failure \in {"no answer", "500", "408"}

CheckLost(i) ==
    /\ checks[i].heard = "waiting"
    /\ Trouble
    /\ \E failure \in Failure :
        modal' = [modal EXCEPT !.says = IF Ambiguous(failure) THEN "unconfirmed" ELSE "refused",
                               !.about = NoPass]
    /\ checks' = [checks EXCEPT ![i].heard = IF modal'.says = "unconfirmed" THEN "warned" ELSE "dismissed"]
    /\ UNCHANGED phone

-----------------------------------------------------------------------------
(* The staff, the event and the other doors. *)

gate == <<pass, takesPlace, network, workspace, modal, checks>>

OpensRoster ==
    /\ ~roster.open /\ posts < MaxPosts
    /\ roster' = NewRoster
    /\ posts' = posts + 1
    /\ UNCHANGED <<gate, onDuty, troubles>>

ClosesRoster ==
    /\ roster.open /\ roster.busy = "no"
    /\ roster' = NoRoster
    /\ UNCHANGED <<gate, onDuty, posts, troubles>>

\* listStaff
RosterRead(i) ==
    /\ roster.loads[i].at = "asked"
    /\ roster' = [roster EXCEPT !.loads[i].at = IF onDuty THEN "on" ELSE "off"]
    /\ UNCHANGED <<gate, onDuty, posts, troubles>>

\* What is left when a load has ended; the reload after a change ends the change.
Loaded(i) ==
    [roster EXCEPT !.loads = SubSeq(@, 1, i - 1) \o SubSeq(@, i + 1, Len(@)),
                   !.busy = IF roster.loads[i].for = "reload" THEN "no" ELSE @]

RosterArrives(i) ==
    /\ roster.loads[i].at # "asked"
    /\ roster' = [Loaded(i) EXCEPT !.lists = (roster.loads[i].at = "on")]
    /\ UNCHANGED <<gate, onDuty, posts, troubles>>

RosterFails(i) ==
    /\ Trouble
    /\ roster' = Loaded(i)
    /\ UNCHANGED <<gate, onDuty, posts>>

\* add and remove: one at a time; only somebody listed is removed.
ChangesStaff(change) ==
    /\ roster.open /\ roster.busy = "no" /\ posts < MaxPosts
    /\ change = "remove" => roster.lists
    /\ roster' = [roster EXCEPT !.busy = change]
    /\ posts' = posts + 1
    /\ UNCHANGED <<gate, onDuty, troubles>>

\* assignStaff, removeStaff
StaffChanges ==
    /\ roster.busy \in {"add", "remove"}
    /\ onDuty' = (roster.busy = "add")
    /\ roster' = [roster EXCEPT !.busy = "changed"]
    /\ UNCHANGED <<gate, posts, troubles>>

StaffChangeAnswered ==
    /\ roster.busy = "changed"
    /\ roster' = [roster EXCEPT !.busy = "reloading", !.loads = Append(@, Load("reload"))]
    /\ UNCHANGED <<gate, onDuty, posts, troubles>>

\* It is refused, or its answer is lost.
StaffChangeFails ==
    /\ roster.busy \in {"add", "remove", "changed"}
    /\ Trouble
    /\ roster' = [roster EXCEPT !.busy = "no"]
    /\ UNCHANGED <<gate, onDuty, posts>>

\* The event is cancelled or published again.
EventOpensOrCloses ==
    /\ Trouble
    /\ takesPlace' = ~takesPlace
    /\ UNCHANGED <<pass, onDuty, network, workspace, modal, checks, roster, posts>>

\* A ticket is paid for, or checked in at another door.
PassMoves(t) ==
    /\ Trouble
    /\ \/ pass[t] = "void" /\ pass' = [pass EXCEPT ![t] = "valid"]
       \/ pass[t] = "valid" /\ pass' = [pass EXCEPT ![t] = "used"]
    /\ UNCHANGED <<onDuty, takesPlace, network, workspace, modal, checks, roster, posts>>

-----------------------------------------------------------------------------
DoorPageNext ==
    \/ RefreshesEvents \/ TokenRenewed \/ EventsRead \/ EventsArrive \/ EventsFail \/ WorkspaceRestarts
    \/ OpensScanner \/ ClosesScanner \/ NetworkTurns \/ NoticesNetwork
    \/ \E camera \in BOOLEAN : PicksMode(camera)
    \/ OpensCamera \/ CameraFails \/ NextTicket \/ SubmitsCode \/ RetriesTicket
    \/ \E t \in Pass \cup {NoPass} : ScansQr(t)
    \/ \E t \in Pass : TypesCode(t) \/ PassMoves(t)
    \/ \E i \in DOMAIN checks : CheckRuns(i) \/ CheckAnswered(i) \/ CheckLost(i)
    \/ OpensRoster \/ ClosesRoster
    \/ \E i \in DOMAIN roster.loads : RosterRead(i) \/ RosterArrives(i) \/ RosterFails(i)
    \/ \E change \in {"add", "remove"} : ChangesStaff(change)
    \/ StaffChanges \/ StaffChangeAnswered \/ StaffChangeFails \/ EventOpensOrCloses

DoorPageSpec == DoorPageInit /\ [][DoorPageNext]_doorVars

-----------------------------------------------------------------------------
DoorPageTypeOK ==
    /\ pass \in [Pass -> {"valid", "used", "void"}]
    /\ {onDuty, takesPlace, network, modal.open, modal.camera, modal.running, modal.online} \subseteq BOOLEAN
    /\ modal.says \in Says
    /\ {modal.code, modal.about} \subseteq Pass \cup {NoPass}
    /\ \A i \in DOMAIN checks :
        /\ checks[i].at \in {"sent", "valid", "used", "refused"}
        /\ checks[i].heard \in {"waiting", "told", "warned", "dismissed", "left"}

\* The person at the door can trust the screen (ticket-check-in-modal.tsx:124, "Retry this
\* same ticket before admitting the holder; it may already have been recorded"):
\* an answer on the screen is about the ticket in the box, which is checked in when it
\* says so; and a ticket that this page has checked in was shown as valid, or its
\* operator was warned that it may be, or has left before the answer.  A red screen is
\* never the last word about a ticket that its own check has let in.
DoorScreenIsTrue ==
    /\ modal.says \in {"valid", "used"} => modal.about = modal.code /\ pass[modal.code] = "used"
    /\ \A i \in DOMAIN checks : checks[i].at = "valid" => checks[i].heard # "dismissed"
=============================================================================

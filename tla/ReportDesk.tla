------------------------------ MODULE ReportDesk ------------------------------
(***************************************************************************)
(* One report and the pages on which administrators decide about it: the   *)
(* ReportDetail page of reports-tab.tsx, which loads the report, offers    *)
(* decisions by what it shows and asks for a confirmation, and the         *)
(* handlers of admin.service.ts that carry a decision out and answer with  *)
(* the report as it is then.  Each new access token loads the report       *)
(* again, so that loads overlap and one may cross a decision.              *)
(*                                                                         *)
(* A page stays open: what leaving it throws away is not kept.  An account *)
(* that ends its suspension or is deactivated is module Accounts.          *)
(***************************************************************************)
EXTENDS Naturals

CONSTANTS
    Desk,               \* the administrators with the page open
    Unseen,             \* a page that shows no report yet
    MaxDecisions,       \* bound on the confirmed decisions
    MaxReloads,         \* bound on the loads of the pages together
    MaxLostDecisions    \* bound on the answers that do not arrive

ASSUME ReportDeskAssumption == MaxDecisions \in Nat /\ MaxReloads \in Nat /\ MaxLostDecisions \in Nat

VARIABLES
    row,        \* the report's status, the reported account's, and the number of their changes (history)
    page,       \* of each desk: the report shown and whether its load crossed the last decision
                \* (history), isLoadingReport, isModerating, pendingAction
    fetch,      \* of each desk: the requests of loadReport, each with whether a decision was
                \* answered since it was sent (history)
    decision,   \* of each desk: the request of confirmReportDecision
    decided,    \* of each desk: the change that its last confirmed decision made (history)
    decisions, reloads, lostDecisions

deskVars == <<row, page, fetch, decision, decided, decisions, reloads, lostDecisions>>

Action == {"DISMISS", "SUSPEND", "BAN", "RESTORE", "DELETE"}
ReportStatus == {"OPEN", "REVIEWED", "DISMISSED", "ACTIONED"}
ReportedStatus == {"ACTIVE", "SUSPENDED", "BANNED", "DELETED"}
Row == [report : ReportStatus, account : ReportedStatus, revision : Nat]

Quiet == [at |-> "none", action |-> "", change |-> 0, answer |-> Unseen]

DeskInit ==
    /\ row = [report |-> "OPEN", account |-> "ACTIVE", revision |-> 0]
    /\ page = [d \in Desk |-> [shown |-> Unseen, crossed |-> FALSE, loading |-> TRUE, moderating |-> FALSE,
                           asks |-> ""]]
    /\ fetch = [d \in Desk |-> {}]
    /\ decision = [d \in Desk |-> Quiet]
    /\ decided = [d \in Desk |-> 0]
    /\ decisions = 0 /\ reloads = 0 /\ lostDecisions = 0

-----------------------------------------------------------------------------
(* The page.                                                                 *)

\* A page that loads shows a skeleton, and the confirmation covers the page.
ControlsShown(d) == page[d].shown # Unseen /\ ~page[d].loading /\ page[d].asks = ""

\* The buttons that are not disabled, by the report the page shows.
Offered(shown) ==
    (IF shown.report \in {"DISMISSED", "ACTIONED"} THEN {} ELSE {"DISMISS"})
        \cup (IF shown.account = "DELETED" THEN {} ELSE {"SUSPEND", "BAN", "DELETE"})
        \cup (IF shown.account \in {"SUSPENDED", "BANNED"} THEN {"RESTORE"} ELSE {})

\* loadReport, whatever else the page is doing.
LoadsReport(d) ==
    /\ reloads < MaxReloads /\ reloads' = reloads + 1
    /\ page' = [page EXCEPT ![d].loading = TRUE]
    /\ fetch' = [fetch EXCEPT ![d] = @ \cup {[n |-> reloads', at |-> "sent", answer |-> Unseen, crossed |-> FALSE]}]
    /\ UNCHANGED <<row, decision, decided, decisions, lostDecisions>>

\* The effect on loadReport: when the page opens, and at each new access token.
ReportReloads(d) == LoadsReport(d)

\* The button, which is disabled while the page loads.
RefreshesReport(d) == ~page[d].loading /\ LoadsReport(d)

LoadReads(d) ==
    \E l \in fetch[d] :
        /\ l.at = "sent"
        /\ fetch' = [fetch EXCEPT ![d] = (@ \ {l}) \cup {[l EXCEPT !.at = "answered", !.answer = row]}]
        /\ UNCHANGED <<row, page, decision, decided, decisions, reloads, lostDecisions>>

\* The report arrives, or the load fails and the page keeps the one it has.  The first
\* load that ends ends the skeleton, whichever others are still under way.
LoadEnds(d) ==
    \E l \in fetch[d] :
        /\ \/ /\ l.at = "answered"
              /\ page' = [page EXCEPT ![d].shown = l.answer, ![d].crossed = l.crossed, ![d].loading = FALSE]
           \/ page' = [page EXCEPT ![d].loading = FALSE]
        /\ fetch' = [fetch EXCEPT ![d] = @ \ {l}]
        /\ UNCHANGED <<row, decision, decided, decisions, reloads, lostDecisions>>

\* requestModeration and requestDismissReport.
Asks(d, action) ==
    /\ ControlsShown(d) /\ ~page[d].moderating
    /\ action \in Offered(page[d].shown)
    /\ page' = [page EXCEPT ![d].asks = action]
    /\ UNCHANGED <<row, fetch, decision, decided, decisions, reloads, lostDecisions>>

Cancels(d) ==
    /\ page[d].asks # "" /\ ~page[d].moderating
    /\ page' = [page EXCEPT ![d].asks = ""]
    /\ UNCHANGED <<row, fetch, decision, decided, decisions, reloads, lostDecisions>>

\* confirmReportDecision.
Confirms(d) ==
    /\ page[d].asks # "" /\ ~page[d].moderating
    /\ decisions < MaxDecisions /\ decisions' = decisions + 1
    /\ page' = [page EXCEPT ![d].moderating = TRUE]
    /\ decision' = [decision EXCEPT ![d] = [Quiet EXCEPT !.at = "sent", !.action = page[d].asks]]
    /\ UNCHANGED <<row, fetch, decided, reloads, lostDecisions>>

-----------------------------------------------------------------------------
(* The handlers.                                                             *)

Answers(d, at) ==
    /\ decision' = [decision EXCEPT ![d].at = at]
    /\ UNCHANGED <<row, page, fetch, decided, decisions, reloads, lostDecisions>>

\* What the read lets through: an actioned report is not dismissed, and only suspended or
\* banned accounts are restored.
Permitted(action) ==
    /\ action = "DISMISS" => row.report # "ACTIONED"
    /\ action = "RESTORE" => row.account \in {"SUSPENDED", "BANNED"}

DecisionReads(d) ==
    /\ decision[d].at = "sent"
    /\ Answers(d, IF Permitted(decision[d].action) THEN "read" ELSE "refused")

\* Mutant: the answer of a dismissal is the report as it was read before.
Writes_AnswersAsRead(d, report, account, at) ==
    /\ row' = [report |-> report, account |-> account, revision |-> row.revision + 1]
    /\ decision' = [decision EXCEPT ![d].at = at, ![d].change = row'.revision,
                                    ![d].answer = IF at = "answered" THEN row ELSE Unseen]
    /\ UNCHANGED <<page, fetch, decided, decisions, reloads, lostDecisions>>

\* The rows change; the answer of a dismissal comes with the same statement.
Writes(d, report, account, at) ==
    /\ row' = [report |-> report, account |-> account, revision |-> row.revision + 1]
    /\ decision' = [decision EXCEPT ![d].at = at, ![d].change = row'.revision,
                                    ![d].answer = IF at = "answered" THEN row' ELSE Unseen]
    /\ UNCHANGED <<page, fetch, decided, decisions, reloads, lostDecisions>>

DismissWrites(d) ==
    /\ decision[d].at = "read" /\ decision[d].action = "DISMISS"
    /\ Writes(d, "DISMISSED", row.account, "answered")

\* The transaction of a moderation: the account and the report change together.
Effect == [SUSPEND |-> "SUSPENDED", BAN |-> "BANNED", RESTORE |-> "ACTIVE"]

ModerationWrites(d) ==
    /\ decision[d].at = "read" /\ decision[d].action \in DOMAIN Effect
    /\ Writes(d, IF decision[d].action = "RESTORE" THEN "REVIEWED" ELSE "ACTIONED",
              Effect[decision[d].action], "written")

\* A deletion: the account is erased, and then the report is marked.
AccountErased(d) ==
    /\ decision[d].at = "read" /\ decision[d].action = "DELETE"
    /\ Writes(d, row.report, "DELETED", "erased")

ErasureRecorded(d) == decision[d].at = "erased" /\ Writes(d, "ACTIONED", row.account, "written")

\* getReportResponse after a moderation.
DecisionRereads(d) ==
    /\ decision[d].at = "written"
    /\ decision' = [decision EXCEPT ![d].at = "answered", ![d].answer = row]
    /\ UNCHANGED <<row, page, fetch, decided, decisions, reloads, lostDecisions>>

DecisionArrives(d) ==
    /\ decision[d].at = "answered"
    /\ page' = [page EXCEPT ![d].shown = decision[d].answer, ![d].crossed = FALSE,
                            ![d].asks = "", ![d].moderating = FALSE]
    /\ fetch' = [fetch EXCEPT ![d] = {[l EXCEPT !.crossed = TRUE] : l \in @}]
    /\ decided' = [decided EXCEPT ![d] = decision[d].change]
    /\ decision' = [decision EXCEPT ![d] = Quiet]
    /\ UNCHANGED <<row, decisions, reloads, lostDecisions>>

\* A refusal, or no answer although the decision may be carried out: the question stays.
DecisionFails(d) ==
    /\ \/ decision[d].at = "refused" /\ UNCHANGED lostDecisions
       \/ /\ decision[d].at \in {"sent", "answered"}
          /\ lostDecisions < MaxLostDecisions /\ lostDecisions' = lostDecisions + 1
    /\ page' = [page EXCEPT ![d].moderating = FALSE]
    /\ decision' = [decision EXCEPT ![d] = Quiet]
    /\ UNCHANGED <<row, fetch, decided, decisions, reloads>>

-----------------------------------------------------------------------------
DeskNext ==
    \E d \in Desk :
        \/ ReportReloads(d) \/ RefreshesReport(d) \/ LoadReads(d) \/ LoadEnds(d)
        \/ \E action \in Action : Asks(d, action)
        \/ Cancels(d) \/ Confirms(d) \/ DecisionReads(d) \/ DismissWrites(d) \/ ModerationWrites(d)
        \/ AccountErased(d) \/ ErasureRecorded(d) \/ DecisionRereads(d) \/ DecisionArrives(d) \/ DecisionFails(d)

DeskSpec == DeskInit /\ [][DeskNext]_deskVars

-----------------------------------------------------------------------------
DeskTypeOK ==
    /\ row \in Row
    /\ \A d \in Desk :
        /\ page[d].shown \in Row \cup {Unseen} /\ page[d].crossed \in BOOLEAN /\ page[d].loading \in BOOLEAN
        /\ page[d].moderating \in BOOLEAN /\ page[d].asks \in Action \cup {""}
        /\ \A l \in fetch[d] : l.at \in {"sent", "answered"} /\ l.crossed \in BOOLEAN
        /\ decision[d].at \in {"none", "sent", "read", "refused", "erased", "written", "answered"}

\* Once a decision was answered, its page shows the report as the decision left it or
\* later, whatever the other administrators do, except from a load that was under way when
\* the answer came: only that one may bring back the report of before.
DeskShowsItsDecision ==
    \A d \in Desk : page[d].shown # Unseen /\ ~page[d].crossed => page[d].shown.revision >= decided[d]
=============================================================================

----------------------------- MODULE PagesProofs ------------------------------
(*************************************************************************)
(* Proofs about the pages of the web application, for any number of      *)
(* users, reports, conversations, tickets, orders, reads and requests:   *)
(* each page by itself, and then the pages as MCPages puts them side by  *)
(* side.                                                                 *)
(*************************************************************************)
EXTENDS MCPages, FiniteSetTheorems, SequenceTheorems, TLAPS

-----------------------------------------------------------------------------
(*************************************************************************)
(* The reports. A row's revision only grows, and a load that is sent     *)
(* after a decision was answered reads the row after it, so that only a  *)
(* load marked as crossed brings back what a decision has changed        *)
(* (AtTheDesk).                                                          *)
(*************************************************************************)

DeskPage == [shown : Row \cup {Unseen}, crossed : BOOLEAN, loading : BOOLEAN, moderating : BOOLEAN,
             asks : Action \cup {""}]
LoadRow == [n : Nat, at : {"sent", "answered"}, answer : Row \cup {Unseen}, crossed : BOOLEAN]
Call == [at : {"none", "sent", "read", "refused", "erased", "written", "answered"},
         action : Action \cup {""}, change : Nat, answer : Row \cup {Unseen}]

\* An answered load has a row, and one that no decision has crossed has it from after the change n.
IsFresh(l, n) == l.at = "answered" => l.answer \in Row /\ (~l.crossed => l.answer.revision >= n)

\* One desk, by the report r: what its page p shows, its loads f, its decision c and the change n it made.
AtTheDesk(r, p, f, c, n) ==
    /\ \A l \in f : IsFresh(l, n)
    /\ n =< r.revision /\ c.change =< r.revision
    /\ c.at = "answered" => c.answer \in Row /\ c.answer.revision >= c.change
    /\ p.shown # Unseen /\ ~p.crossed => p.shown.revision >= n

DeskInv ==
    /\ row \in Row
    /\ page \in [Desk -> DeskPage] /\ fetch \in [Desk -> SUBSET LoadRow] /\ decision \in [Desk -> Call]
    /\ decided \in [Desk -> Nat] /\ reloads \in Nat
    /\ \A d \in Desk : AtTheDesk(row, page[d], fetch[d], decision[d], decided[d])

LEMMA QuietIs == Quiet \in Call /\ Quiet.at = "none" /\ Quiet.change = 0
  BY DEF Quiet, Call, Row

LEMMA DeskStarts == DeskInit => DeskInv
<1> SUFFICES ASSUME DeskInit PROVE DeskInv
  OBVIOUS
<1>1. row \in Row /\ row.revision = 0
  BY DEF DeskInit, Row, ReportStatus, ReportedStatus
<1>2. page \in [Desk -> DeskPage]
  BY DEF DeskInit, DeskPage
<1>3. fetch \in [Desk -> SUBSET LoadRow] /\ decision \in [Desk -> Call] /\ decided \in [Desk -> Nat] /\ reloads \in Nat
  BY QuietIs DEF DeskInit
<1>4. ASSUME NEW d \in Desk PROVE AtTheDesk(row, page[d], fetch[d], decision[d], decided[d])
  <2>1. /\ page[d].shown = Unseen /\ page[d].loading /\ ~page[d].moderating /\ page[d].asks = ""
        /\ fetch[d] = {} /\ decision[d].at = "none" /\ decision[d].change = 0 /\ decided[d] = 0
    BY QuietIs DEF DeskInit
  <2>2. decided[d] =< row.revision /\ decision[d].change =< row.revision
    <3>1. row.revision = 0 /\ decided[d] = 0 /\ decision[d].change = 0
      BY <1>1, <2>1
    <3> QED
      BY <3>1
  <2> QED
    BY <2>1, <2>2 DEF AtTheDesk
<1> QED
  BY <1>1, <1>2, <1>3, <1>4 DEF DeskInv

\* A step of one desk, which only adds to the changes of the report.
LEMMA DeskMoves ==
    ASSUME DeskInv, NEW d \in Desk, NEW r \in Row, r.revision >= row.revision, row' = r,
           NEW p \in DeskPage, NEW f \in SUBSET LoadRow, NEW c \in Call, NEW n \in Nat,
           page' = [page EXCEPT ![d] = p], fetch' = [fetch EXCEPT ![d] = f],
           decision' = [decision EXCEPT ![d] = c], decided' = [decided EXCEPT ![d] = n],
           reloads' \in Nat, AtTheDesk(r, p, f, c, n)
    PROVE  DeskInv'
<1>1. /\ row' \in Row /\ page' \in [Desk -> DeskPage] /\ fetch' \in [Desk -> SUBSET LoadRow]
      /\ decision' \in [Desk -> Call] /\ decided' \in [Desk -> Nat] /\ reloads' \in Nat
  BY DEF DeskInv
<1>2. ASSUME NEW e \in Desk PROVE AtTheDesk(r, page'[e], fetch'[e], decision'[e], decided'[e])
  <2>1. CASE e = d
    BY <2>1 DEF DeskInv
  <2>2. CASE e # d
    <3>1. page'[e] = page[e] /\ fetch'[e] = fetch[e] /\ decision'[e] = decision[e] /\ decided'[e] = decided[e]
      BY <2>2 DEF DeskInv
    <3>2. AtTheDesk(row, page[e], fetch[e], decision[e], decided[e])
      BY DEF DeskInv
    <3>3. decision[e].change \in Nat /\ decided[e] \in Nat /\ row.revision \in Nat /\ r.revision \in Nat
      BY DEF DeskInv, Call, Row
    <3>4. decided[e] =< r.revision /\ decision[e].change =< r.revision
      <4>1. decided[e] =< row.revision /\ decision[e].change =< row.revision
        BY <3>2 DEF AtTheDesk
      <4> QED
        BY <4>1, <3>3
    <3> QED
      BY <3>1, <3>2, <3>4 DEF AtTheDesk
  <2> QED
    BY <2>1, <2>2
<1> QED
  BY <1>1, <1>2 DEF DeskInv

LEMMA DeskSteps == DeskInv /\ [DeskNext]_deskVars => DeskInv'
<1> SUFFICES ASSUME DeskInv, [DeskNext]_deskVars PROVE DeskInv'
  OBVIOUS
<1>1. CASE UNCHANGED deskVars
  BY <1>1 DEF DeskInv, deskVars
<1>2. CASE DeskNext
  <2>1. PICK d \in Desk :
            \/ ReportReloads(d) \/ RefreshesReport(d) \/ LoadReads(d) \/ LoadEnds(d)
            \/ \E action \in Action : Asks(d, action)
            \/ Cancels(d) \/ Confirms(d) \/ DecisionReads(d) \/ DismissWrites(d) \/ ModerationWrites(d)
            \/ AccountErased(d) \/ ErasureRecorded(d) \/ DecisionRereads(d) \/ DecisionArrives(d) \/ DecisionFails(d)
    BY <1>2 DEF DeskNext
  <2>p. PICK p \in DeskPage : p = page[d]
    BY DEF DeskInv
  <2>f. PICK f \in SUBSET LoadRow : f = fetch[d]
    BY DEF DeskInv
  <2>c. PICK c \in Call : c = decision[d]
    BY DEF DeskInv
  <2>n. PICK n \in Nat : n = decided[d]
    BY DEF DeskInv
  <2>r. PICK r \in Row : r = row
    BY DEF DeskInv
  <2>i. AtTheDesk(r, p, f, c, n)
    BY <2>p, <2>f, <2>c, <2>n, <2>r DEF DeskInv
  <2>t. r.revision \in Nat /\ c.change \in Nat /\ r.revision >= r.revision /\ 0 =< r.revision
    <3>1. r.revision \in Nat /\ c.change \in Nat
      BY DEF Row, Call
    <3> QED
      BY <3>1
  <2>k. /\ page = [page EXCEPT ![d] = p] /\ fetch = [fetch EXCEPT ![d] = f]
        /\ decision = [decision EXCEPT ![d] = c] /\ decided = [decided EXCEPT ![d] = n]
    BY <2>p, <2>f, <2>c, <2>n DEF DeskInv
  <2>o. reloads \in Nat
    BY DEF DeskInv
  <2>2. CASE ReportReloads(d) \/ RefreshesReport(d)
    <3>0. LoadsReport(d)
      BY <2>2 DEF ReportReloads, RefreshesReport
    <3>1. PICK p1 \in DeskPage : p1 = [p EXCEPT !.loading = TRUE]
      BY DEF DeskPage
    <3>n. PICK m \in Nat : m = reloads + 1
      BY <2>o
    <3>2. PICK l1 \in LoadRow : l1 = [n |-> m, at |-> "sent", answer |-> Unseen, crossed |-> FALSE]
      BY DEF LoadRow
    <3>3. /\ page' = [page EXCEPT ![d] = p1] /\ fetch' = [fetch EXCEPT ![d] = f \cup {l1}]
          /\ decision' = [decision EXCEPT ![d] = c] /\ decided' = [decided EXCEPT ![d] = n] /\ row' = r
          /\ reloads' \in Nat
      <4>1. reloads' = m
        BY <3>0, <3>n DEF LoadsReport
      <4>2. page' = [page EXCEPT ![d] = p1]
        BY <3>0, <3>1, <2>p DEF LoadsReport, DeskInv
      <4>3. fetch' = [fetch EXCEPT ![d] = f \cup {l1}]
        BY <3>0, <3>2, <4>1, <2>f DEF LoadsReport, DeskInv
      <4> QED
        BY <3>0, <4>1, <4>2, <4>3, <2>k, <2>r DEF LoadsReport
    <3>4. AtTheDesk(r, p1, f \cup {l1}, c, n)
      <4>1. p1.shown = p.shown /\ p1.crossed = p.crossed
        BY <3>1 DEF DeskPage
      <4>2. IsFresh(l1, n)
        BY <3>2 DEF IsFresh
      <4> QED
        BY <4>1, <4>2, <2>i DEF AtTheDesk
    <3> QED
      BY <3>3, <3>4, <2>t, <2>r, DeskMoves
  <2>3. CASE LoadReads(d)
    <3>0. PICK l \in f : /\ l.at = "sent"
                         /\ fetch' = [fetch EXCEPT ![d] = (@ \ {l}) \cup {[l EXCEPT !.at = "answered", !.answer = row]}]
                         /\ UNCHANGED <<row, page, decision, decided, reloads>>
      BY <2>3, <2>f DEF LoadReads
    <3>1. PICK l1 \in LoadRow : l1 = [l EXCEPT !.at = "answered", !.answer = r]
      BY DEF LoadRow
    <3>2. /\ page' = [page EXCEPT ![d] = p] /\ fetch' = [fetch EXCEPT ![d] = (f \ {l}) \cup {l1}]
          /\ decision' = [decision EXCEPT ![d] = c] /\ decided' = [decided EXCEPT ![d] = n] /\ row' = r
          /\ reloads' \in Nat
      BY <3>0, <3>1, <2>f, <2>k, <2>r, <2>o DEF DeskInv
    <3>3. l1.at = "answered" /\ l1.answer = r
      BY <3>1 DEF LoadRow
    <3>4. AtTheDesk(r, p, (f \ {l}) \cup {l1}, c, n)
      <4>1. n =< r.revision /\ n \in Nat /\ r.revision \in Nat
        BY <2>i, <2>t DEF AtTheDesk
      <4>2. r.revision >= n
        BY <4>1
      <4>3. IsFresh(l1, n)
        BY <3>3, <4>2 DEF IsFresh
      <4> QED
        BY <4>3, <2>i DEF AtTheDesk
    <3> QED
      BY <3>2, <3>4, <2>t, <2>r, DeskMoves
  <2>4. CASE LoadEnds(d)
    <3>0. PICK l \in f : /\ \/ /\ l.at = "answered"
                              /\ page' = [page EXCEPT ![d].shown = l.answer, ![d].crossed = l.crossed,
                                                      ![d].loading = FALSE]
                           \/ page' = [page EXCEPT ![d].loading = FALSE]
                         /\ fetch' = [fetch EXCEPT ![d] = @ \ {l}]
                         /\ UNCHANGED <<row, decision, decided, reloads>>
      BY <2>4, <2>f DEF LoadEnds
    <3>1. PICK p1 \in DeskPage : /\ page' = [page EXCEPT ![d] = p1]
                                 /\ \/ p1.shown = p.shown /\ p1.crossed = p.crossed
                                    \/ l.at = "answered" /\ p1.shown = l.answer /\ p1.crossed = l.crossed
      <4>1. CASE l.at = "answered" /\ page' = [page EXCEPT ![d].shown = l.answer, ![d].crossed = l.crossed,
                                                          ![d].loading = FALSE]
        <5>1. PICK p1 \in DeskPage : p1 = [p EXCEPT !.shown = l.answer, !.crossed = l.crossed, !.loading = FALSE]
          BY DEF DeskPage, LoadRow
        <5>2. page' = [page EXCEPT ![d] = p1]
          BY <4>1, <5>1, <2>p DEF DeskInv
        <5>3. p1.shown = l.answer /\ p1.crossed = l.crossed
          BY <5>1 DEF DeskPage
        <5> QED
          BY <4>1, <5>2, <5>3
      <4>2. CASE page' = [page EXCEPT ![d].loading = FALSE]
        <5>1. PICK p1 \in DeskPage : p1 = [p EXCEPT !.loading = FALSE]
          BY DEF DeskPage
        <5>2. page' = [page EXCEPT ![d] = p1]
          BY <4>2, <5>1, <2>p DEF DeskInv
        <5>3. p1.shown = p.shown /\ p1.crossed = p.crossed
          BY <5>1 DEF DeskPage
        <5> QED
          BY <5>2, <5>3
      <4> QED
        BY <4>1, <4>2, <3>0
    <3>2. /\ fetch' = [fetch EXCEPT ![d] = f \ {l}] /\ reloads' \in Nat
          /\ decision' = [decision EXCEPT ![d] = c] /\ decided' = [decided EXCEPT ![d] = n] /\ row' = r
      BY <3>0, <2>f, <2>k, <2>r, <2>o DEF DeskInv
    <3>3. AtTheDesk(r, p1, f \ {l}, c, n)
      <4>1. IsFresh(l, n)
        BY <2>i DEF AtTheDesk
      <4> QED
        BY <3>1, <4>1, <2>i DEF AtTheDesk, IsFresh
    <3> QED
      BY <3>1, <3>2, <3>3, <2>t, <2>r, DeskMoves
  <2>5. CASE \E action \in Action : Asks(d, action)
    <3>0. PICK action \in Action : Asks(d, action)
      BY <2>5
    <3>1. PICK p1 \in DeskPage : p1 = [p EXCEPT !.asks = action]
      BY DEF DeskPage
    <3>2. /\ page' = [page EXCEPT ![d] = p1] /\ fetch' = [fetch EXCEPT ![d] = f]
          /\ decision' = [decision EXCEPT ![d] = c] /\ decided' = [decided EXCEPT ![d] = n] /\ row' = r
          /\ reloads' \in Nat
      BY <3>0, <3>1, <2>p, <2>k, <2>r DEF Asks, DeskInv
    <3>3. AtTheDesk(r, p1, f, c, n)
      BY <3>1, <2>i DEF AtTheDesk, DeskPage
    <3> QED
      BY <3>2, <3>3, <2>t, <2>r, DeskMoves
  <2>6. CASE Cancels(d)
    <3>1. PICK p1 \in DeskPage : p1 = [p EXCEPT !.asks = ""]
      BY DEF DeskPage
    <3>2. /\ page' = [page EXCEPT ![d] = p1] /\ fetch' = [fetch EXCEPT ![d] = f]
          /\ decision' = [decision EXCEPT ![d] = c] /\ decided' = [decided EXCEPT ![d] = n] /\ row' = r
          /\ reloads' \in Nat
      BY <2>6, <3>1, <2>p, <2>k, <2>r DEF Cancels, DeskInv
    <3>3. AtTheDesk(r, p1, f, c, n)
      BY <3>1, <2>i DEF AtTheDesk, DeskPage
    <3> QED
      BY <3>2, <3>3, <2>t, <2>r, DeskMoves
  <2>7. CASE Confirms(d)
    <3>1. PICK p1 \in DeskPage : p1 = [p EXCEPT !.moderating = TRUE]
      BY DEF DeskPage
    <3>2. PICK c1 \in Call : c1 = [Quiet EXCEPT !.at = "sent", !.action = p.asks]
      BY QuietIs DEF DeskPage, Call
    <3>3. /\ page' = [page EXCEPT ![d] = p1] /\ fetch' = [fetch EXCEPT ![d] = f]
          /\ decision' = [decision EXCEPT ![d] = c1] /\ decided' = [decided EXCEPT ![d] = n] /\ row' = r
          /\ reloads' \in Nat
      BY <2>7, <3>1, <3>2, <2>p, <2>k, <2>r DEF Confirms, DeskInv
    <3>4. c1.at = "sent" /\ c1.change = 0
      BY <3>2, QuietIs DEF Call
    <3>p. p1.crossed = p.crossed /\ p1.shown = p.shown
      BY <3>1 DEF DeskPage
    <3>5. AtTheDesk(r, p1, f, c1, n)
      BY <3>p, <3>4, <2>i, <2>t DEF AtTheDesk
    <3> QED
      BY <3>3, <3>5, <2>t, <2>r, DeskMoves
  <2>8. CASE DecisionReads(d)
    <3>1. PICK c1 \in Call : c1 = [c EXCEPT !.at = IF Permitted(c.action) THEN "read" ELSE "refused"]
      BY DEF Call
    <3>2. /\ page' = [page EXCEPT ![d] = p] /\ fetch' = [fetch EXCEPT ![d] = f]
          /\ decision' = [decision EXCEPT ![d] = c1] /\ decided' = [decided EXCEPT ![d] = n] /\ row' = r
          /\ reloads' \in Nat
      BY <2>8, <3>1, <2>c, <2>k, <2>r DEF DecisionReads, Answers, DeskInv
    <3>3. c1.at # "answered" /\ c1.change = c.change /\ c.at = "sent"
      BY <2>8, <3>1, <2>c DEF DecisionReads, Call
    <3>4. AtTheDesk(r, p, f, c1, n)
      BY <3>3, <2>i DEF AtTheDesk
    <3> QED
      BY <3>2, <3>4, <2>t, <2>r, DeskMoves
  <2>9. ASSUME NEW a \in ReportStatus, NEW b \in ReportedStatus, NEW at \in {"answered", "written", "erased"},
               Writes(d, a, b, at), c.at # "none"
        PROVE  DeskInv'
    <3>0. PICK m \in Nat : m = r.revision + 1
      BY <2>t
    <3>1. PICK r1 \in Row : r1 = [report |-> a, account |-> b, revision |-> m]
      BY DEF Row
    <3>2. PICK x \in Row \cup {Unseen} : x = IF at = "answered" THEN r1 ELSE Unseen
      OBVIOUS
    <3>3. PICK c1 \in Call : c1 = [c EXCEPT !.at = at, !.change = r1.revision, !.answer = x]
      BY DEF Call, Row
    <3>4. row' = r1
      BY <2>9, <3>0, <3>1, <2>r DEF Writes
    <3>5. decision' = [decision EXCEPT ![d] = c1]
      BY <2>9, <3>2, <3>3, <3>4, <2>c DEF Writes, DeskInv
    <3>6. /\ page' = [page EXCEPT ![d] = p] /\ fetch' = [fetch EXCEPT ![d] = f]
          /\ decided' = [decided EXCEPT ![d] = n] /\ reloads' \in Nat
      BY <2>9, <2>k, <2>o DEF Writes
    <3>7. c1.at = at /\ c1.change = r1.revision /\ c1.answer = x
      BY <3>3 DEF Call
    <3>8. r1.revision = r.revision + 1 /\ r1.revision \in Nat
      BY <3>0, <3>1 DEF Row
    <3>9. r1.revision >= r.revision /\ n =< r1.revision /\ c1.change =< r1.revision /\ r1.revision >= c1.change
      <4>1. n =< r.revision
        BY <2>i DEF AtTheDesk
      <4> QED
        BY <4>1, <3>7, <3>8, <2>t
    <3>10. AtTheDesk(r1, p, f, c1, n)
      <4>1. at = "answered" => c1.answer = r1
        BY <3>2, <3>7
      <4> QED
        BY <4>1, <3>7, <3>9, <2>i, <2>9 DEF AtTheDesk
    <3> QED
      BY <3>4, <3>5, <3>6, <3>9, <3>10, <2>r, DeskMoves
  <2>s. row.report \in ReportStatus /\ row.account \in ReportedStatus
    BY DEF DeskInv, Row
  <2>10. CASE DismissWrites(d)
    BY <2>10, <2>9, <2>s, <2>c DEF DismissWrites, ReportStatus
  <2>11. CASE ModerationWrites(d)
    <3>1. Effect[decision[d].action] \in ReportedStatus
      BY <2>11 DEF ModerationWrites, Effect, ReportedStatus
    <3>2. PICK a \in ReportStatus : a = IF decision[d].action = "RESTORE" THEN "REVIEWED" ELSE "ACTIONED"
      BY DEF ReportStatus
    <3>3. Writes(d, a, Effect[decision[d].action], "written") /\ c.at # "none"
      BY <2>11, <3>2, <2>c DEF ModerationWrites
    <3> QED
      BY <3>1, <3>3, <2>9
  <2>12. CASE AccountErased(d)
    BY <2>12, <2>9, <2>s, <2>c DEF AccountErased, ReportedStatus
  <2>13. CASE ErasureRecorded(d)
    BY <2>13, <2>9, <2>s, <2>c DEF ErasureRecorded, ReportStatus
  <2>14. CASE DecisionRereads(d)
    <3>1. PICK c1 \in Call : c1 = [c EXCEPT !.at = "answered", !.answer = r]
      BY DEF Call
    <3>2. /\ page' = [page EXCEPT ![d] = p] /\ fetch' = [fetch EXCEPT ![d] = f]
          /\ decision' = [decision EXCEPT ![d] = c1] /\ decided' = [decided EXCEPT ![d] = n] /\ row' = r
          /\ reloads' \in Nat
      BY <2>14, <3>1, <2>c, <2>k, <2>r DEF DecisionRereads, DeskInv
    <3>3. c1.at = "answered" /\ c1.answer = r /\ c1.change = c.change /\ c.at = "written"
      BY <2>14, <3>1, <2>c DEF Call, DecisionRereads
    <3>4. AtTheDesk(r, p, f, c1, n)
      BY <3>3, <2>t, <2>i DEF AtTheDesk
    <3> QED
      BY <3>2, <3>4, <2>t, <2>r, DeskMoves
  <2>15. CASE DecisionArrives(d)
    <3>1. PICK p1 \in DeskPage :
              p1 = [p EXCEPT !.shown = c.answer, !.crossed = FALSE, !.asks = "", !.moderating = FALSE]
      BY DEF DeskPage, Call
    <3>f. PICK f1 \in SUBSET LoadRow : f1 = {[l EXCEPT !.crossed = TRUE] : l \in f}
      <4>1. ASSUME NEW l \in f PROVE [l EXCEPT !.crossed = TRUE] \in LoadRow
        BY DEF LoadRow
      <4> QED
        BY <4>1
    <3>2. /\ page' = [page EXCEPT ![d] = p1] /\ fetch' = [fetch EXCEPT ![d] = f1]
          /\ decision' = [decision EXCEPT ![d] = Quiet] /\ decided' = [decided EXCEPT ![d] = c.change] /\ row' = r
          /\ reloads' \in Nat
      <4>1. page' = [page EXCEPT ![d] = p1]
        BY <2>15, <3>1, <2>p, <2>c DEF DecisionArrives, DeskInv
      <4>2. fetch' = [fetch EXCEPT ![d] = f1]
        BY <2>15, <3>f, <2>f DEF DecisionArrives, DeskInv
      <4> QED
        BY <4>1, <4>2, <2>15, <2>c, <2>r, <2>o DEF DecisionArrives
    <3>3. c.at = "answered" /\ p1.shown = c.answer
      BY <2>15, <3>1, <2>c DEF DecisionArrives, DeskPage
    <3>5. AtTheDesk(r, p1, f1, Quiet, c.change)
      <4>1. c.change =< r.revision /\ c.answer.revision >= c.change
        BY <3>3, <2>i DEF AtTheDesk
      <4>2. ASSUME NEW m \in f1 PROVE IsFresh(m, c.change)
        <5>1. PICK l \in f : m = [l EXCEPT !.crossed = TRUE]
          BY <3>f
        <5>2. l \in LoadRow /\ m.crossed = TRUE /\ m.at = l.at /\ m.answer = l.answer
          BY <5>1 DEF LoadRow
        <5>3. IsFresh(l, n)
          BY <2>i DEF AtTheDesk
        <5> QED
          BY <5>2, <5>3 DEF IsFresh
      <4> QED
        BY <4>1, <4>2, <3>3, <2>t, QuietIs DEF AtTheDesk
    <3> QED
      BY <3>2, <3>5, <2>t, <2>r, QuietIs, DeskMoves
  <2>16. CASE DecisionFails(d)
    <3>1. PICK p1 \in DeskPage : p1 = [p EXCEPT !.moderating = FALSE]
      BY DEF DeskPage
    <3>2. /\ page' = [page EXCEPT ![d] = p1] /\ fetch' = [fetch EXCEPT ![d] = f]
          /\ decision' = [decision EXCEPT ![d] = Quiet] /\ decided' = [decided EXCEPT ![d] = n] /\ row' = r
          /\ reloads' \in Nat
      BY <2>16, <3>1, <2>p, <2>k, <2>r DEF DecisionFails, DeskInv
    <3>p. p1.crossed = p.crossed /\ p1.shown = p.shown
      BY <3>1 DEF DeskPage
    <3>3. AtTheDesk(r, p1, f, Quiet, n)
      BY <3>p, <2>i, <2>t, QuietIs DEF AtTheDesk
    <3> QED
      BY <3>2, <3>3, <2>t, <2>r, QuietIs, DeskMoves
  <2> QED
    BY <2>1, <2>2, <2>3, <2>4, <2>5, <2>6, <2>7, <2>8, <2>10, <2>11, <2>12, <2>13, <2>14, <2>15, <2>16
<1> QED
  BY <1>1, <1>2

LEMMA DeskIsRight == DeskInv => DeskTypeOK /\ DeskShowsItsDecision
<1> SUFFICES ASSUME DeskInv PROVE DeskTypeOK /\ DeskShowsItsDecision
  OBVIOUS
<1>1. DeskTypeOK
  <2>1. ASSUME NEW d \in Desk
        PROVE  /\ page[d].shown \in Row \cup {Unseen} /\ page[d].crossed \in BOOLEAN /\ page[d].loading \in BOOLEAN
               /\ page[d].moderating \in BOOLEAN /\ page[d].asks \in Action \cup {""}
    <3>1. page[d] \in DeskPage
      BY DEF DeskInv
    <3> QED
      BY <3>1 DEF DeskPage
  <2>2. ASSUME NEW d \in Desk, NEW l \in fetch[d] PROVE l.at \in {"sent", "answered"} /\ l.crossed \in BOOLEAN
    <3>1. l \in LoadRow
      BY DEF DeskInv
    <3> QED
      BY <3>1 DEF LoadRow
  <2>3. ASSUME NEW d \in Desk
        PROVE  decision[d].at \in {"none", "sent", "read", "refused", "erased", "written", "answered"}
    <3>1. decision[d] \in Call
      BY DEF DeskInv
    <3> QED
      BY <3>1 DEF Call
  <2>4. row \in Row
    BY DEF DeskInv
  <2> QED
    BY <2>1, <2>2, <2>3, <2>4 DEF DeskTypeOK
<1>2. DeskShowsItsDecision
  BY DEF DeskInv, DeskShowsItsDecision, AtTheDesk
<1> QED
  BY <1>1, <1>2

\* The desk of reports-tab.tsx keeps to its types.
THEOREM DeskIsWellTyped == DeskSpec => []DeskTypeOK
<1> QED
  BY DeskStarts, DeskSteps, DeskIsRight, PTL DEF DeskSpec

\* A page never shows the report as it was before the decision it was answered, except from a
\* load of its own that was under way when the answer came (reports-tab.tsx).
THEOREM DecisionIsShown == DeskSpec => []DeskShowsItsDecision
<1> QED
  BY DeskStarts, DeskSteps, DeskIsRight, PTL DEF DeskSpec

-----------------------------------------------------------------------------
(*************************************************************************)
(* The list of users. The one request that was not given up asks for     *)
(* what the controls show (OneIsHeeded), and a list that answers         *)
(* another query is about to be asked for (IsSettled).                   *)
(*************************************************************************)

RequestRow == [id : Nat, of : Query, at : {"sent", "counted", "answered"}, aborted : BOOLEAN,
               page : Nat, pages : Nat, rows : SUBSET Registered]
ListingRow == [rows : SUBSET Registered, page : Nat, pages : Nat, answers : Query]

ListTypes ==
    /\ search \in Term /\ query \in Query
    /\ debounce \in BOOLEAN /\ starting \in BOOLEAN /\ loading \in BOOLEAN
    /\ listing \in ListingRow /\ listing.page <= listing.pages
    /\ opened \in [id : Registered \cup {0}, shown : BOOLEAN]
    /\ loads \in Nat

\* A page that was counted exists.
PageExists(r) == r.at # "sent" => 1 <= r.page /\ r.page <= r.pages

\* The one request that was not given up asks for what the controls show.
OneIsHeeded(Q, q) ==
    /\ Q \in SUBSET RequestRow
    /\ \A r \in Q : PageExists(r) /\ (~r.aborted => r.of = q)
    /\ \A r, s \in Q : ~r.aborted /\ ~s.aborted => r = s

\* A list that answers another query than the controls show is about to be asked for.
IsSettled(st, lo, li, q) == st \/ lo \/ li = NoListing \/ li.answers = q

AdminUsersInv ==
    /\ accountStatus \in [Registered -> Statuses]
    /\ ListTypes
    /\ OneIsHeeded(requests, query)
    /\ IsSettled(starting, loading, listing, query)

LEMMA QueryIs ==
    /\ FirstQuery \in Query /\ NoListing \in ListingRow /\ NoListing.page <= NoListing.pages
    /\ \A q \in Query, p \in Nat \ {0} : [q EXCEPT !.page = p] \in Query /\ (q.page = p => [q EXCEPT !.page = p] = q)
    /\ \A q \in Query, t \in Term : [q EXCEPT !.search = t, !.page = 1] \in Query
    /\ \A q \in Query, st \in {"", "ACTIVE", "BANNED"} : [q EXCEPT !.status = st, !.page = 1] \in Query
<1>1. FirstQuery \in Query /\ FirstQuery.page = 1
  BY DEF FirstQuery, Query, Term
<1>2. NoListing \in ListingRow
  BY <1>1 DEF NoListing, ListingRow
<1>3. NoListing.page <= NoListing.pages
  BY DEF NoListing
<1>4. ASSUME NEW q \in Query, NEW p \in Nat \ {0}
      PROVE  [q EXCEPT !.page = p] \in Query /\ (q.page = p => [q EXCEPT !.page = p] = q)
  <2>1. [q EXCEPT !.page = p] \in Query
    BY DEF Query
  <2>2. q.page = p => [q EXCEPT !.page = p] = q
    BY DEF Query
  <2> QED
    BY <2>1, <2>2
<1>. PICK one \in Nat \ {0} : one = 1
  OBVIOUS
<1>5. ASSUME NEW q \in Query, NEW t \in Term PROVE [q EXCEPT !.search = t, !.page = 1] \in Query
  <2>1. [q EXCEPT !.search = t, !.page = one] \in Query
    BY DEF Query
  <2> QED
    BY <2>1
<1>6. ASSUME NEW q \in Query, NEW st \in {"", "ACTIVE", "BANNED"}
      PROVE  [q EXCEPT !.status = st, !.page = 1] \in Query
  <2>1. [q EXCEPT !.status = st, !.page = one] \in Query
    BY DEF Query
  <2> QED
    BY <2>1
<1> QED
  BY <1>1, <1>2, <1>3, <1>4, <1>5, <1>6

\* Giving up what is under way.
LEMMA AbortedIs ==
    ASSUME NEW Q \in SUBSET RequestRow, \A r \in Q : PageExists(r)
    PROVE  \A r \in {[s EXCEPT !.aborted = TRUE] : s \in Q} :
              r \in RequestRow /\ PageExists(r) /\ r.aborted
  BY DEF RequestRow, PageExists

LEMMA NothingIsHeeded == AdminUsersInv => \A q : OneIsHeeded(Aborted, q)
<1> SUFFICES ASSUME AdminUsersInv, NEW q PROVE OneIsHeeded(Aborted, q)
  OBVIOUS
<1>1. requests \in SUBSET RequestRow /\ \A r \in requests : PageExists(r)
  BY DEF AdminUsersInv, OneIsHeeded
<1>2. \A r \in Aborted : r \in RequestRow /\ PageExists(r) /\ r.aborted
  BY <1>1, AbortedIs DEF Aborted
<1> QED
  BY <1>2 DEF OneIsHeeded

\* The pages of a selection are numbered from one.
LEMMA PagesAreThere ==
    ASSUME NEW q PROVE PagesOf(Cardinality(Selected(q))) \in Nat \ {0}
<1>1. PICK n \in Nat : n = Cardinality(Selected(q))
  BY AdminUsersAssumption, FS_Subset, FS_CardinalityType DEF Selected
<1>2. PICK k \in Nat \ {0} : k = RowsPerPage
  BY AdminUsersAssumption
<1>3. n # 0 => (n - 1) \div k \in Nat
  BY SMT
<1> QED
  BY <1>1, <1>2, <1>3 DEF PagesOf

LEMMA AdminUsersStarts == AdminUsersInit => AdminUsersInv
<1> SUFFICES ASSUME AdminUsersInit PROVE AdminUsersInv
  OBVIOUS
<1>1. accountStatus \in [Registered -> Statuses]
  BY DEF AdminUsersInit, Statuses
<1>2. ListTypes
  BY QueryIs DEF AdminUsersInit, ListTypes, Term
<1>3. OneIsHeeded(requests, query) /\ IsSettled(starting, loading, listing, query)
  BY DEF AdminUsersInit, OneIsHeeded, IsSettled
<1> QED
  BY <1>1, <1>2, <1>3 DEF AdminUsersInv

\* One request in the place of another.
LEMMA RequestMoves ==
    ASSUME AdminUsersInv, NEW r \in requests, NEW s \in RequestRow,
           PageExists(s), s.aborted = r.aborted, s.of = r.of
    PROVE  OneIsHeeded((requests \ {r}) \cup {s}, query)
  BY DEF AdminUsersInv, OneIsHeeded

LEMMA AdminUsersSteps == AdminUsersInv /\ [AdminUsersNext]_adminVars => AdminUsersInv'
<1> SUFFICES ASSUME AdminUsersInv, [AdminUsersNext]_adminVars PROVE AdminUsersInv'
  OBVIOUS
<1> USE DEF AdminUsersInv
<1>1. CASE UNCHANGED adminVars
  BY <1>1 DEF adminVars, ListTypes
<1>2. ASSUME NEW u \in Registered, AccountMoves(u) PROVE AdminUsersInv'
  <2>1. accountStatus' \in [Registered -> Statuses]
    BY <1>2 DEF AccountMoves
  <2> QED
    BY <1>2, <2>1 DEF AccountMoves, ListTypes
<1>3. ASSUME NEW o \in [id : Registered \cup {0}, shown : BOOLEAN], Opens(o) PROVE AdminUsersInv'
  BY <1>3 DEF Opens, ListTypes
<1>4. ASSUME NEW t \in Term, Types(t) PROVE AdminUsersInv'
  BY <1>4 DEF Types, ListTypes
<1>5. CASE DebounceEnds
  <2>1. CASE query.search = search
    BY <1>5, <2>1 DEF DebounceEnds, ListTypes
  <2>2. CASE query.search # search
    <3>1. PICK q \in Query : q = [query EXCEPT !.search = search, !.page = 1]
      BY QueryIs DEF ListTypes
    <3>2. query' = q /\ requests' = Aborted /\ starting' = TRUE /\ debounce' = FALSE
          /\ UNCHANGED <<accountStatus, search, loading, listing, opened, loads>>
      BY <1>5, <2>2, <3>1 DEF DebounceEnds, AsksFor
    <3>3. OneIsHeeded(requests', q)
      BY <3>2, NothingIsHeeded
    <3> QED
      BY <3>2, <3>3 DEF ListTypes, IsSettled
  <2> QED
    BY <2>1, <2>2
<1>6. ASSUME NEW st \in {"", "ACTIVE", "BANNED"}, PicksStatus(st) PROVE AdminUsersInv'
  <2>1. PICK q \in Query : q = [query EXCEPT !.status = st, !.page = 1]
    BY QueryIs DEF ListTypes
  <2>2. query' = q /\ requests' = Aborted /\ starting' = TRUE /\ loading' = TRUE
        /\ UNCHANGED <<accountStatus, search, debounce, listing, opened, loads>>
    BY <1>6, <2>1 DEF PicksStatus, AsksFor
  <2>3. OneIsHeeded(requests', q)
    BY <2>2, NothingIsHeeded
  <2> QED
    BY <2>2, <2>3 DEF ListTypes, IsSettled
<1>7. ASSUME NEW n, ChangesPage(n) PROVE AdminUsersInv'
  <2>0. listing.pages \in Nat /\ n \in 1..listing.pages
    BY <1>7 DEF ChangesPage, ListTypes, ListingRow
  <2>. n \in Nat \ {0}
    BY <2>0
  <2>1. PICK q \in Query : q = [query EXCEPT !.page = n]
    BY QueryIs DEF ListTypes
  <2>2. query' = q /\ requests' = Aborted /\ starting' = TRUE /\ loading' = TRUE
        /\ UNCHANGED <<accountStatus, search, debounce, listing, opened, loads>>
    BY <1>7, <2>1 DEF ChangesPage, AsksFor
  <2>3. OneIsHeeded(requests', q)
    BY <2>2, NothingIsHeeded
  <2> QED
    BY <2>2, <2>3 DEF ListTypes, IsSettled
<1>8. ASSUME Loading, starting' \in BOOLEAN PROVE AdminUsersInv'
  <2>1. PICK r \in RequestRow : r = [id |-> loads, of |-> query, at |-> "sent", aborted |-> FALSE,
                                     page |-> 0, pages |-> 0, rows |-> {}]
    BY DEF ListTypes, RequestRow
  <2>2. requests' = Aborted \cup {r} /\ loading' = TRUE /\ loads' = loads + 1
        /\ UNCHANGED <<accountStatus, search, debounce, query, listing, opened>>
    BY <1>8, <2>1 DEF Loading
  <2>3. r.at = "sent" /\ r.of = query
    BY <2>1
  <2>4. requests \in SUBSET RequestRow /\ \A x \in requests : PageExists(x)
    BY DEF OneIsHeeded
  <2>5. \A x \in Aborted : x \in RequestRow /\ PageExists(x) /\ x.aborted
    BY <2>4, AbortedIs DEF Aborted
  <2>6. OneIsHeeded(requests', query)
    BY <2>2, <2>3, <2>5 DEF OneIsHeeded, PageExists
  <2> QED
    BY <1>8, <2>2, <2>6 DEF ListTypes, IsSettled
<1>9. ASSUME NEW r \in requests, Counts(r) \/ Reads(r) PROVE AdminUsersInv'
  <2>0. r \in RequestRow /\ PageExists(r)
    BY DEF OneIsHeeded
  <2>1. PICK s \in RequestRow : Becomes(r, s) /\ PageExists(s) /\ s.aborted = r.aborted /\ s.of = r.of
    <3>1. CASE Counts(r)
      <4>1. PICK n \in Nat \ {0} : n = PagesOf(Cardinality(Selected(r.of)))
        BY PagesAreThere
      <4>2. PICK p \in Nat \ {0} : p = r.of.page
        BY <2>0 DEF RequestRow, Query
      <4>3. PICK m \in Nat \ {0} : m = Least(p, n) /\ m <= n
        BY DEF Least
      <4>4. PICK s \in RequestRow : s = [r EXCEPT !.at = "counted", !.pages = n, !.page = m]
        BY <2>0 DEF RequestRow
      <4>5. Becomes(r, s)
        BY <3>1, <4>1, <4>2, <4>3, <4>4 DEF Counts
      <4>6. s.page = m /\ s.pages = n /\ s.aborted = r.aborted /\ s.of = r.of
        BY <4>4, <2>0 DEF RequestRow
      <4>7. PageExists(s)
        BY <4>3, <4>6 DEF PageExists
      <4> QED
        BY <4>5, <4>6, <4>7
    <3>2. CASE Reads(r)
      <4>1. PICK x \in SUBSET Registered : x = RowsAt(r.of, r.page)
        BY DEF RowsAt, Selected
      <4>2. PICK s \in RequestRow : s = [r EXCEPT !.at = "answered", !.rows = x]
        BY <2>0 DEF RequestRow
      <4>3. Becomes(r, s)
        BY <3>2, <4>1, <4>2 DEF Reads
      <4>4. s.page = r.page /\ s.pages = r.pages /\ s.aborted = r.aborted /\ s.of = r.of /\ r.at = "counted"
        BY <4>2, <2>0, <3>2 DEF RequestRow, Reads
      <4> QED
        BY <4>3, <4>4, <2>0 DEF PageExists
    <3> QED
      BY <3>1, <3>2, <1>9
  <2>2. OneIsHeeded((requests \ {r}) \cup {s}, query)
    BY <2>1, RequestMoves
  <2> QED
    BY <2>1, <2>2 DEF Becomes, ListTypes
<1>10. ASSUME NEW r \in requests, ListArrives(r) PROVE AdminUsersInv'
  <2>0. r \in RequestRow /\ PageExists(r) /\ r.at = "answered"
    BY <1>10 DEF OneIsHeeded, ListArrives
  <2>1. CASE ~Heeded(r)
    <3>1. OneIsHeeded(requests', query)
      BY <1>10 DEF ListArrives, OneIsHeeded
    <3> QED
      BY <1>10, <2>1, <3>1 DEF ListArrives, ListTypes
  <2>2. CASE Heeded(r)
    <3>1. r.of = query /\ \A s \in requests \ {r} : s.aborted
      BY <2>2 DEF OneIsHeeded, Heeded
    <3>2. r.page \in Nat \ {0} /\ r.page <= r.pages /\ r.pages \in Nat /\ r.rows \in SUBSET Registered
      <4>1. r.page \in Nat /\ r.pages \in Nat /\ r.rows \in SUBSET Registered
        BY <2>0 DEF RequestRow
      <4>2. 1 <= r.page /\ r.page <= r.pages
        BY <2>0 DEF PageExists
      <4> QED
        BY <4>1, <4>2
    <3>3. PICK p \in Nat \ {0} : p = r.page
      BY <3>2
    <3>4. PICK q \in Query : q = [query EXCEPT !.page = p] /\ (p = query.page => q = query)
      BY QueryIs DEF ListTypes
    <3>5. PICK l \in ListingRow : l = [rows |-> r.rows, page |-> p, pages |-> r.pages, answers |-> q]
      BY <3>2 DEF ListingRow
    <3>6. listing' = l /\ loading' = FALSE /\ requests' = requests \ {r}
          /\ UNCHANGED <<accountStatus, search, debounce, opened, loads>>
      BY <1>10, <2>2, <3>1, <3>3, <3>4, <3>5 DEF ListArrives
    <3>7. l.page <= l.pages /\ l.answers = q
      BY <3>5, <3>2, <3>3
    <3>8. (query' = q /\ starting' = TRUE) \/ (query' = q /\ starting' = starting)
      BY <1>10, <2>2, <3>1, <3>3, <3>4 DEF ListArrives
    <3>9. OneIsHeeded(requests', q)
      BY <3>1, <3>6 DEF OneIsHeeded
    <3> QED
      BY <3>6, <3>7, <3>8, <3>9 DEF ListTypes, IsSettled
  <2> QED
    BY <2>1, <2>2
<1>11. ASSUME NEW r \in requests, ListFails(r) PROVE AdminUsersInv'
  <2>1. OneIsHeeded(requests', query)
    BY <1>11 DEF ListFails, OneIsHeeded
  <2>2. listing' = NoListing \/ (listing' = listing /\ loading' = loading)
    BY <1>11 DEF ListFails
  <2>3. loading' \in BOOLEAN /\ UNCHANGED <<accountStatus, search, debounce, query, starting, opened, loads>>
    BY <1>11 DEF ListFails, ListTypes
  <2> QED
    BY <2>1, <2>2, <2>3, QueryIs DEF ListTypes, IsSettled
<1>12. ASSUME NEW u \in Registered, OpensUser(u) PROVE AdminUsersInv'
  BY <1>12, <1>3 DEF OpensUser
<1>13. CASE UserArrives
  <2>1. [opened EXCEPT !.shown = TRUE] \in [id : Registered \cup {0}, shown : BOOLEAN]
    BY DEF ListTypes
  <2> QED
    BY <1>13, <2>1, <1>3 DEF UserArrives
<1>14. CASE UserFails \/ GoesBack
  BY <1>14, <1>3 DEF UserFails, GoesBack
<1>15. CASE LoadBegins \/ Refreshes
  BY <1>15, <1>8 DEF LoadBegins, Refreshes, ListTypes
<1> QED
  BY <1>1, <1>2, <1>4, <1>5, <1>6, <1>7, <1>9, <1>10, <1>11, <1>12, <1>13, <1>14, <1>15 DEF AdminUsersNext

LEMMA AdminListIsRight == AdminUsersInv => AdminUsersTypeOK /\ ListAnswersTheQuery
<1> SUFFICES ASSUME AdminUsersInv PROVE AdminUsersTypeOK /\ ListAnswersTheQuery
  OBVIOUS
<1>1. \A r \in requests : r \in RequestRow
  BY DEF AdminUsersInv, OneIsHeeded
<1>2. AdminUsersTypeOK
  BY <1>1 DEF AdminUsersInv, ListTypes, AdminUsersTypeOK, RequestRow, ListingRow
<1>3. ListAnswersTheQuery
  BY DEF AdminUsersInv, IsSettled, ListAnswersTheQuery
<1> QED
  BY <1>2, <1>3

\* The list of users-tab.tsx keeps to its types.
THEOREM AdminListIsWellTyped == AdminUsersSpec => []AdminUsersTypeOK
<1> QED
  BY AdminUsersStarts, AdminUsersSteps, AdminListIsRight, PTL DEF AdminUsersSpec

\* At rest, the list is the answer to the filters and the page that the controls show.
THEOREM TheListAnswers == AdminUsersSpec => []ListAnswersTheQuery
<1> QED
  BY AdminUsersStarts, AdminUsersSteps, AdminListIsRight, PTL DEF AdminUsersSpec

-----------------------------------------------------------------------------
(*************************************************************************)
(* The form of an event. What the pages know of an event is what an      *)
(* event can be, and what a write stored is what its form asked for      *)
(* (IsSaved): of the forms the page can hold, buildTicketTypeInputs and  *)
(* syncTicketTypes keep exactly the tiers that were offered.             *)
(*************************************************************************)

\* What the pages can know of the event e, and ask about it.
Known(e) == IF e = NotCreated THEN {NotCreated} ELSE EventOf \cup {NotCreated}
Asking(e) == IF e = NotCreated THEN {FALSE} ELSE BOOLEAN
Writing(e) == IF e = NotCreated THEN {"none", "create"} ELSE {"none", "create", "edit", "cancel"}

EditorDesk(K, A) == [at : {"list", "create", "edit"}, mode : {"active", "inactive"}, has : K, form : Form,
                     loading : BOOLEAN, busy : {"no", "uploading", "writing"}, modal : A]
EditorLoad(K) == [at : {"none", "sent", "read"}, got : K]
EditorWrite(K, W) == [at : {"none", "sent", "read", "refused", "done"}, kind : W, form : Form, read : K]

OfferRow == [price : Price, capacity : Seating]
KeptTiers(offer) == IF \E t \in Offer : offer[t].price > 0 THEN {t \in Offer : offer[t].price > 0} ELSE {Regular}

\* The event e is what the form asked for.
IsSaved(e, input) ==
    /\ e.cover = input.cover /\ e.words = input.words
    /\ e.tiers = [t \in KeptTiers(input.offer) |-> input.offer[t]]
    /\ e.access = IF \E t \in Offer : input.offer[t].price > 0 THEN "MEMBERS_ONLY" ELSE "PUBLIC"

\* A write that was read, or is to be, has an event to write to.
HasEvent(w) == (w.at = "sent" => w.kind # "none") /\ (w.at = "read" => w.read # NotCreated)

EventEditorInv ==
    /\ ev \in EventOf \cup {NotCreated}
    /\ seats \in [Offer -> SUBSET {"reserved", "confirmed", "lapsed"}]
    /\ desk \in [Organisers -> EditorDesk(Known(ev), Asking(ev))]
    /\ loadOf \in [Organisers -> EditorLoad(Known(ev))]
    /\ writeOf \in [Organisers -> EditorWrite(Known(ev), Writing(ev))]
    /\ \A p \in Organisers : HasEvent(writeOf[p])
    /\ agreed \in Form \cup {NotCreated}
    /\ agreed # NotCreated /\ ev # NotCreated => IsSaved(ev, agreed)
    /\ \A t \in Offer : seats[t] # {} => ev # NotCreated /\ t \in DOMAIN ev.tiers

-----------------------------------------------------------------------------
\* The tiers of a form.

LEMMA KeptIs ==
    ASSUME NEW o, o \in [Offer -> OfferRow]
    PROVE  /\ Kept(o) = [t \in KeptTiers(o) |-> o[t]]
           /\ KeptTiers(o) \subseteq Offer
<1>1. \A t \in Offer : o[t] \in OfferRow
  OBVIOUS
<1>2. CASE \E t \in Offer : o[t].price > 0
  BY <1>2 DEF Kept, KeptTiers
<1>3. CASE ~\E t \in Offer : o[t].price > 0
  <2>1. {t \in Offer : o[t].price > 0} = {} /\ KeptTiers(o) = {Regular} /\ Regular \in Offer
    BY <1>3, EventEditorAssumption DEF KeptTiers
  <2>2. PICK x \in OfferRow : x = o[Regular]
    BY <1>1, <2>1
  <2>3. x.price = 0
    BY <1>3, <2>1, <2>2 DEF OfferRow, Price
  <2>4. [x EXCEPT !.price = 0] = x
    BY <2>3 DEF OfferRow
  <2> QED
    BY <2>1, <2>2, <2>4 DEF Kept
<1> QED
  BY <1>2, <1>3

LEMMA TierInputsAre ==
    ASSUME NEW o, o \in [Offer -> OfferRow], NEW current
    PROVE  TierInputs(Kept(o), current) = Kept(o)
<1>1. \A t \in Offer : o[t] \in OfferRow
  OBVIOUS
<1>2. PICK k : k = [t \in KeptTiers(o) |-> o[t]]
  OBVIOUS
<1>3. Kept(o) = k /\ DOMAIN k = KeptTiers(o) /\ KeptTiers(o) \subseteq Offer
      /\ \A t \in KeptTiers(o) : k[t] = o[t]
  BY <1>2, KeptIs
<1>4. PICK i : i = [t \in Offer |->
                       [price |-> SubmittedPrice(k, current, t),
                        capacity |-> IF t \in DOMAIN k THEN k[t].capacity
                                     ELSE IF t \in DOMAIN current THEN current[t].capacity ELSE Default.capacity]]
  OBVIOUS
<1>5. TierInputs(Kept(o), current) = Kept(i)
  BY <1>3, <1>4 DEF TierInputs
<1>6. \A t \in KeptTiers(o) : i[t] = [price |-> o[t].price, capacity |-> o[t].capacity]
  BY <1>3, <1>4 DEF SubmittedPrice
<1>7. \A t \in KeptTiers(o) : i[t] = o[t]
  BY <1>1, <1>3, <1>6 DEF OfferRow
<1>8. \A t \in Offer : t \notin KeptTiers(o) => i[t].price = 0
  BY <1>3, <1>4 DEF SubmittedPrice
<1>9. \A t \in Offer : i[t].price > 0 <=> o[t].price > 0
  BY <1>7, <1>8 DEF KeptTiers
<1>10. CASE \E t \in Offer : o[t].price > 0
  <2>1. {t \in Offer : i[t].price > 0} = KeptTiers(o) /\ KeptTiers(o) # {}
    BY <1>9, <1>10 DEF KeptTiers
  <2>2. Kept(i) = [t \in KeptTiers(o) |-> i[t]]
    BY <2>1 DEF Kept
  <2> QED
    BY <1>2, <1>3, <1>5, <1>7, <2>2
<1>11. CASE ~\E t \in Offer : o[t].price > 0
  <2>1. {t \in Offer : i[t].price > 0} = {} /\ KeptTiers(o) = {Regular} /\ Regular \in Offer
    BY <1>9, <1>11, EventEditorAssumption DEF KeptTiers
  <2>2. PICK x \in OfferRow : x = o[Regular]
    BY <1>1, <2>1
  <2>3. x.price = 0 /\ i[Regular] = x
    BY <1>7, <1>11, <2>1, <2>2 DEF OfferRow, Price
  <2>4. [x EXCEPT !.price = 0] = x
    BY <2>3 DEF OfferRow
  <2>5. Kept(i) = [t \in {Regular} |-> x]
    BY <2>1, <2>3, <2>4 DEF Kept
  <2> QED
    BY <1>2, <1>3, <1>5, <2>1, <2>2, <2>5
<1> QED
  BY <1>10, <1>11

LEMMA FormsAre ==
    /\ EmptyForm \in Form
    /\ \A e \in EventOf : FormFrom(e) \in Form
    /\ \A f \in Form : f.offer \in [Offer -> OfferRow] /\ f.words \in Words /\ f.status \in EventStatus
                       /\ f.cover \in {"", "old", "new"} /\ f.ends \in BOOLEAN
<1>1. Default \in OfferRow
  BY DEF Default, OfferRow, Price, Seating
<1>2. EmptyForm \in Form
  <2>1. [t \in Offer |-> Default] \in [Offer -> OfferRow]
    BY <1>1
  <2> QED
    BY <2>1 DEF EmptyForm, Form, OfferRow, EventStatus, Words
<1>3. ASSUME NEW e \in EventOf PROVE FormFrom(e) \in Form
  <2>1. PICK T \in SUBSET Offer : e.tiers \in [T -> OfferRow]
    BY DEF EventOf, Tiers, OfferRow
  <2>2. PICK o : o = [t \in Offer |-> IF t \in DOMAIN e.tiers THEN e.tiers[t] ELSE Default]
    OBVIOUS
  <2>3. o \in [Offer -> OfferRow]
    BY <1>1, <2>1, <2>2
  <2>4. e.status \in EventStatus /\ e.words \in Words /\ e.cover \in {"", "old", "new"} /\ e.ends \in BOOLEAN
    BY DEF EventOf
  <2> QED
    BY <2>2, <2>3, <2>4 DEF FormFrom, Form, OfferRow
<1>4. \A f \in Form : f.offer \in [Offer -> OfferRow] /\ f.words \in Words /\ f.status \in EventStatus
                      /\ f.cover \in {"", "old", "new"} /\ f.ends \in BOOLEAN
  BY DEF Form, OfferRow
<1> QED
  BY <1>2, <1>3, <1>4

-----------------------------------------------------------------------------
\* Rows.

LEMMA KnownIs ==
    ASSUME ev \in EventOf \cup {NotCreated}
    PROVE  /\ ev \in Known(ev) /\ NotCreated \in Known(ev) /\ Known(ev) \subseteq EventOf \cup {NotCreated}
           /\ FALSE \in Asking(ev) /\ {"none", "create"} \subseteq Writing(ev)
           /\ \A k \in Known(ev) : k # NotCreated =>
                 ev # NotCreated /\ k \in EventOf /\ Asking(ev) = BOOLEAN
                 /\ Writing(ev) = {"none", "create", "edit", "cancel"}
  BY NotCreatedIsNoEvent DEF Known, Asking, Writing

LEMMA FreshRows ==
    ASSUME NEW K, NEW A, NEW W, NotCreated \in K, FALSE \in A, {"none", "create"} \subseteq W
    PROVE  /\ ListPage \in EditorDesk(K, A)
           /\ NoLoad \in EditorLoad(K) /\ [NoLoad EXCEPT !.at = "sent"] \in EditorLoad(K)
           /\ NoWrite \in EditorWrite(K, W) /\ HasEvent(NoWrite)
<1>1. EmptyForm \in Form
  BY FormsAre
<1>2. ListPage \in EditorDesk(K, A)
  BY <1>1 DEF ListPage, EditorDesk
<1>3. NoLoad \in EditorLoad(K) /\ [NoLoad EXCEPT !.at = "sent"] \in EditorLoad(K)
  BY DEF NoLoad, EditorLoad
<1>4. NoWrite \in EditorWrite(K, W) /\ HasEvent(NoWrite)
  BY <1>1 DEF NoWrite, EditorWrite, HasEvent
<1> QED
  BY <1>2, <1>3, <1>4

LEMMA EventEditorStarts == EventEditorInit => EventEditorInv
<1> SUFFICES ASSUME EventEditorInit PROVE EventEditorInv
  OBVIOUS
<1>1. FreeEvent \in EventOf /\ [FreeEvent EXCEPT !.status = "PUBLISHED"] \in EventOf
  <2>1. Default \in [price : Price, capacity : Seating]
    BY DEF Default, Price, Seating
  <2>2. PICK f : f = [t \in {Regular} |-> Default]
    OBVIOUS
  <2>3. f \in [{Regular} -> [price : Price, capacity : Seating]] /\ {Regular} \in SUBSET Offer
    BY <2>1, <2>2, EventEditorAssumption
  <2>4. f \in Tiers
    BY <2>3 DEF Tiers
  <2>5. FreeEvent = [status |-> "DRAFT", words |-> "old", cover |-> "old", ends |-> TRUE, tiers |-> f, access |-> "PUBLIC"]
    BY <2>2 DEF FreeEvent
  <2> QED
    BY <2>4, <2>5 DEF EventOf, EventStatus, Words
<1>2. ev \in EventOf \cup {NotCreated} /\ agreed = NotCreated
  BY <1>1 DEF EventEditorInit
<1>3. PICK K, A, W : K = Known(ev) /\ A = Asking(ev) /\ W = Writing(ev)
  OBVIOUS
<1>4. ListPage \in EditorDesk(K, A) /\ [NoLoad EXCEPT !.at = "sent"] \in EditorLoad(K)
      /\ NoWrite \in EditorWrite(K, W) /\ HasEvent(NoWrite)
  BY <1>2, <1>3, KnownIs, FreshRows
<1>5. desk \in [Organisers -> EditorDesk(K, A)] /\ loadOf \in [Organisers -> EditorLoad(K)]
      /\ writeOf \in [Organisers -> EditorWrite(K, W)] /\ \A p \in Organisers : HasEvent(writeOf[p])
  BY <1>4 DEF EventEditorInit
<1>6. seats \in [Offer -> SUBSET {"reserved", "confirmed", "lapsed"}] /\ \A t \in Offer : seats[t] = {}
  BY DEF EventEditorInit
<1> QED
  BY <1>2, <1>3, <1>5, <1>6 DEF EventEditorInv

\* A step of the pages leaves the event and its seats alone.
LEMMA PagesMove ==
    ASSUME EventEditorInv, NEW K, NEW A, NEW W, K = Known(ev), A = Asking(ev), W = Writing(ev),
           UNCHANGED <<ev, seats, agreed>>,
           desk' \in [Organisers -> EditorDesk(K, A)], loadOf' \in [Organisers -> EditorLoad(K)],
           writeOf' \in [Organisers -> EditorWrite(K, W)], \A p \in Organisers : HasEvent(writeOf'[p])
    PROVE  EventEditorInv'
<1>1. Known(ev)' = K /\ Asking(ev)' = A /\ Writing(ev)' = W
  BY DEF Known, Asking, Writing
<1>2. (\A p \in Organisers : HasEvent(writeOf[p]))'
  BY DEF HasEvent
<1> QED
  BY <1>1, <1>2 DEF EventEditorInv, IsSaved

\* The form of one page is changed.
LEMMA FormChanges ==
    ASSUME NEW K, NEW A, desk \in [Organisers -> EditorDesk(K, A)], NEW p \in Organisers, NEW input \in Form,
           Changes(p, input)
    PROVE  desk' \in [Organisers -> EditorDesk(K, A)] /\ UNCHANGED <<ev, seats, agreed, loadOf, writeOf>>
<1>1. PICK x \in EditorDesk(K, A) : x = desk[p]
  OBVIOUS
<1>2. PICK y \in EditorDesk(K, A) : y = [x EXCEPT !.form = input]
  BY DEF EditorDesk
<1>3. desk' = [desk EXCEPT ![p] = y]
  BY <1>1, <1>2 DEF Changes
<1> QED
  BY <1>3 DEF Changes

LEMMA EventEditorSteps == EventEditorInv /\ [EventEditorNext]_editorPageVars => EventEditorInv'
<1> SUFFICES ASSUME EventEditorInv, [EventEditorNext]_editorPageVars PROVE EventEditorInv'
  OBVIOUS
<1>k. PICK K, A, W : K = Known(ev) /\ A = Asking(ev) /\ W = Writing(ev)
  OBVIOUS
<1>r. /\ desk \in [Organisers -> EditorDesk(K, A)] /\ loadOf \in [Organisers -> EditorLoad(K)]
      /\ writeOf \in [Organisers -> EditorWrite(K, W)] /\ \A p \in Organisers : HasEvent(writeOf[p])
  BY <1>k DEF EventEditorInv
<1>e. /\ ev \in K /\ NotCreated \in K /\ K \subseteq EventOf \cup {NotCreated}
      /\ FALSE \in A /\ {"none", "create"} \subseteq W
      /\ \A x \in K : x # NotCreated =>
             ev # NotCreated /\ x \in EventOf /\ A = BOOLEAN /\ W = {"none", "create", "edit", "cancel"}
  BY <1>k, KnownIs DEF EventEditorInv
<1>n. /\ ListPage \in EditorDesk(K, A)
      /\ NoLoad \in EditorLoad(K) /\ [NoLoad EXCEPT !.at = "sent"] \in EditorLoad(K)
      /\ NoWrite \in EditorWrite(K, W) /\ HasEvent(NoWrite)
  BY <1>e, FreshRows
<1>0. ASSUME UNCHANGED <<ev, seats, agreed>>,
             desk' \in [Organisers -> EditorDesk(K, A)], loadOf' \in [Organisers -> EditorLoad(K)],
             writeOf' = writeOf
      PROVE  EventEditorInv'
  <2>1. writeOf' \in [Organisers -> EditorWrite(K, W)] /\ \A p \in Organisers : HasEvent(writeOf'[p])
    BY <1>0, <1>r
  <2> QED
    BY <1>0, <1>k, <2>1, PagesMove
\* A page of which only flags change.
<1>1. ASSUME NEW p \in Organisers, NEW d, d \in EditorDesk(K, A), desk' = [desk EXCEPT ![p] = d],
             loadOf' \in [Organisers -> EditorLoad(K)], UNCHANGED <<ev, seats, agreed, writeOf>>
      PROVE  EventEditorInv'
  BY <1>0, <1>1, <1>r
\* A page opens.
<1>2. ASSUME NEW p \in Organisers, NEW at \in {"list", "create", "edit"}, GoesTo(p, at)
      PROVE  desk' \in [Organisers -> EditorDesk(K, A)] /\ loadOf' \in [Organisers -> EditorLoad(K)]
  <2>1. PICK x \in EditorDesk(K, A) : x = ListPage
    BY <1>n
  <2>2. PICK b \in BOOLEAN : b = (at # "create")
    OBVIOUS
  <2>3. PICK y \in EditorDesk(K, A) : y = [x EXCEPT !.at = at, !.loading = b]
    BY DEF EditorDesk
  <2>4. desk' = [desk EXCEPT ![p] = y]
    BY <1>2, <2>1, <2>2, <2>3 DEF GoesTo
  <2>5. loadOf' \in [Organisers -> EditorLoad(K)]
    BY <1>2, <1>n, <1>r DEF GoesTo
  <2> QED
    BY <1>r, <2>3, <2>4, <2>5
<1>3. CASE UNCHANGED editorPageVars
  BY <1>0, <1>3, <1>r DEF editorPageVars
<1>4. CASE HourPasses
  BY <1>0, <1>4, <1>r DEF HourPasses
<1>5. ASSUME NEW p \in Organisers, ReadsEvent(p) PROVE EventEditorInv'
  <2>1. PICK y \in EditorLoad(K) : y = [at |-> "read", got |-> ev]
    BY <1>e DEF EditorLoad
  <2> QED
    BY <1>0, <1>5, <1>r, <2>1 DEF ReadsEvent
<1>6. ASSUME NEW p \in Organisers, EventArrives(p) PROVE EventEditorInv'
  <2>1. PICK x \in EditorDesk(K, A), got \in K : x = desk[p] /\ got = loadOf[p].got
    BY <1>r DEF EditorLoad
  <2>2. PICK f \in Form : f = IF x.at = "edit" /\ got # NotCreated THEN FormFrom(got) ELSE x.form
    BY <1>e, FormsAre DEF EditorDesk
  <2>3. PICK y \in EditorDesk(K, A) : y = [x EXCEPT !.has = got, !.loading = FALSE, !.form = f]
    BY DEF EditorDesk
  <2>4. desk' = [desk EXCEPT ![p] = y]
    BY <1>6, <1>r, <2>1, <2>2, <2>3 DEF EventArrives
  <2>5. loadOf' \in [Organisers -> EditorLoad(K)] /\ UNCHANGED <<ev, seats, agreed, writeOf>>
    BY <1>6, <1>n, <1>r DEF EventArrives
  <2> QED
    BY <1>1, <2>3, <2>4, <2>5
<1>7. ASSUME NEW p \in Organisers, LoadIsLost(p) PROVE EventEditorInv'
  <2>1. PICK x \in EditorDesk(K, A) : x = desk[p]
    BY <1>r
  <2>2. PICK y \in EditorDesk(K, A) : y = [x EXCEPT !.loading = FALSE]
    BY DEF EditorDesk
  <2> QED
    BY <1>1, <1>7, <1>n, <1>r, <2>1, <2>2 DEF LoadIsLost
<1>8. ASSUME NEW p \in Organisers, ListRefreshes(p) PROVE EventEditorInv'
  <2>1. PICK x \in EditorDesk(K, A) : x = desk[p]
    BY <1>r
  <2>2. PICK y \in EditorDesk(K, A) : y = [x EXCEPT !.loading = TRUE]
    BY DEF EditorDesk
  <2> QED
    BY <1>1, <1>8, <1>n, <1>r, <2>1, <2>2 DEF ListRefreshes
<1>8r. ASSUME NEW p \in Organisers, EventReloads(p) PROVE EventEditorInv'
  <2>1. PICK x \in EditorDesk(K, A) : x = desk[p]
    BY <1>r
  <2>2. PICK y \in EditorDesk(K, A) : y = [x EXCEPT !.loading = TRUE]
    BY DEF EditorDesk
  <2> QED
    BY <1>1, <1>8r, <1>n, <1>r, <2>1, <2>2 DEF EventReloads
<1>9. ASSUME NEW p \in Organisers, SwitchesMode(p) PROVE EventEditorInv'
  <2>1. PICK x \in EditorDesk(K, A) : x = desk[p]
    BY <1>r
  <2>2. PICK m \in {"active", "inactive"} : m = IF x.mode = "active" THEN "inactive" ELSE "active"
    OBVIOUS
  <2>3. PICK y \in EditorDesk(K, A) : y = [x EXCEPT !.mode = m]
    BY DEF EditorDesk
  <2> QED
    BY <1>1, <1>9, <1>r, <2>1, <2>2, <2>3 DEF SwitchesMode
<1>10. ASSUME NEW p \in Organisers, OpensEditor(p) PROVE EventEditorInv'
  BY <1>0, <1>2, <1>10 DEF OpensEditor
<1>11. ASSUME NEW p \in Organisers, LeavesEditor(p) PROVE EventEditorInv'
  BY <1>0, <1>2, <1>11 DEF LeavesEditor
<1>12. ASSUME NEW p \in Organisers, NEW input \in Form, Changes(p, input) PROVE EventEditorInv'
  BY <1>0, <1>12, <1>r, FormChanges
<1>13. ASSUME NEW p \in Organisers PROVE desk[p].form \in Form
  BY <1>r, <1>13 DEF EditorDesk
<1>14. ASSUME NEW p \in Organisers, TypesWords(p) PROVE EventEditorInv'
  <2>1. PICK w \in Words : Changes(p, [desk[p].form EXCEPT !.words = w])
    BY <1>14 DEF TypesWords
  <2>2. [desk[p].form EXCEPT !.words = w] \in Form
    BY <1>13 DEF Form
  <2> QED
    BY <1>12, <2>1, <2>2
<1>15. ASSUME NEW p \in Organisers, SetsEnd(p) PROVE EventEditorInv'
  <2>1. PICK f \in Form : f = desk[p].form
    BY <1>13
  <2>2. PICK b \in BOOLEAN : b = ~f.ends
    OBVIOUS
  <2>3. PICK g \in Form : g = [f EXCEPT !.ends = b]
    BY DEF Form
  <2>4. Changes(p, g)
    BY <1>15, <2>1, <2>2, <2>3 DEF SetsEnd
  <2> QED
    BY <1>12, <2>4
<1>16. ASSUME NEW p \in Organisers, SetsOffer(p) PROVE EventEditorInv'
  <2>1. PICK t \in Offer, price \in Price, capacity \in Seating :
            Changes(p, [desk[p].form EXCEPT !.offer[t] = [price |-> price, capacity |-> capacity]])
    BY <1>16 DEF SetsOffer
  <2>2. PICK f \in Form, o \in [Offer -> OfferRow] : f = desk[p].form /\ o = f.offer
    BY <1>13, FormsAre
  <2>3. PICK r \in OfferRow : r = [price |-> price, capacity |-> capacity]
    BY DEF OfferRow
  <2>4. PICK n \in [Offer -> OfferRow] : n = [o EXCEPT ![t] = r]
    OBVIOUS
  <2>5. PICK g \in Form : g = [f EXCEPT !.offer = n]
    BY DEF Form, OfferRow
  <2>6. Changes(p, g)
    BY <2>1, <2>2, <2>3, <2>4, <2>5
  <2> QED
    BY <1>12, <2>6
<1>17. ASSUME NEW p \in Organisers, PicksEventStatus(p) PROVE EventEditorInv'
  <2>1. PICK x \in {"DRAFT", "PUBLISHED"} : Changes(p, [desk[p].form EXCEPT !.status = x])
    BY <1>17 DEF PicksEventStatus
  <2>2. [desk[p].form EXCEPT !.status = x] \in Form
    BY <1>13 DEF Form, EventStatus
  <2> QED
    BY <1>12, <2>1, <2>2
<1>18. ASSUME NEW p \in Organisers, RemovesCover(p) PROVE EventEditorInv'
  <2>1. [desk[p].form EXCEPT !.cover = ""] \in Form
    BY <1>13 DEF Form
  <2> QED
    BY <1>12, <1>18, <2>1 DEF RemovesCover
<1>19. ASSUME NEW p \in Organisers, CoverUploadBegins(p) PROVE EventEditorInv'
  <2>1. PICK x \in EditorDesk(K, A) : x = desk[p]
    BY <1>r
  <2>2. PICK y \in EditorDesk(K, A) : y = [x EXCEPT !.busy = "uploading"]
    BY DEF EditorDesk
  <2> QED
    BY <1>1, <1>19, <1>r, <2>1, <2>2 DEF CoverUploadBegins
<1>20. ASSUME NEW p \in Organisers, CoverUploadEnds(p) PROVE EventEditorInv'
  <2>1. PICK x \in EditorDesk(K, A) : x = desk[p]
    BY <1>r
  <2>2. PICK y \in EditorDesk(K, A) : y = [x EXCEPT !.busy = "no"]
    BY DEF EditorDesk
  <2>3. PICK f \in Form : f = x.form
    BY DEF EditorDesk
  <2>4. PICK g \in Form : g = [f EXCEPT !.cover = "new"]
    BY DEF Form
  <2>5. PICK z \in EditorDesk(K, A) : z = [y EXCEPT !.form = g]
    BY DEF EditorDesk
  <2>6. y.form = f
    BY <2>2, <2>3 DEF EditorDesk
  <2>7. desk' = [desk EXCEPT ![p] = y] \/ desk' = [desk EXCEPT ![p] = z]
    BY <1>20, <1>r, <2>1, <2>2, <2>3, <2>4, <2>5, <2>6 DEF CoverUploadEnds
  <2> QED
    BY <1>1, <1>20, <1>r, <2>2, <2>5, <2>7 DEF CoverUploadEnds
<1>21. ASSUME NEW p \in Organisers, AsksToCancel(p) PROVE EventEditorInv'
  <2>1. PICK x \in EditorDesk(K, A) : x = desk[p]
    BY <1>r
  <2>2. TRUE \in A
    BY <1>21, <1>e, <2>1 DEF AsksToCancel, EditorDesk
  <2>3. PICK y \in EditorDesk(K, A) : y = [x EXCEPT !.modal = TRUE]
    BY <2>2 DEF EditorDesk
  <2> QED
    BY <1>1, <1>21, <1>r, <2>1, <2>3 DEF AsksToCancel
<1>22. ASSUME NEW p \in Organisers, KeepsTheEvent(p) PROVE EventEditorInv'
  <2>1. PICK x \in EditorDesk(K, A) : x = desk[p]
    BY <1>r
  <2>2. PICK y \in EditorDesk(K, A) : y = [x EXCEPT !.modal = FALSE]
    BY <1>e DEF EditorDesk
  <2> QED
    BY <1>1, <1>22, <1>r, <2>1, <2>2 DEF KeepsTheEvent
<1>23. ASSUME NEW p \in Organisers, NEW w, w \in EditorWrite(K, W), HasEvent(w), writeOf' = [writeOf EXCEPT ![p] = w]
       PROVE  writeOf' \in [Organisers -> EditorWrite(K, W)] /\ \A q \in Organisers : HasEvent(writeOf'[q])
  <2>1. \A q \in Organisers : writeOf'[q] = w \/ writeOf'[q] = writeOf[q]
    BY <1>23, <1>r
  <2>2. writeOf' \in [Organisers -> EditorWrite(K, W)]
    BY <1>23, <1>r
  <2>3. \A q \in Organisers : HasEvent(writeOf'[q])
    BY <1>23, <1>r, <2>1
  <2> QED
    BY <2>2, <2>3
<1>24. ASSUME NEW p \in Organisers, NEW kind, kind \in W, kind # "none", WriteBegins(p, kind) PROVE EventEditorInv'
  <2>1. PICK x \in EditorDesk(K, A) : x = desk[p]
    BY <1>r
  <2>2. PICK y \in EditorDesk(K, A) : y = [x EXCEPT !.busy = "writing"]
    BY DEF EditorDesk
  <2>3. PICK f \in Form : f = x.form
    BY DEF EditorDesk
  <2>4. PICK v \in EditorWrite(K, W) : v = NoWrite
    BY <1>n
  <2>5. PICK w \in EditorWrite(K, W) : w = [v EXCEPT !.at = "sent", !.kind = kind, !.form = f]
    BY <1>24 DEF EditorWrite
  <2>6. w.at = "sent" /\ w.kind = kind
    BY <2>5 DEF EditorWrite
  <2>7. HasEvent(w)
    BY <1>24, <2>6 DEF HasEvent
  <2>8. writeOf' = [writeOf EXCEPT ![p] = w] /\ desk' = [desk EXCEPT ![p] = y]
        /\ UNCHANGED <<ev, seats, agreed, loadOf>>
    BY <1>24, <2>1, <2>2, <2>3, <2>4, <2>5 DEF WriteBegins
  <2>9. writeOf' \in [Organisers -> EditorWrite(K, W)] /\ \A q \in Organisers : HasEvent(writeOf'[q])
    BY <1>23, <2>7, <2>8
  <2>10. desk' \in [Organisers -> EditorDesk(K, A)] /\ loadOf' \in [Organisers -> EditorLoad(K)]
    BY <1>r, <2>2, <2>8
  <2> QED
    BY <1>k, <2>8, <2>9, <2>10, PagesMove
<1>25. ASSUME NEW p \in Organisers, SaveBegins(p) PROVE EventEditorInv'
  <2>1. PICK x \in EditorDesk(K, A) : x = desk[p]
    BY <1>r
  <2>2. x.at = "create" \/ (x.at = "edit" /\ x.has # NotCreated /\ x.has \in K)
    BY <1>25, <2>1 DEF SaveBegins, InEditor, EditorDesk
  <2>3. x.at \in W /\ x.at # "none"
    BY <1>e, <2>2
  <2> QED
    BY <1>24, <1>25, <2>1, <2>3 DEF SaveBegins
<1>26. ASSUME NEW p \in Organisers, CancelBegins(p) PROVE EventEditorInv'
  <2>1. PICK x \in EditorDesk(K, A) : x = desk[p]
    BY <1>r
  <2>2. x.modal /\ x.modal \in A
    BY <1>26, <2>1 DEF CancelBegins, EditorDesk
  <2>3. ev # NotCreated
    BY <1>k, <2>2 DEF Asking
  <2>4. "cancel" \in W
    BY <1>k, <2>3 DEF Writing
  <2> QED
    BY <1>24, <1>26, <2>4 DEF CancelBegins
<1>27. ASSUME NEW p \in Organisers, WriteAnswered(p) PROVE EventEditorInv'
  <2>1. writeOf' = [writeOf EXCEPT ![p] = NoWrite] /\ UNCHANGED <<ev, seats, agreed>>
    BY <1>27 DEF WriteAnswered
  <2>2. writeOf' \in [Organisers -> EditorWrite(K, W)] /\ \A q \in Organisers : HasEvent(writeOf'[q])
    BY <1>23, <1>n, <2>1
  <2>3. PICK x \in EditorDesk(K, A) : x = desk[p]
    BY <1>r
  <2>4. PICK b \in {"no", "uploading", "writing"} : b = IF x.busy = "writing" THEN "no" ELSE x.busy
    BY DEF EditorDesk
  <2>5. PICK y \in EditorDesk(K, A) : y = [x EXCEPT !.busy = b]
    BY DEF EditorDesk
  <2>6. \/ UNCHANGED <<desk, loadOf>>
        \/ GoesTo(p, "list")
        \/ desk' = [desk EXCEPT ![p] = y] /\ UNCHANGED loadOf
    BY <1>27, <2>3, <2>4, <2>5 DEF WriteAnswered
  <2>7. desk' \in [Organisers -> EditorDesk(K, A)] /\ loadOf' \in [Organisers -> EditorLoad(K)]
    BY <1>2, <1>r, <2>5, <2>6
  <2> QED
    BY <1>k, <2>1, <2>2, <2>7, PagesMove
<1>28. ASSUME NEW p \in Organisers, UpdateReads(p) PROVE EventEditorInv'
  <2>1. PICK v \in EditorWrite(K, W) : v = writeOf[p]
    BY <1>r
  <2>2. PICK at \in {"read", "refused"} : writeOf' = [writeOf EXCEPT ![p].read = ev, ![p].at = at]
    BY <1>28 DEF UpdateReads
  <2>3. PICK e \in K : e = ev
    BY <1>e
  <2>4. PICK w \in EditorWrite(K, W) : w = [v EXCEPT !.read = e, !.at = at]
    BY DEF EditorWrite
  <2>5. w.at = at /\ w.read = e
    BY <2>4 DEF EditorWrite
  <2>6. v.kind \in W /\ v.kind \notin {"none", "create"}
    BY <1>28, <1>r, <2>1 DEF UpdateReads, HasEvent, EditorWrite
  <2>7. e # NotCreated
    BY <1>k, <2>3, <2>6 DEF Writing
  <2>8. HasEvent(w)
    BY <2>5, <2>7 DEF HasEvent
  <2>9. writeOf' = [writeOf EXCEPT ![p] = w]
    BY <2>1, <2>2, <2>3, <2>4
  <2>10. writeOf' \in [Organisers -> EditorWrite(K, W)] /\ \A q \in Organisers : HasEvent(writeOf'[q])
    BY <1>23, <2>8, <2>9
  <2> QED
    BY <1>k, <1>r, <1>28, <2>10, PagesMove DEF UpdateReads
\* The answer of a write.
<1>29. ASSUME NEW p \in Organisers, NEW at \in {"done", "refused"}, writeOf' = [writeOf EXCEPT ![p].at = at]
       PROVE  writeOf' \in [Organisers -> EditorWrite(K, W)] /\ \A q \in Organisers : HasEvent(writeOf'[q])
  <2>1. PICK v \in EditorWrite(K, W) : v = writeOf[p]
    BY <1>r
  <2>2. PICK w \in EditorWrite(K, W) : w = [v EXCEPT !.at = at]
    BY DEF EditorWrite
  <2>3. HasEvent(w)
    BY <2>2 DEF HasEvent, EditorWrite
  <2>4. writeOf' = [writeOf EXCEPT ![p] = w]
    BY <1>29, <2>1, <2>2
  <2> QED
    BY <1>23, <2>3, <2>4
\* An event that is written again stays known to the pages.
<1>30. ASSUME ev # NotCreated, ev' \in EventOf,
              UNCHANGED <<desk, loadOf>>,
              writeOf' \in [Organisers -> EditorWrite(K, W)], \A q \in Organisers : HasEvent(writeOf'[q]),
              seats' \in [Offer -> SUBSET {"reserved", "confirmed", "lapsed"}],
              agreed' \in Form \cup {NotCreated}, agreed' # NotCreated => IsSaved(ev', agreed'),
              \A t \in Offer : seats'[t] # {} => t \in DOMAIN ev'.tiers
       PROVE  EventEditorInv'
  <2>1. ev' # NotCreated
    BY <1>30, NotCreatedIsNoEvent
  <2>2. Known(ev)' = K /\ Asking(ev)' = A /\ Writing(ev)' = W
    BY <1>k, <1>30, <2>1 DEF Known, Asking, Writing
  <2>3. (\A q \in Organisers : HasEvent(writeOf[q]))'
    BY <1>30 DEF HasEvent
  <2>4. (agreed # NotCreated /\ ev # NotCreated => IsSaved(ev, agreed))'
    BY <1>30 DEF IsSaved
  <2> QED
    BY <1>30, <1>r, <2>1, <2>2, <2>3, <2>4 DEF EventEditorInv
<1>31. ASSUME NEW p \in Organisers, UpdateCommits(p) PROVE EventEditorInv'
  <2>1. PICK w \in EditorWrite(K, W) : w = writeOf[p]
    BY <1>r
  <2>2. PICK f \in Form, x \in K : f = w.form /\ x = w.read
    BY DEF EditorWrite
  <2>3. PICK o : o = f.offer /\ o \in [Offer -> OfferRow]
    BY FormsAre
  <2>4. x # NotCreated
    BY <1>31, <1>r, <2>1, <2>2 DEF UpdateCommits, HasEvent
  <2>5. ev # NotCreated /\ x \in EventOf /\ ev \in EventOf
    BY <1>e, <2>4
  <2>6. PICK k : k = [t \in KeptTiers(o) |-> o[t]]
    OBVIOUS
  <2>7. Kept(o) = k /\ KeptTiers(o) \subseteq Offer /\ DOMAIN k = KeptTiers(o)
    BY <2>3, <2>6, KeptIs
  <2>8. TierInputs(Kept(o), x.tiers) = k
    BY <2>3, <2>7, TierInputsAre
  <2>9. CASE SyncAllowed(x.tiers, k)
    <3>1. ev' = Saved(f, x) /\ agreed' = (IF x = ev THEN f ELSE NotCreated)
          /\ writeOf' = [writeOf EXCEPT ![p].at = "done"] /\ UNCHANGED <<seats, desk, loadOf>>
      BY <1>31, <2>1, <2>2, <2>3, <2>8, <2>9 DEF UpdateCommits
    <3>2. PICK n : n = Synced(x.tiers, k)
      OBVIOUS
    <3>3. PICK ends \in BOOLEAN : ends = (f.ends \/ ev.ends)
      BY <2>5, FormsAre DEF EventOf
    <3>4. PICK access \in {"PUBLIC", "MEMBERS_ONLY"} : access = IF Paid(k) THEN "MEMBERS_ONLY" ELSE "PUBLIC"
      OBVIOUS
    <3>5. ev' = [status |-> f.status, words |-> f.words, cover |-> f.cover, ends |-> ends, tiers |-> n, access |-> access]
      BY <2>3, <2>8, <3>1, <3>2, <3>3, <3>4 DEF Saved
    <3>6. PICK T : T \in SUBSET Offer /\ ev.tiers \in [T -> OfferRow]
      BY <2>5 DEF EventOf, Tiers, OfferRow
    <3>7. PICK D : D = (DOMAIN ev.tiers \ DOMAIN x.tiers) \cup DOMAIN k
      OBVIOUS
    <3>8. n = [t \in D |-> IF t \in DOMAIN k THEN k[t] ELSE ev.tiers[t]]
      BY <3>2, <3>7 DEF Synced
    <3>9. D \in SUBSET Offer /\ DOMAIN n = D
      BY <2>7, <3>6, <3>7, <3>8
    <3>10. \A t \in D : (IF t \in DOMAIN k THEN k[t] ELSE ev.tiers[t]) \in OfferRow
      BY <2>3, <2>6, <2>7, <3>6, <3>7
    <3>11. n \in [D -> OfferRow]
      BY <3>8, <3>10
    <3>12. n \in Tiers
      BY <3>9, <3>11 DEF Tiers, OfferRow
    <3>13. ev' \in EventOf /\ ev'.tiers = n /\ ev'.access = access /\ ev'.cover = f.cover /\ ev'.words = f.words
      BY <3>5, <3>12, FormsAre DEF EventOf
    <3>14. \A t \in Offer : seats'[t] # {} => t \in DOMAIN ev'.tiers
      BY <2>9, <3>1, <3>7, <3>9, <3>13 DEF SyncAllowed, EventEditorInv
    <3>15. ASSUME agreed' # NotCreated PROVE agreed' = f /\ IsSaved(ev', agreed')
      <4>1. x = ev /\ agreed' = f
        BY <3>1, <3>15
      <4>2. D = DOMAIN k
        BY <3>7, <4>1
      <4>3. n = k
        BY <2>6, <2>7, <3>8, <4>2
      <4>4. Paid(k) <=> \E t \in Offer : o[t].price > 0
        BY <2>6, <2>7, <2>3, EventEditorAssumption DEF Paid, KeptTiers
      <4> QED
        BY <2>3, <2>6, <3>4, <3>13, <4>1, <4>3, <4>4 DEF IsSaved
    <3>16. agreed' \in Form \cup {NotCreated} /\ seats' \in [Offer -> SUBSET {"reserved", "confirmed", "lapsed"}]
      BY <3>1 DEF EventEditorInv
    <3>17. writeOf' \in [Organisers -> EditorWrite(K, W)] /\ \A q \in Organisers : HasEvent(writeOf'[q])
      BY <1>29, <3>1
    <3> QED
      BY <1>30, <2>5, <3>1, <3>13, <3>14, <3>15, <3>16, <3>17
  <2>10. CASE ~SyncAllowed(x.tiers, k)
    <3>1. writeOf' = [writeOf EXCEPT ![p].at = "refused"] /\ UNCHANGED <<ev, seats, desk, loadOf, agreed>>
      BY <1>31, <2>1, <2>2, <2>3, <2>8, <2>10 DEF UpdateCommits
    <3>2. writeOf' \in [Organisers -> EditorWrite(K, W)] /\ \A q \in Organisers : HasEvent(writeOf'[q])
      BY <1>29, <3>1
    <3> QED
      BY <1>k, <1>r, <3>1, <3>2, PagesMove
  <2> QED
    BY <2>9, <2>10
<1>32. ASSUME NEW p \in Organisers, CancelCommits(p) PROVE EventEditorInv'
  <2>1. PICK w \in EditorWrite(K, W) : w = writeOf[p]
    BY <1>r
  <2>2. w.kind = "cancel" /\ w.kind \in W
    BY <1>32, <2>1 DEF CancelCommits, EditorWrite
  <2>3. ev # NotCreated
    BY <1>k, <2>2 DEF Writing
  <2>4. PICK e \in EventOf : e = ev
    BY <1>e, <2>3
  <2>5. PICK g \in EventOf : g = [e EXCEPT !.status = "CANCELLED"]
    BY DEF EventOf, EventStatus
  <2>6. ev' = g
    BY <1>32, <2>4, <2>5 DEF CancelCommits
  <2>7. g.cover = e.cover /\ g.words = e.words /\ g.tiers = e.tiers /\ g.access = e.access
    BY <2>5 DEF EventOf
  <2>8. seats' \in [Offer -> SUBSET {"reserved", "confirmed", "lapsed"}]
        /\ \A t \in Offer : seats'[t] # {} => seats[t] # {}
    BY <1>32 DEF CancelCommits, EventEditorInv
  <2>9. \A t \in Offer : seats'[t] # {} => t \in DOMAIN g.tiers
    BY <2>4, <2>7, <2>8 DEF EventEditorInv
  <2>10. agreed' = agreed /\ writeOf' = [writeOf EXCEPT ![p].at = "done"] /\ UNCHANGED <<desk, loadOf>>
    BY <1>32 DEF CancelCommits
  <2>11. agreed \in Form \cup {NotCreated} /\ (agreed # NotCreated => IsSaved(g, agreed))
    BY <2>3, <2>4, <2>7 DEF EventEditorInv, IsSaved
  <2>12. writeOf' \in [Organisers -> EditorWrite(K, W)] /\ \A q \in Organisers : HasEvent(writeOf'[q])
    BY <1>29, <2>10
  <2> QED
    BY <1>30, <2>3, <2>6, <2>8, <2>9, <2>10, <2>11, <2>12
<1>33. ASSUME NEW p \in Organisers, CreateCommits(p) PROVE EventEditorInv'
  <2>1. writeOf' = [writeOf EXCEPT ![p].at = "done"] /\ UNCHANGED <<seats, desk, loadOf>>
    BY <1>33 DEF CreateCommits
  <2>2. writeOf' \in [Organisers -> EditorWrite(K, W)] /\ \A q \in Organisers : HasEvent(writeOf'[q])
    BY <1>29, <2>1
  <2>3. CASE ev # NotCreated
    BY <1>k, <1>r, <1>33, <2>1, <2>2, <2>3, PagesMove DEF CreateCommits
  <2>4. CASE ev = NotCreated
    <3>1. PICK w \in EditorWrite(K, W) : w = writeOf[p]
      BY <1>r
    <3>2. PICK f \in Form : f = w.form
      BY DEF EditorWrite
    <3>3. PICK o : o = f.offer /\ o \in [Offer -> OfferRow]
      BY FormsAre
    <3>4. PICK k : k = [t \in KeptTiers(o) |-> o[t]]
      OBVIOUS
    <3>5. Kept(o) = k /\ KeptTiers(o) \subseteq Offer /\ DOMAIN k = KeptTiers(o)
      BY <3>3, <3>4, KeptIs
    <3>6. TierInputs(Kept(o), <<>>) = k
      BY <3>3, <3>5, TierInputsAre
    <3>7. PICK access \in {"PUBLIC", "MEMBERS_ONLY"} : access = IF Paid(k) THEN "MEMBERS_ONLY" ELSE "PUBLIC"
      OBVIOUS
    <3>8. agreed' = f /\ ev' = [status |-> f.status, words |-> f.words, cover |-> f.cover, ends |-> f.ends,
                                tiers |-> k, access |-> access]
      BY <1>33, <2>4, <3>1, <3>2, <3>3, <3>6, <3>7 DEF CreateCommits
    <3>9. k \in [KeptTiers(o) -> OfferRow] /\ KeptTiers(o) \in SUBSET Offer
      BY <3>3, <3>4, <3>5
    <3>10. k \in Tiers
      BY <3>9 DEF Tiers, OfferRow
    <3>11. ev' \in EventOf /\ ev'.tiers = k /\ ev'.access = access /\ ev'.cover = f.cover /\ ev'.words = f.words
      BY <3>8, <3>10, FormsAre DEF EventOf
    <3>12. Paid(k) <=> \E t \in Offer : o[t].price > 0
      BY <3>3, <3>4, <3>5, EventEditorAssumption DEF Paid, KeptTiers
    <3>13. IsSaved(ev', f)
      BY <3>3, <3>4, <3>7, <3>11, <3>12 DEF IsSaved
    <3>14. ev' # NotCreated
      BY <3>11, NotCreatedIsNoEvent
    <3>15. Known(ev)' = EventOf \cup {NotCreated} /\ Asking(ev)' = BOOLEAN
           /\ Writing(ev)' = {"none", "create", "edit", "cancel"}
      BY <3>14 DEF Known, Asking, Writing
    <3>16. K = {NotCreated} /\ A = {FALSE} /\ W = {"none", "create"}
      BY <1>k, <2>4 DEF Known, Asking, Writing
    <3>17. PICK K1, A1, W1 : K1 = Known(ev)' /\ A1 = Asking(ev)' /\ W1 = Writing(ev)'
      OBVIOUS
    <3>18. K \subseteq K1 /\ A \subseteq A1 /\ W \subseteq W1
      BY <3>15, <3>16, <3>17
    <3>19. EditorDesk(K, A) \subseteq EditorDesk(K1, A1) /\ EditorLoad(K) \subseteq EditorLoad(K1)
           /\ EditorWrite(K, W) \subseteq EditorWrite(K1, W1)
      BY <3>18 DEF EditorDesk, EditorLoad, EditorWrite
    <3>20. /\ desk' \in [Organisers -> EditorDesk(K1, A1)] /\ loadOf' \in [Organisers -> EditorLoad(K1)]
           /\ writeOf' \in [Organisers -> EditorWrite(K1, W1)]
      BY <1>r, <2>1, <2>2, <3>19
    <3>21. (\A q \in Organisers : HasEvent(writeOf[q]))'
      BY <2>2 DEF HasEvent
    <3>22. \A t \in Offer : seats'[t] = {}
      BY <2>1, <2>4 DEF EventEditorInv
    <3>23. (agreed # NotCreated /\ ev # NotCreated => IsSaved(ev, agreed))'
      BY <3>8, <3>13 DEF IsSaved
    <3>24. seats' \in [Offer -> SUBSET {"reserved", "confirmed", "lapsed"}] /\ agreed' \in Form
      BY <2>1, <3>8 DEF EventEditorInv
    <3> QED
      BY <3>11, <3>17, <3>20, <3>21, <3>22, <3>23, <3>24 DEF EventEditorInv
  <2> QED
    BY <2>3, <2>4
<1>34. ASSUME NEW t \in Offer, SeatMoves(t) PROVE EventEditorInv'
  <2>1. ev # NotCreated /\ ev \in EventOf /\ UNCHANGED <<ev, desk, loadOf, writeOf, agreed>>
    BY <1>34, <1>e DEF SeatMoves
  <2>2. PICK S : S \in SUBSET {"reserved", "confirmed", "lapsed"} /\ seats' = [seats EXCEPT ![t] = S]
    <3>1. seats[t] \in SUBSET {"reserved", "confirmed", "lapsed"}
      BY DEF EventEditorInv
    <3> QED
      BY <1>34, <3>1 DEF SeatMoves
  <2>3. t \in DOMAIN ev.tiers
    BY <1>34 DEF SeatMoves, EventEditorInv
  <2>4. seats' \in [Offer -> SUBSET {"reserved", "confirmed", "lapsed"}]
    BY <2>2 DEF EventEditorInv
  <2>5. \A u \in Offer : seats'[u] # {} => u \in DOMAIN ev'.tiers
    BY <2>1, <2>2, <2>3 DEF EventEditorInv
  <2>6. agreed' \in Form \cup {NotCreated} /\ (agreed' # NotCreated => IsSaved(ev', agreed'))
    BY <2>1 DEF EventEditorInv
  <2>7. writeOf' \in [Organisers -> EditorWrite(K, W)] /\ \A q \in Organisers : HasEvent(writeOf'[q])
    BY <1>r, <2>1
  <2> QED
    BY <1>30, <2>1, <2>4, <2>5, <2>6, <2>7
<1> QED
  BY <1>3, <1>4, <1>5, <1>6, <1>7, <1>8, <1>8r, <1>9, <1>10, <1>11, <1>14, <1>15, <1>16, <1>17, <1>18, <1>19, <1>20,
     <1>21, <1>22, <1>25, <1>26, <1>27, <1>28, <1>31, <1>32, <1>33, <1>34 DEF EventEditorNext

LEMMA EventEditorIsRight == EventEditorInv => SavedAsSubmitted
<1> SUFFICES ASSUME EventEditorInv, ev # NotCreated PROVE SavedAsSubmitted
  BY DEF SavedAsSubmitted
<1>1. \A t \in Offer : seats[t] # {} => t \in DOMAIN ev.tiers
  BY DEF EventEditorInv
<1>2. ASSUME agreed # NotCreated, NEW priced, priced = {t \in Offer : agreed.offer[t].price > 0}
      PROVE  /\ ev.cover = agreed.cover /\ ev.words = agreed.words
             /\ DOMAIN ev.tiers = IF priced = {} THEN {Regular} ELSE priced
             /\ \A t \in DOMAIN ev.tiers : ev.tiers[t] = agreed.offer[t]
             /\ ev.access = "PUBLIC" <=> priced = {}
  <2>1. PICK o : o = agreed.offer
    OBVIOUS
  <2>2. /\ ev.cover = agreed.cover /\ ev.words = agreed.words
        /\ ev.tiers = [t \in KeptTiers(o) |-> o[t]]
        /\ ev.access = IF \E t \in Offer : o[t].price > 0 THEN "MEMBERS_ONLY" ELSE "PUBLIC"
    BY <1>2, <2>1 DEF EventEditorInv, IsSaved
  <2>3. priced = {} <=> ~\E t \in Offer : o[t].price > 0
    BY <1>2, <2>1
  <2>4. KeptTiers(o) = IF priced = {} THEN {Regular} ELSE priced
    BY <1>2, <2>1, <2>3 DEF KeptTiers
  <2> QED
    BY <2>1, <2>2, <2>3, <2>4
<1> QED
  BY <1>1, <1>2 DEF SavedAsSubmitted

\* What is sold is what the form of the last save said, whose read no other write overtook:
\* buildTicketTypeInputs and syncTicketTypes turn the offer of the form into exactly its tiers.
THEOREM SavedIsSubmitted == EventEditorSpec => []SavedAsSubmitted
<1> QED
  BY EventEditorStarts, EventEditorSteps, EventEditorIsRight, PTL DEF EventEditorSpec

-----------------------------------------------------------------------------
(*************************************************************************)
(* The phone at the door. One check at most is waited for, by a dialog   *)
(* that shows its ticket (WaitsFor), and what the screen says of a       *)
(* ticket is so (ScreenIsSo).                                            *)
(*************************************************************************)

ModalRow == [open : BOOLEAN, camera : BOOLEAN, running : BOOLEAN, code : Pass \cup {NoPass}, says : Says,
             about : Pass \cup {NoPass}, online : BOOLEAN]
CheckRow == [pass : Pass, at : {"sent", "valid", "used", "refused"},
             heard : {"waiting", "told", "warned", "dismissed", "left"}]
Passes == [Pass -> {"valid", "used", "void"}]

\* The dialog m, by the checks c and the tickets p: a camera that has read something still
\* runs; what the screen says of a ticket is so; one check at most is waited for, by a
\* dialog that shows its ticket; what a check has let in is in; and none is dismissed.
ScreenIsSo(m, p) ==
    /\ m.camera /\ m.says # "ready" => m.running
    /\ m.says \in {"valid", "used"} => m.about = m.code /\ m.code \in Pass /\ p[m.code] = "used"
WaitsFor(m, c) ==
    /\ \A i \in DOMAIN c : c[i].heard = "waiting" => m.open /\ m.says = "checking" /\ m.code = c[i].pass
    /\ \A i, j \in DOMAIN c : c[i].heard = "waiting" /\ c[j].heard = "waiting" => i = j
ChecksAreSo(c, p) ==
    \A i \in DOMAIN c : c[i].heard # "dismissed" /\ (c[i].at \in {"valid", "used"} => p[c[i].pass] = "used")

DoorPageInv ==
    /\ pass \in Passes /\ {onDuty, takesPlace, network} \subseteq BOOLEAN
    /\ modal \in ModalRow /\ checks \in Seq(CheckRow)
    /\ ScreenIsSo(modal, pass) /\ WaitsFor(modal, checks) /\ ChecksAreSo(checks, pass)

\* A sequence changed in place.
LEMMA InPlace ==
    ASSUME NEW S, NEW c \in Seq(S), NEW f, DOMAIN f = DOMAIN c, f = [i \in DOMAIN c |-> f[i]],
           \A i \in DOMAIN c : f[i] \in S
    PROVE  f \in Seq(S)
<1>1. PICK n \in Nat : DOMAIN c = 1..n
  <2>1. Len(c) \in Nat /\ DOMAIN c = 1..Len(c)
    OBVIOUS
  <2> QED
    BY <2>1
<1>2. f \in [1..n -> S]
  BY <1>1
<1> QED
  BY <1>2, SeqDef

LEMMA ModalIs ==
    /\ NoModal \in ModalRow /\ NoModal.says = "ready"
    /\ network \in BOOLEAN => NewModal \in ModalRow /\ NewModal.says = "ready"
    /\ modal \in ModalRow => /\ Emptied \in ModalRow /\ Emptied.says = "ready"
  BY DEF NoModal, NewModal, Emptied, ModalRow, Says

\* What is waited for is waited for no longer.
LEMMA UnheardIs ==
    ASSUME DoorPageInv
    PROVE  Unheard \in Seq(CheckRow) /\ ChecksAreSo(Unheard, pass) /\ \A m : WaitsFor(m, Unheard)
<1>1. DOMAIN Unheard = DOMAIN checks /\ \A i \in DOMAIN checks : checks[i] \in CheckRow
  BY DEF DoorPageInv, Unheard
<1>2. ASSUME NEW i \in DOMAIN checks
      PROVE  /\ Unheard[i] \in CheckRow /\ Unheard[i].pass = checks[i].pass /\ Unheard[i].at = checks[i].at
             /\ Unheard[i].heard # "waiting" /\ Unheard[i].heard # "dismissed"
  <2>1. PICK x \in CheckRow : x = checks[i]
    BY <1>1
  <2>2. PICK y \in CheckRow : y = [x EXCEPT !.heard = "left"]
    BY DEF CheckRow
  <2>3. y.pass = x.pass /\ y.at = x.at /\ y.heard = "left"
    BY <2>2 DEF CheckRow
  <2>4. Unheard[i] = IF x.heard = "waiting" THEN y ELSE x
    BY <2>1, <2>2 DEF Unheard
  <2>5. x.heard # "dismissed"
    BY <2>1 DEF DoorPageInv, ChecksAreSo
  <2> QED
    BY <2>1, <2>3, <2>4, <2>5
<1>3. Unheard \in Seq(CheckRow)
  BY <1>1, <1>2, InPlace DEF DoorPageInv, Unheard
<1>4. ChecksAreSo(Unheard, pass)
  BY <1>1, <1>2 DEF DoorPageInv, ChecksAreSo
<1>5. ASSUME NEW m PROVE WaitsFor(m, Unheard)
  BY <1>1, <1>2 DEF WaitsFor
<1> QED
  BY <1>3, <1>4, <1>5

\* The dialog changes while nothing is waited for, and says nothing of a ticket.
LEMMA DialogMoves ==
    ASSUME DoorPageInv, NEW m \in ModalRow, modal' = m, m.says \notin {"valid", "used"},
           m.camera /\ m.says # "ready" => m.running,
           \/ checks' = Unheard
           \/ checks' = checks /\ (~modal.open \/ modal.says # "checking"),
           pass' = pass, {onDuty, takesPlace, network}' \subseteq BOOLEAN
    PROVE  DoorPageInv'
<1>1. checks' \in Seq(CheckRow) /\ ChecksAreSo(checks', pass) /\ WaitsFor(m, checks')
  <2>1. CASE checks' = Unheard
    BY <2>1, UnheardIs
  <2>2. CASE checks' = checks /\ (~modal.open \/ modal.says # "checking")
    BY <2>2 DEF DoorPageInv, WaitsFor
  <2> QED
    BY <2>1, <2>2
<1>2. ScreenIsSo(m, pass)
  BY DEF ScreenIsSo
<1> QED
  BY <1>1, <1>2 DEF DoorPageInv

\* A check is sent by a dialog that waits for none.
LEMMA CheckIsSent ==
    ASSUME DoorPageInv, NEW t \in Pass \cup {NoPass}, CheckIn(t), modal.open, modal.says # "checking",
           modal.camera => modal.running,
           UNCHANGED phone
    PROVE  DoorPageInv'
<1>0. pass' = pass /\ {onDuty, takesPlace, network}' \subseteq BOOLEAN
  BY DEF DoorPageInv, phone
<1>1. PICK m \in ModalRow :
         /\ modal' = m /\ m.camera = modal.camera /\ m.running = modal.running /\ m.open = modal.open
         /\ \/ m.says \in {"refused", "unconfirmed"} /\ checks' = checks
            \/ /\ m.says = "checking" /\ m.code = t /\ t \in Pass
               /\ checks' = Append(checks, [pass |-> t, at |-> "sent", heard |-> "waiting"])
  <2>1. CASE t = NoPass /\ modal' = [modal EXCEPT !.says = "refused", !.about = NoPass] /\ checks' = checks
    <3>1. PICK m \in ModalRow : m = [modal EXCEPT !.says = "refused", !.about = NoPass]
      BY DEF DoorPageInv, ModalRow, Says
    <3>2. m.says = "refused" /\ m.camera = modal.camera /\ m.running = modal.running /\ m.open = modal.open
      BY <3>1 DEF DoorPageInv, ModalRow
    <3> QED
      BY <2>1, <3>1, <3>2
  <2>2. CASE modal' = [modal EXCEPT !.says = "unconfirmed", !.code = t, !.about = NoPass] /\ checks' = checks
    <3>1. PICK m \in ModalRow : m = [modal EXCEPT !.says = "unconfirmed", !.code = t, !.about = NoPass]
      BY DEF DoorPageInv, ModalRow, Says
    <3>2. m.says = "unconfirmed" /\ m.camera = modal.camera /\ m.running = modal.running /\ m.open = modal.open
      BY <3>1 DEF DoorPageInv, ModalRow
    <3> QED
      BY <2>2, <3>1, <3>2
  <2>3. CASE /\ t # NoPass /\ modal' = [modal EXCEPT !.says = "checking", !.code = t, !.about = NoPass]
             /\ checks' = Append(checks, [pass |-> t, at |-> "sent", heard |-> "waiting"])
    <3>1. PICK m \in ModalRow : m = [modal EXCEPT !.says = "checking", !.code = t, !.about = NoPass]
      BY DEF DoorPageInv, ModalRow, Says
    <3>2. /\ m.says = "checking" /\ m.code = t /\ m.camera = modal.camera /\ m.running = modal.running
          /\ m.open = modal.open
      BY <3>1 DEF DoorPageInv, ModalRow
    <3> QED
      BY <2>3, <3>1, <3>2
  <2> QED
    BY <2>1, <2>2, <2>3 DEF CheckIn
<1>2. CASE m.says \in {"refused", "unconfirmed"} /\ checks' = checks
  BY <1>0, <1>1, <1>2, DialogMoves
<1>3. CASE /\ m.says = "checking" /\ m.code = t /\ t \in Pass
           /\ checks' = Append(checks, [pass |-> t, at |-> "sent", heard |-> "waiting"])
  <2>1. PICK r \in CheckRow : r = [pass |-> t, at |-> "sent", heard |-> "waiting"]
    BY <1>3 DEF CheckRow
  <2>2. PICK n \in Nat : n = Len(checks) /\ DOMAIN checks = 1..n
    BY DEF DoorPageInv
  <2>3. /\ checks' \in Seq(CheckRow) /\ DOMAIN checks' = 1..(n + 1) /\ checks'[n + 1] = r
        /\ \A i \in 1..n : checks'[i] = checks[i]
    BY <1>3, <2>1, <2>2 DEF DoorPageInv
  <2>4. \A i \in 1..n : checks[i].heard # "waiting"
    BY <2>2 DEF DoorPageInv, WaitsFor
  <2>5. \A i \in 1..(n + 1) : i \in 1..n \/ i = n + 1
    OBVIOUS
  <2>6. r.pass = t /\ r.at = "sent" /\ r.heard = "waiting"
    BY <2>1
  <2>7. WaitsFor(m, checks')
    BY <1>1, <1>3, <2>3, <2>4, <2>5, <2>6 DEF WaitsFor
  <2>8. ChecksAreSo(checks', pass)
    BY <2>2, <2>3, <2>5, <2>6 DEF DoorPageInv, ChecksAreSo
  <2>9. ScreenIsSo(m, pass)
    BY <1>1, <1>3 DEF ScreenIsSo
  <2> QED
    BY <1>0, <1>1, <2>3, <2>7, <2>8, <2>9 DEF DoorPageInv
<1> QED
  BY <1>1, <1>2, <1>3

\* What a dialog that waits for check i shows afterwards.
LEMMA CheckIsHeard ==
    ASSUME DoorPageInv, NEW i \in DOMAIN checks, checks[i].heard = "waiting",
           NEW says \in Says, NEW about \in Pass \cup {NoPass}, NEW heard \in {"told", "warned"},
           modal' = [modal EXCEPT !.says = says, !.about = about],
           checks' = [checks EXCEPT ![i].heard = heard],
           says \in {"valid", "used"} => about = checks[i].pass /\ pass[checks[i].pass] = "used",
           UNCHANGED phone
    PROVE  DoorPageInv'
<1>0. pass' = pass /\ {onDuty, takesPlace, network}' \subseteq BOOLEAN
  BY DEF DoorPageInv, phone
<1>1. PICK x \in CheckRow : x = checks[i]
  BY DEF DoorPageInv
<1>2. PICK y \in CheckRow : y = [x EXCEPT !.heard = heard]
  BY DEF CheckRow
<1>3. y.pass = x.pass /\ y.at = x.at /\ y.heard = heard
  BY <1>2 DEF CheckRow
<1>4. checks' = [checks EXCEPT ![i] = y]
  BY <1>1, <1>2
<1>5. /\ DOMAIN checks' = DOMAIN checks /\ checks' \in Seq(CheckRow) /\ checks'[i] = y
      /\ \A j \in DOMAIN checks : j # i => checks'[j] = checks[j]
  BY <1>4 DEF DoorPageInv
<1>6. PICK m \in ModalRow : m = [modal EXCEPT !.says = says, !.about = about]
  BY DEF DoorPageInv, ModalRow
<1>7. m.says = says /\ m.about = about /\ m.camera = modal.camera /\ m.running = modal.running /\ m.code = modal.code
  BY <1>6 DEF DoorPageInv, ModalRow
<1>8. \A j \in DOMAIN checks : checks[j].heard = "waiting" => j = i
  BY DEF DoorPageInv, WaitsFor
<1>9. WaitsFor(m, checks')
  BY <1>3, <1>5, <1>8 DEF WaitsFor
<1>10. ChecksAreSo(checks', pass)
  BY <1>1, <1>3, <1>5 DEF DoorPageInv, ChecksAreSo
<1>11. modal.says = "checking" /\ modal.code = x.pass /\ x.pass \in Pass
  BY <1>1 DEF DoorPageInv, WaitsFor, CheckRow
<1>12. modal.camera => modal.running
  BY <1>11 DEF DoorPageInv, ScreenIsSo
<1>13. ScreenIsSo(m, pass)
  BY <1>1, <1>7, <1>11, <1>12 DEF ScreenIsSo
<1> QED
  BY <1>0, <1>5, <1>6, <1>9, <1>10, <1>13 DEF DoorPageInv

\* A ticket that is used stays used.
LEMMA PassesMove ==
    ASSUME DoorPageInv, NEW p \in Passes, pass' = p, \A t \in Pass : pass[t] = "used" => p[t] = "used",
           UNCHANGED <<modal, checks>>, {onDuty, takesPlace, network}' \subseteq BOOLEAN
    PROVE  DoorPageInv'
<1>1. ScreenIsSo(modal, p)
  BY DEF DoorPageInv, ScreenIsSo
<1>2. \A i \in DOMAIN checks : checks[i].pass \in Pass
  <2>1. \A i \in DOMAIN checks : checks[i] \in CheckRow
    BY DEF DoorPageInv
  <2> QED
    BY <2>1 DEF CheckRow
<1>3. ChecksAreSo(checks, p)
  BY <1>2 DEF DoorPageInv, ChecksAreSo
<1> QED
  BY <1>1, <1>3 DEF DoorPageInv

LEMMA CheckIsRun == ASSUME DoorPageInv, NEW i \in DOMAIN checks, CheckRuns(i) PROVE DoorPageInv'
<1>1. PICK x \in CheckRow : x = checks[i]
  BY DEF DoorPageInv
<1>2. PICK at \in {"valid", "used", "refused"}, p \in Passes :
         /\ checks' = [checks EXCEPT ![i].at = at] /\ pass' = p
         /\ \A t \in Pass : pass[t] = "used" => p[t] = "used"
         /\ at \in {"valid", "used"} => p[x.pass] = "used"
  <2>1. x.pass \in Pass /\ pass \in Passes
    BY DEF CheckRow, DoorPageInv
  <2>2. CASE pass' = [pass EXCEPT ![x.pass] = "used"] /\ checks' = [checks EXCEPT ![i].at = "valid"]
    BY <2>1, <2>2 DEF Passes
  <2>3. CASE pass[x.pass] = "used" /\ pass' = pass /\ checks' = [checks EXCEPT ![i].at = "used"]
    BY <2>1, <2>3
  <2>4. CASE pass' = pass /\ checks' = [checks EXCEPT ![i].at = "refused"]
    BY <2>1, <2>4
  <2> QED
    BY <1>1, <2>2, <2>3, <2>4 DEF CheckRuns
<1>3. PICK y \in CheckRow : y = [x EXCEPT !.at = at]
  BY DEF CheckRow
<1>4. y.pass = x.pass /\ y.at = at /\ y.heard = x.heard
  BY <1>3 DEF CheckRow
<1>5. checks' = [checks EXCEPT ![i] = y]
  BY <1>1, <1>2, <1>3
<1>6. /\ DOMAIN checks' = DOMAIN checks /\ checks' \in Seq(CheckRow) /\ checks'[i] = y
      /\ \A j \in DOMAIN checks : j # i => checks'[j] = checks[j]
  BY <1>5 DEF DoorPageInv
<1>7. WaitsFor(modal, checks')
  BY <1>1, <1>4, <1>6 DEF DoorPageInv, WaitsFor
<1>8. \A j \in DOMAIN checks : checks[j].pass \in Pass
  <2>1. \A j \in DOMAIN checks : checks[j] \in CheckRow
    BY DEF DoorPageInv
  <2> QED
    BY <2>1 DEF CheckRow
<1>9. ChecksAreSo(checks', p)
  BY <1>1, <1>2, <1>4, <1>6, <1>8 DEF DoorPageInv, ChecksAreSo
<1>10. ScreenIsSo(modal, p)
  BY <1>2 DEF DoorPageInv, ScreenIsSo
<1>11. modal' = modal /\ {onDuty, takesPlace, network}' \subseteq BOOLEAN
  BY DEF CheckRuns, DoorPageInv
<1> QED
  BY <1>2, <1>6, <1>7, <1>9, <1>10, <1>11 DEF DoorPageInv

LEMMA DoorPageStarts == DoorPageInit => DoorPageInv
<1> SUFFICES ASSUME DoorPageInit PROVE DoorPageInv
  OBVIOUS
<1>1. pass \in Passes
  BY DEF DoorPageInit, Passes
<1>2. checks \in Seq(CheckRow) /\ DOMAIN checks = {}
  BY DEF DoorPageInit
<1>3. WaitsFor(modal, checks) /\ ChecksAreSo(checks, pass)
  BY <1>2 DEF WaitsFor, ChecksAreSo
<1>4. modal \in ModalRow /\ ScreenIsSo(modal, pass)
  BY ModalIs DEF DoorPageInit, ScreenIsSo
<1> QED
  BY <1>1, <1>2, <1>3, <1>4 DEF DoorPageInv, DoorPageInit

LEMMA DoorPageSteps == DoorPageInv /\ [DoorPageNext]_doorVars => DoorPageInv'
<1> SUFFICES ASSUME DoorPageInv, [DoorPageNext]_doorVars PROVE DoorPageInv'
  OBVIOUS
<1>b. {onDuty, takesPlace, network} \subseteq BOOLEAN /\ modal \in ModalRow /\ pass \in Passes
  BY DEF DoorPageInv
\* Steps that the dialog, the checks and the tickets do not see.
<1>0. ASSUME UNCHANGED <<pass, modal, checks>>, {onDuty, takesPlace, network}' \subseteq BOOLEAN PROVE DoorPageInv'
  BY <1>0 DEF DoorPageInv
<1>1. CASE UNCHANGED doorVars
  BY <1>0, <1>1, <1>b DEF doorVars
<1>2. CASE RefreshesEvents \/ TokenRenewed \/ EventsRead \/ EventsFail
  BY <1>0, <1>2, <1>b DEF RefreshesEvents, TokenRenewed, EventsRead, EventsFail, elsewhere
<1>3. CASE EventsArrive
  <2>1. CASE workspace.asked = "denied"
    BY <1>3, <2>1, <1>b, ModalIs, DialogMoves DEF EventsArrive, elsewhere
  <2>2. CASE workspace.asked # "denied"
    BY <1>0, <1>3, <2>2, <1>b DEF EventsArrive, elsewhere
  <2> QED
    BY <2>1, <2>2
<1>4. CASE WorkspaceRestarts
  BY <1>4, <1>b, ModalIs, DialogMoves DEF WorkspaceRestarts, elsewhere
<1>5. CASE OpensScanner
  BY <1>5, <1>b, ModalIs, DialogMoves DEF OpensScanner, phone
<1>6. CASE ClosesScanner
  BY <1>6, <1>b, ModalIs, DialogMoves DEF ClosesScanner, phone
<1>7. CASE NetworkTurns \/ EventOpensOrCloses
  BY <1>0, <1>7, <1>b DEF NetworkTurns, EventOpensOrCloses
<1>8. CASE NoticesNetwork
  <2>1. PICK m \in ModalRow : m = [modal EXCEPT !.online = network]
    BY <1>b DEF ModalRow
  <2>2. /\ m.open = modal.open /\ m.camera = modal.camera /\ m.running = modal.running /\ m.says = modal.says
        /\ m.about = modal.about /\ m.code = modal.code
    BY <2>1, <1>b DEF ModalRow
  <2>3. modal' = m /\ UNCHANGED <<pass, onDuty, takesPlace, network, checks>>
    BY <1>8, <2>1 DEF NoticesNetwork, phone
  <2>4. ScreenIsSo(m, pass) /\ WaitsFor(m, checks)
    BY <2>2 DEF DoorPageInv, ScreenIsSo, WaitsFor
  <2> QED
    BY <2>3, <2>4 DEF DoorPageInv
<1>e. PICK e \in ModalRow : e = Emptied /\ e.says = "ready"
  BY <1>b, ModalIs
<1>9. ASSUME NEW camera \in BOOLEAN, PicksMode(camera) PROVE DoorPageInv'
  <2>1. PICK m \in ModalRow : modal' = m /\ m.says = "ready"
    <3>1. PICK run \in BOOLEAN : run = (camera /\ e.running)
      BY <1>e DEF ModalRow
    <3>2. PICK m \in ModalRow : m = [e EXCEPT !.camera = camera, !.running = run]
      BY DEF ModalRow
    <3>3. modal' = m
      BY <1>9, <1>e, <3>1, <3>2 DEF PicksMode, ModalRow
    <3> QED
      BY <3>2, <3>3, <1>e DEF ModalRow
  <2> QED
    BY <1>9, <2>1, <1>b, DialogMoves DEF PicksMode, MayMoveOn, phone
<1>10. CASE OpensCamera
  <2>1. PICK m \in ModalRow : m = [e EXCEPT !.running = TRUE]
    BY DEF ModalRow
  <2>2. modal' = m /\ m.says = "ready"
    BY <1>10, <1>e, <2>1 DEF OpensCamera, ModalRow
  <2>3. modal.says # "checking"
    BY <1>10 DEF OpensCamera, DoorPageInv, ScreenIsSo
  <2> QED
    BY <1>10, <2>2, <2>3, <1>b, DialogMoves DEF OpensCamera, phone
<1>11. CASE CameraFails
  <2>1. PICK m \in ModalRow : m = [modal EXCEPT !.running = FALSE]
    BY <1>b DEF ModalRow
  <2>2. modal' = m /\ m.says = "ready"
    BY <1>11, <1>b, <2>1 DEF CameraFails, ModalRow
  <2> QED
    BY <1>11, <2>2, <1>b, DialogMoves DEF CameraFails, phone
<1>12. CASE NextTicket
  BY <1>12, <1>e, <1>b, DialogMoves DEF NextTicket, Answered, phone
<1>13. ASSUME NEW t \in Pass \cup {NoPass}, ScansQr(t) PROVE DoorPageInv'
  BY <1>13, CheckIsSent DEF ScansQr, phone
<1>14. CASE SubmitsCode
  BY <1>14, <1>b, CheckIsSent DEF SubmitsCode, phone, ModalRow
<1>15. CASE RetriesTicket
  <2>1. modal.camera => modal.running
    BY <1>15 DEF RetriesTicket, DoorPageInv, ScreenIsSo
  <2>2. modal.code \in Pass \cup {NoPass}
    BY <1>b DEF ModalRow
  <2> QED
    BY <1>15, <2>1, <2>2, CheckIsSent DEF RetriesTicket, phone
<1>16. ASSUME NEW t \in Pass, TypesCode(t) PROVE DoorPageInv'
  <2>1. PICK m \in ModalRow : m = [modal EXCEPT !.code = t]
    BY <1>b DEF ModalRow
  <2>2. modal' = m /\ m.says = "ready"
    BY <1>16, <1>b, <2>1 DEF TypesCode, ModalRow
  <2> QED
    BY <1>16, <2>2, <1>b, DialogMoves DEF TypesCode, phone
<1>17. ASSUME NEW t \in Pass, PassMoves(t) PROVE DoorPageInv'
  <2>1. PICK p \in Passes : pass' = p /\ \A s \in Pass : pass[s] = "used" => p[s] = "used"
    <3>1. CASE pass[t] = "void" /\ pass' = [pass EXCEPT ![t] = "valid"]
      BY <3>1, <1>b DEF Passes
    <3>2. CASE pass[t] = "valid" /\ pass' = [pass EXCEPT ![t] = "used"]
      <4>1. [pass EXCEPT ![t] = "used"] \in Passes
        BY <1>b DEF Passes
      <4>2. \A s \in Pass : pass[s] = "used" => [pass EXCEPT ![t] = "used"][s] = "used"
        BY <1>b DEF Passes
      <4> QED
        BY <3>2, <4>1, <4>2
    <3> QED
      BY <3>1, <3>2, <1>17 DEF PassMoves
  <2> QED
    BY <1>17, <2>1, <1>b, PassesMove DEF PassMoves
<1>18. ASSUME NEW i \in DOMAIN checks, CheckRuns(i) PROVE DoorPageInv'
  BY <1>18, CheckIsRun
<1>19. ASSUME NEW i \in DOMAIN checks, CheckAnswered(i) PROVE DoorPageInv'
  <2>1. PICK x \in CheckRow : x = checks[i]
    BY DEF DoorPageInv
  <2>2. x.at \in Says /\ x.pass \in Pass /\ x.at # "sent"
    BY <1>19, <2>1 DEF CheckRow, Says, CheckAnswered
  <2>3. x.at \in {"valid", "used"} => pass[x.pass] = "used"
    BY <2>1 DEF DoorPageInv, ChecksAreSo
  <2> QED
    BY <1>19, <2>1, <2>2, <2>3, CheckIsHeard DEF CheckAnswered
<1>20. ASSUME NEW i \in DOMAIN checks, CheckLost(i) PROVE DoorPageInv'
  <2>1. modal' = [modal EXCEPT !.says = "unconfirmed", !.about = NoPass]
    BY <1>20 DEF CheckLost, Failure, Ambiguous
  <2>2. modal'.says = "unconfirmed"
    BY <2>1, <1>b DEF ModalRow
  <2>3. checks' = [checks EXCEPT ![i].heard = "warned"] /\ checks[i].heard = "waiting" /\ UNCHANGED phone
    BY <1>20, <2>2 DEF CheckLost
  <2> QED
    BY <2>1, <2>3, CheckIsHeard DEF Says
<1>21. CASE OpensRoster \/ ClosesRoster
  BY <1>0, <1>21, <1>b DEF OpensRoster, ClosesRoster, gate
<1>22. ASSUME NEW i, RosterRead(i) \/ RosterArrives(i) \/ RosterFails(i) PROVE DoorPageInv'
  BY <1>0, <1>22, <1>b DEF RosterRead, RosterArrives, RosterFails, gate
<1>23. ASSUME NEW change, ChangesStaff(change) PROVE DoorPageInv'
  BY <1>0, <1>23, <1>b DEF ChangesStaff, gate
<1>24. CASE StaffChanges \/ StaffChangeAnswered \/ StaffChangeFails
  BY <1>0, <1>24, <1>b DEF StaffChanges, StaffChangeAnswered, StaffChangeFails, gate
<1> QED
  BY <1>1, <1>2, <1>3, <1>4, <1>5, <1>6, <1>7, <1>8, <1>9, <1>10, <1>11, <1>12, <1>13, <1>14, <1>15, <1>16,
     <1>17, <1>18, <1>19, <1>20, <1>21, <1>22, <1>23, <1>24 DEF DoorPageNext

LEMMA DoorIsRight == DoorPageInv => DoorPageTypeOK /\ DoorScreenIsTrue
<1> SUFFICES ASSUME DoorPageInv PROVE DoorPageTypeOK /\ DoorScreenIsTrue
  OBVIOUS
<1>1. \A i \in DOMAIN checks : checks[i] \in CheckRow
  BY DEF DoorPageInv
<1>2. DoorPageTypeOK
  BY <1>1 DEF DoorPageInv, DoorPageTypeOK, ModalRow, CheckRow, Passes
<1>3. DoorScreenIsTrue
  BY DEF DoorPageInv, DoorScreenIsTrue, ScreenIsSo, ChecksAreSo
<1> QED
  BY <1>2, <1>3

\* The phone at the door keeps to its types.
THEOREM DoorPageIsWellTyped == DoorPageSpec => []DoorPageTypeOK
<1> QED
  BY DoorPageStarts, DoorPageSteps, DoorIsRight, PTL DEF DoorPageSpec

\* What the screen says of a ticket is so, and a red screen is never the last word about a
\* ticket that its own check has let in.
THEOREM TheDoorIsTrusted == DoorPageSpec => []DoorScreenIsTrue
<1> QED
  BY DoorPageStarts, DoorPageSteps, DoorIsRight, PTL DEF DoorPageSpec

-----------------------------------------------------------------------------
(*************************************************************************)
(* The messages of a member. What is on the screen is of the thread      *)
(* that is open (IsOf); a request is answered while none is.             *)
(*************************************************************************)

Open == Chat \cup {NoChat}
Page(m, r, s, c, l) == [matches |-> m, requests |-> r, selected |-> s, screen |-> c, loading |-> l]
Message(c, at, n) == [chat |-> c, at |-> at, number |-> n]
ListRow == [id : Nat, read : BOOLEAN, matches : SUBSET Chat, requests : SUBSET Chat]
AnswerRow == [chat : Open, verb : {"", "accept", "decline"}, at : {"", "sent", "done", "refused"}]

\* What is on the screen c is of the thread s; without an open thread nothing is.
IsOf(c, s) == (\A m \in c : m[1] = s) /\ (s = NoChat => c = {})

\* The page by its parts; a request is answered while no thread is open.
InboxInv ==
    /\ \E m, r \in SUBSET Chat, s \in Open : \E c, l :
          inbox = Page(m, r, s, c, l) /\ IsOf(c, s) /\ (answering.at # "" => s = NoChat)
    /\ route \in Open \cup {"here"}
    /\ listings \in SUBSET ListRow /\ listed \in Nat
    /\ answering \in AnswerRow /\ (answering.at # "" => answering.chat \in Chat)
    /\ \E c \in Open : \E at, n : outgoing = Message(c, at, n) /\ (at # "" => c \in Chat)

LEMMA PageParts ==
    \A m, r, s, c, l, p : p = Page(m, r, s, c, l) =>
        p.matches = m /\ p.requests = r /\ p.selected = s /\ p.screen = c /\ p.loading = l
  BY DEF Page

LEMMA ThreadIs ==
    /\ \A c \in Chat : \A N : IsOf(Of(c, N), c)
    /\ \A c : IsOf(OnScreen(c), c)
    /\ IsOf({}, NoChat) /\ \A s : IsOf({}, s)
  BY InboxAssumption DEF IsOf, Of, OnScreen

LEMMA NothingIsSent == NoAnswer \in AnswerRow /\ NoAnswer.at = "" /\ NoMessage = Message(NoChat, "", 0)
  BY DEF NoAnswer, AnswerRow, NoMessage, Message, Open

LEMMA InboxStarts == InboxInit => InboxInv
<1> SUFFICES ASSUME InboxInit PROVE InboxInv
  OBVIOUS
<1>1. inbox = Page({}, {}, NoChat, {}, FALSE) /\ answering = NoAnswer /\ outgoing = NoMessage
      /\ route = "here" /\ listed = 1
  BY DEF InboxInit, Page
<1>2. listings \in SUBSET ListRow
  BY DEF InboxInit, ListRow
<1> QED
  BY <1>1, <1>2, ThreadIs, NothingIsSent DEF InboxInv, Open

\* What a step does to the page, and to the rest that the invariant looks at.
LEMMA InboxMoves ==
    ASSUME InboxInv, NEW m \in SUBSET Chat, NEW r \in SUBSET Chat, NEW s \in Open, NEW c, NEW l,
           inbox' = Page(m, r, s, c, l), IsOf(c, s),
           answering' = NoAnswer \/ (answering' = answering /\ (answering.at # "" => s = NoChat)),
           outgoing' = outgoing \/ outgoing' = NoMessage,
           route' \in Open \cup {"here"}, listings' \in SUBSET ListRow, listed' \in Nat
    PROVE  InboxInv'
<1>1. answering' \in AnswerRow /\ (answering'.at # "" => answering'.chat \in Chat /\ s = NoChat)
  BY NothingIsSent DEF InboxInv
<1>2. \E x \in Open : \E at, n : outgoing' = Message(x, at, n) /\ (at # "" => x \in Chat)
  BY NothingIsSent DEF InboxInv, Open
<1> QED
  BY <1>1, <1>2 DEF InboxInv

LEMMA InboxSteps == InboxInv /\ [InboxNext]_inboxVars => InboxInv'
<1> SUFFICES ASSUME InboxInv, [InboxNext]_inboxVars PROVE InboxInv'
  OBVIOUS
<1>p. PICK m, r, s, t, l : /\ inbox = Page(m, r, s, t, l) /\ IsOf(t, s) /\ (answering.at # "" => s = NoChat)
                           /\ m \in SUBSET Chat /\ r \in SUBSET Chat /\ s \in Open
  BY DEF InboxInv
<1>t. m \in SUBSET Chat /\ r \in SUBSET Chat /\ s \in Open
  BY <1>p
<1>q. IsOf(t, s) /\ (answering.at # "" => s = NoChat)
  BY <1>p
<1>e. inbox = Page(m, r, s, t, l)
  BY <1>p
<1>i. inbox.matches = m /\ inbox.requests = r /\ inbox.selected = s /\ inbox.screen = t /\ inbox.loading = l
  BY <1>e, PageParts
<1>o. PICK oc \in Open : \E at, n : outgoing = Message(oc, at, n) /\ (at # "" => oc \in Chat)
  BY DEF InboxInv
<1>s. outgoing.chat = oc /\ (outgoing.at # "" => oc \in Chat)
  <2>1. PICK at, n : outgoing = Message(oc, at, n) /\ (at # "" => oc \in Chat)
    BY <1>o
  <2> QED
    BY <2>1 DEF Message
<1>r. route \in Open \cup {"here"} /\ listings \in SUBSET ListRow /\ listed \in Nat
  BY DEF InboxInv
\* Steps that leave the page as it is.
<1>0. ASSUME inbox' = inbox, route' \in Open \cup {"here"}, listings' \in SUBSET ListRow, listed' \in Nat,
             answering' = answering, outgoing' = outgoing \/ outgoing' = NoMessage
      PROVE  InboxInv'
  BY <1>0, <1>q, <1>e, <1>t, InboxMoves
\* Steps that show something else of the open thread.
<1>1. ASSUME NEW x, NEW y, inbox' = Page(m, r, s, x, y), IsOf(x, s),
             UNCHANGED <<route, listings, listed, answering>>, outgoing' = outgoing \/ outgoing' = NoMessage
      PROVE  InboxInv'
  BY <1>1, <1>q, <1>e, <1>t, <1>r, InboxMoves
<1>2. CASE UNCHANGED inboxVars
  BY <1>2, <1>0, <1>r DEF inboxVars
<1>3. ASSUME NEW c \in Chat, ThreadReads(c) PROVE InboxInv'
  BY <1>3, <1>0, <1>r DEF ThreadReads
<1>4. ASSUME NEW c \in Chat, ThreadArrives(c) PROVE InboxInv'
  <2>1. PICK merged : merged = (IF cached[c] = NotCached THEN {} ELSE cached[c]) \cup fetching[c].got
    OBVIOUS
  <2>2. CASE inbox' = inbox
    BY <1>4, <1>0, <1>r, <2>2 DEF ThreadArrives
  <2>3. CASE inbox' = [inbox EXCEPT !.screen = Of(c, merged), !.loading = FALSE] /\ s = c
    <3>1. PICK x, p : x = Of(c, merged) /\ p = [inbox EXCEPT !.screen = x]
      OBVIOUS
    <3>2. p = Page(m, r, s, x, l)
      BY <3>1, <1>e DEF Page
    <3>3. inbox' = [p EXCEPT !.loading = FALSE]
      BY <2>3, <3>1
    <3>4. inbox' = Page(m, r, s, x, FALSE)
      BY <3>2, <3>3 DEF Page
    <3> QED
      BY <1>4, <1>1, <2>3, <3>1, <3>4, ThreadIs DEF ThreadArrives
  <2> QED
    BY <1>4, <1>i, <2>1, <2>2, <2>3 DEF ThreadArrives, StillOpen
<1>5. ASSUME NEW c \in Chat, ThreadFails(c) PROVE InboxInv'
  <2>1. CASE inbox' = inbox
    BY <1>5, <1>0, <1>r, <2>1 DEF ThreadFails
  <2>2. CASE inbox' = [inbox EXCEPT !.loading = FALSE]
    <3>1. inbox' = Page(m, r, s, t, FALSE)
      BY <2>2, <1>e DEF Page
    <3> QED
      BY <1>5, <1>1, <1>q, <1>e, <1>t, <3>1 DEF ThreadFails
  <2> QED
    BY <1>5, <2>1, <2>2 DEF ThreadFails
\* A thread is shown on a page that has none open.
<1>6. ASSUME NEW c \in Chat, s = NoChat, NEW p, NEW n, NEW q, n \in SUBSET Chat, q \in SUBSET Chat,
             p = Page(n, q, s, t, l), inbox' = Shows(p, c), route' = c,
             answering' = NoAnswer, UNCHANGED <<listings, listed, outgoing>>
      PROVE  InboxInv'
  <2>1. PICK u, v : /\ u = (IF cached[c] = NotCached THEN t ELSE Of(c, cached[c]))
                    /\ v = (cached[c] = NotCached)
    OBVIOUS
  <2>2. p.screen = t
    BY <1>6, PageParts
  <2>3. Shows(p, c) = [p EXCEPT !.selected = c, !.loading = v, !.screen = u]
    BY <2>1, <2>2 DEF Shows
  <2>4. inbox' = Page(n, q, c, u, v)
    <3>1. PICK o : o = [p EXCEPT !.selected = c]
      OBVIOUS
    <3>2. PICK w : w = [o EXCEPT !.loading = v]
      OBVIOUS
    <3>3. inbox' = [w EXCEPT !.screen = u]
      BY <1>6, <2>3, <3>1, <3>2
    <3>4. o = Page(n, q, c, t, l)
      BY <1>6, <3>1 DEF Page
    <3>5. w = Page(n, q, c, t, v)
      BY <3>2, <3>4 DEF Page
    <3> QED
      BY <3>3, <3>5 DEF Page
  <2>5. IsOf(u, c)
    BY <1>6, <1>q, <1>e, <1>t, <2>1, ThreadIs DEF IsOf
  <2> QED
    BY <1>6, <1>r, <2>4, <2>5, InboxMoves DEF Open
<1>7. ASSUME NEW c \in Chat, OpensChat(c) PROVE InboxInv'
  BY <1>7, <1>6, <1>i, <1>q, <1>e, <1>t DEF OpensChat
\* A page that is cleared.
<1>8. ASSUME NEW n, NEW q, NEW p, n \in SUBSET Chat, q \in SUBSET Chat, p = Page(n, q, s, t, l), inbox' = Cleared(p),
             route' \in Open \cup {"here"}, listings' \in SUBSET ListRow,
             UNCHANGED <<listed, answering, outgoing>>
      PROVE  InboxInv'
  <2>1. inbox' = Page(n, q, NoChat, {}, l)
    <3>1. PICK o : o = [p EXCEPT !.selected = NoChat]
      OBVIOUS
    <3>2. inbox' = [o EXCEPT !.screen = {}]
      BY <1>8, <3>1 DEF Cleared
    <3>3. o = Page(n, q, NoChat, t, l)
      BY <1>8, <3>1 DEF Page
    <3> QED
      BY <3>2, <3>3 DEF Page
  <2> QED
    BY <1>8, <1>r, <2>1, ThreadIs, InboxMoves DEF Open
<1>9. CASE Closes
  BY <1>9, <1>8, <1>q, <1>e, <1>t, <1>r DEF Closes, Open
<1>10. CASE Mounts
  <2>1. route \in Open /\ inbox' = Page({}, {}, route, OnScreen(route), inbox'.loading)
    <3>1. inbox' = [matches |-> {}, requests |-> {}, selected |-> route, screen |-> OnScreen(route),
                    loading |-> route # NoChat /\ cached[route] = NotCached]
      BY <1>10 DEF Mounts
    <3> QED
      BY <1>10, <1>r, <3>1 DEF Mounts, Page
  <2>2. Listing \in ListRow
    BY <1>r DEF Listing, ListRow
  <2> QED
    BY <1>10, <1>r, <2>1, <2>2, ThreadIs, InboxMoves DEF Mounts
<1>11. ASSUME NEW x \in listings, ListReads(x) PROVE InboxInv'
  <2>1. PICK a \in SUBSET Chat, b \in SUBSET Chat : a = In("open") /\ b = In("request")
    BY DEF In
  <2>2. PICK y \in ListRow : y = [x EXCEPT !.read = TRUE, !.matches = a, !.requests = b]
    BY <1>r DEF ListRow
  <2>3. listings' = (listings \ {x}) \cup {y}
    BY <1>11, <2>1, <2>2 DEF ListReads
  <2> QED
    BY <1>11, <1>0, <1>r, <2>3 DEF ListReads
<1>12. ASSUME NEW x \in listings, ListComes(x) PROVE InboxInv'
  <2>1. PICK a, b : a = x.matches /\ b = x.requests /\ a \in SUBSET Chat /\ b \in SUBSET Chat
    BY <1>r DEF ListRow
  <2>2. PICK p : p = [inbox EXCEPT !.matches = a, !.requests = b]
    OBVIOUS
  <2>3. p = Page(a, b, s, t, l)
    <3>1. PICK o : o = [inbox EXCEPT !.matches = a]
      OBVIOUS
    <3>2. p = [o EXCEPT !.requests = b]
      BY <2>2, <3>1
    <3>3. o = Page(a, r, s, t, l)
      BY <1>e, <3>1 DEF Page
    <3> QED
      BY <3>2, <3>3 DEF Page
  <2>4. inbox' = p \/ inbox' = Cleared(p)
    BY <1>12, <2>1, <2>2 DEF ListComes
  <2>5. listings' \in SUBSET ListRow /\ UNCHANGED <<route, answering, outgoing, listed>>
    BY <1>12, <1>r DEF ListComes
  <2>6. CASE inbox' = p
    BY <1>q, <1>e, <1>t, <1>r, <2>1, <2>3, <2>5, <2>6, InboxMoves
  <2>7. CASE inbox' = Cleared(p)
    BY <1>8, <1>r, <2>1, <2>3, <2>5, <2>7
  <2> QED
    BY <2>4, <2>6, <2>7
<1>13. ASSUME NEW x \in listings, ListIsLost(x) PROVE InboxInv'
  BY <1>13, <1>0, <1>r DEF ListIsLost
<1>14. CASE Connects
  <2>1. Listing \in ListRow
    BY <1>r DEF Listing, ListRow
  <2> QED
    BY <1>14, <1>0, <1>r, <2>1 DEF Connects
<1>15. CASE Disconnects
  BY <1>15, <1>0, <1>r DEF Disconnects
\* The cache is shown again, if there is one.
<1>16. ASSUME NEW y, NEW x, x = IF cached[s] = NotCached THEN t ELSE OnScreen(s)
       PROVE  IsOf(x, s)
  BY <1>16, <1>q, <1>e, <1>t, ThreadIs
<1>17. CASE Joins
  <2>1. PICK x, y : /\ x = (IF cached[s] = NotCached THEN t ELSE OnScreen(s))
                    /\ y = (cached[s] = NotCached)
    OBVIOUS
  <2>2. inbox' = [inbox EXCEPT !.screen = x, !.loading = y]
    BY <1>17, <1>i, <2>1 DEF Joins
  <2>3. inbox' = Page(m, r, s, x, y)
    <3>1. PICK o : o = [inbox EXCEPT !.screen = x]
      OBVIOUS
    <3>2. inbox' = [o EXCEPT !.loading = y]
      BY <2>2, <3>1
    <3>3. o = Page(m, r, s, x, l)
      BY <1>e, <3>1 DEF Page
    <3> QED
      BY <3>2, <3>3 DEF Page
  <2> QED
    BY <1>17, <1>1, <1>16, <2>1, <2>3 DEF Joins
<1>18. ASSUME NEW c \in Chat, NEW n, Upserted(c, n), UNCHANGED <<route, listings, listed, answering>>,
              outgoing' = outgoing \/ outgoing' = NoMessage
       PROVE  InboxInv'
  <2>1. CASE s # c
    BY <1>18, <1>0, <1>i, <1>r, <2>1 DEF Upserted
  <2>2. CASE s = c
    <3>1. PICK x : x = Of(c, cached'[c])
      OBVIOUS
    <3>2. inbox' = Page(m, r, s, x, l)
      BY <1>18, <1>i, <1>e, <2>2, <3>1 DEF Upserted, Page
    <3> QED
      BY <1>1, <1>18, <2>2, <3>1, <3>2, ThreadIs
  <2> QED
    BY <2>1, <2>2
<1>19. ASSUME NEW c \in Chat, MessageArrives(c) PROVE InboxInv'
  <2>1. CASE live.connected
    BY <1>19, <1>18, <2>1 DEF MessageArrives
  <2>2. CASE ~live.connected
    BY <1>19, <1>0, <1>r, <2>2 DEF MessageArrives
  <2> QED
    BY <2>1, <2>2
<1>20. ASSUME NEW c \in Chat, ConversationEnds(c) PROVE InboxInv'
  <2>0. UNCHANGED <<listings, listed, answering, outgoing>>
    BY <1>20 DEF ConversationEnds
  <2>1. CASE live.connected
    <3>1. PICK p : p = [inbox EXCEPT !.matches = m \ {c}]
      OBVIOUS
    <3>2. p = Page(m \ {c}, r, s, t, l) /\ m \ {c} \in SUBSET Chat
      BY <3>1, <1>e, <1>t DEF Page
    <3>3. (inbox' = Cleared(p) /\ route' = NoChat) \/ (inbox' = p /\ route' = route)
      BY <1>20, <1>i, <2>1, <3>1 DEF ConversationEnds, ForgetsChat
    <3>4. CASE inbox' = Cleared(p) /\ route' = NoChat
      BY <1>8, <1>t, <1>r, <2>0, <3>2, <3>4 DEF Open
    <3>5. CASE inbox' = p /\ route' = route
      BY <1>q, <1>e, <1>t, <1>r, <2>0, <3>2, <3>5, InboxMoves
    <3> QED
      BY <3>3, <3>4, <3>5
  <2>2. CASE ~live.connected
    BY <1>20, <1>0, <1>r, <2>2 DEF ConversationEnds
  <2> QED
    BY <2>1, <2>2
<1>21. ASSUME NEW c \in Chat, NEW verb \in {"accept", "decline"}, Responds(c, verb) PROVE InboxInv'
  <2>1. PICK a \in AnswerRow : a = [chat |-> c, verb |-> verb, at |-> "sent"]
    BY DEF AnswerRow, Open
  <2>2. answering' = a /\ a.chat = c /\ s = NoChat /\ UNCHANGED <<inbox, route, listings, listed, outgoing>>
    BY <1>21, <1>i, <2>1 DEF Responds
  <2> QED
    BY <1>q, <1>e, <1>t, <1>r, <1>o, <2>2 DEF InboxInv
<1>22. CASE RequestIsAnswered
  <2>1. PICK at \in {"done", "refused"} : answering' = [answering EXCEPT !.at = at]
    BY <1>22 DEF RequestIsAnswered
  <2>2. PICK a \in AnswerRow : a = [answering EXCEPT !.at = at]
    BY DEF InboxInv, AnswerRow
  <2>3. a.chat = answering.chat
    BY <2>2 DEF InboxInv, AnswerRow
  <2>4. answering.at = "sent" /\ answering.chat \in Chat /\ s = NoChat
        /\ UNCHANGED <<inbox, route, listings, listed, outgoing>>
    BY <1>22, <1>q, <1>e, <1>t DEF RequestIsAnswered, InboxInv
  <2> QED
    BY <1>q, <1>e, <1>t, <1>r, <1>o, <2>1, <2>2, <2>3, <2>4 DEF InboxInv
<1>23. CASE AnswerComes
  <2>1. answering.at # "" /\ s = NoChat /\ answering.chat \in Chat
    BY <1>23, <1>q, <1>e, <1>t DEF AnswerComes, InboxInv
  <2>2. PICK c \in Chat : c = answering.chat
    BY <2>1
  <2>3. PICK p : p = [inbox EXCEPT !.requests = r \ {c}]
    OBVIOUS
  <2>4. p = Page(m, r \ {c}, s, t, l) /\ r \ {c} \in SUBSET Chat
    BY <2>3, <1>e, <1>t DEF Page
  <2>5. PICK q : q = [p EXCEPT !.matches = m \cup {c}]
    OBVIOUS
  <2>6. q = Page(m \cup {c}, r \ {c}, s, t, l) /\ m \cup {c} \in SUBSET Chat /\ p.matches = m
    BY <2>4, <2>5, <1>t DEF Page
  <2>7. answering' = NoAnswer /\ UNCHANGED <<listings, listed, outgoing>>
    BY <1>23 DEF AnswerComes
  <2>8. CASE answering.at = "done" /\ answering.verb = "accept"
    <3>1. inbox' = Shows(q, c) /\ route' = c
      BY <1>23, <1>i, <2>2, <2>3, <2>5, <2>6, <2>8 DEF AnswerComes
    <3> QED
      BY <1>6, <2>1, <2>4, <2>6, <2>7, <3>1
  <2>9. CASE ~(answering.at = "done" /\ answering.verb = "accept")
    <3>1. (inbox' = p \/ inbox' = inbox) /\ route' = route
      BY <1>23, <1>i, <2>2, <2>3, <2>9 DEF AnswerComes
    <3>2. CASE inbox' = p
      BY <1>q, <1>e, <1>t, <1>r, <2>4, <2>7, <3>1, <3>2, InboxMoves
    <3>3. CASE inbox' = inbox
      BY <1>q, <1>e, <1>t, <1>r, <2>7, <3>1, <3>3, InboxMoves
    <3> QED
      BY <3>1, <3>2, <3>3
  <2> QED
    BY <2>8, <2>9
<1>24. CASE Sends
  <2>1. outgoing' = Message(s, "sent", 0) /\ s \in Chat /\ UNCHANGED <<inbox, route, listings, listed, answering>>
    <3>1. inbox.selected \in inbox.matches /\ m \in SUBSET Chat
      BY <1>24, <1>t DEF Sends
    <3> QED
      BY <1>24, <1>i, <3>1 DEF Sends, Message
  <2> QED
    BY <1>q, <1>e, <1>t, <1>r, <2>1 DEF InboxInv
<1>25. CASE SendIsStored
  <2>1. PICK at, n : outgoing = Message(oc, at, n) /\ (at # "" => oc \in Chat)
    BY <1>o
  <2>2. PICK k : k = written'[outgoing.chat]
    OBVIOUS
  <2>3. outgoing' = [outgoing EXCEPT !.at = "stored", !.number = k] /\ oc \in Chat
        /\ UNCHANGED <<inbox, route, listings, listed, answering>>
    BY <1>25, <1>s, <2>2 DEF SendIsStored
  <2>4. outgoing' = Message(oc, "stored", k)
    BY <2>1, <2>3 DEF Message
  <2> QED
    BY <1>q, <1>e, <1>t, <1>r, <2>3, <2>4 DEF InboxInv
<1>26. CASE SendIsAcknowledged
  <2>1. oc \in Chat /\ outgoing' = NoMessage /\ UNCHANGED <<route, listings, listed, answering>>
    BY <1>26, <1>s DEF SendIsAcknowledged
  <2>2. CASE StillOpen(outgoing.chat)
    BY <1>26, <1>18, <1>s, <2>1, <2>2 DEF SendIsAcknowledged
  <2>3. CASE ~StillOpen(outgoing.chat)
    BY <1>26, <1>0, <1>r, <2>1, <2>3 DEF SendIsAcknowledged
  <2> QED
    BY <2>2, <2>3
<1>27. CASE SendFails
  <2>1. outgoing' = NoMessage /\ UNCHANGED <<route, listings, listed, answering>>
    BY <1>27 DEF SendFails
  <2>2. CASE inbox' = inbox
    BY <1>0, <1>r, <2>1, <2>2
  <2>3. CASE inbox' # inbox
    <3>1. PICK x, y : /\ x = (IF cached[s] = NotCached THEN t ELSE OnScreen(s))
                      /\ y = (cached[s] = NotCached)
      OBVIOUS
    <3>2. inbox' = [inbox EXCEPT !.loading = y, !.screen = x]
      BY <1>27, <1>i, <2>3, <3>1 DEF SendFails, StillOpen
    <3>3. PICK o : o = [inbox EXCEPT !.loading = y]
      OBVIOUS
    <3>4. inbox' = [o EXCEPT !.screen = x]
      BY <3>2, <3>3
    <3>5. o = Page(m, r, s, t, y)
      BY <1>e, <3>3 DEF Page
    <3>6. inbox' = Page(m, r, s, x, y)
      BY <3>4, <3>5 DEF Page
    <3> QED
      BY <1>1, <1>16, <2>1, <3>1, <3>6
  <2> QED
    BY <2>2, <2>3
<1> QED
  BY <1>2, <1>3, <1>4, <1>5, <1>7, <1>9, <1>10, <1>11, <1>12, <1>13, <1>14, <1>15, <1>17, <1>19, <1>20, <1>21,
     <1>22, <1>23, <1>24, <1>25, <1>26, <1>27 DEF InboxNext

LEMMA InboxIsRight == InboxInv => ScreenIsTheOpenThread
<1> SUFFICES ASSUME InboxInv PROVE ScreenIsTheOpenThread
  OBVIOUS
<1>1. PICK m, r, s, c, l : inbox = Page(m, r, s, c, l) /\ IsOf(c, s)
  BY DEF InboxInv
<1>2. inbox.selected = s /\ inbox.screen = c
  BY <1>1, PageParts
<1> QED
  BY <1>1, <1>2 DEF ScreenIsTheOpenThread, IsOf

\* What is on the screen is the open conversation's.
THEOREM ScreenIsOfTheThread == InboxSpec => []ScreenIsTheOpenThread
<1> QED
  BY InboxStarts, InboxSteps, InboxIsRight, PTL DEF InboxSpec

-----------------------------------------------------------------------------
(*************************************************************************)
(* The profile of a member. Until a save, or a load that follows a save  *)
(* or a new token, has written the form, the form is what was typed      *)
(* (UntilRewritten).                                                     *)
(*************************************************************************)

\* The page, the query with the loads that wait for it, and a save.
ViewRow == [view : {"overview", "edit", "preview"}, loading : BOOLEAN, has : Profile, cached : BOOLEAN]
QueryRow == [at : {"none", "sent", "answered"}, got : Profile,
             waiting : SUBSET {"opening", "saved", "renewed", "uploaded"}]
SaveRow == [at : {"none", "sent", "answered"}, sends : Fields, answer : Profile]

EditorRows ==
    /\ stored \in Profile /\ form \in Fields /\ typed \in Fields
    /\ profilePage \in ViewRow /\ profileQuery \in QueryRow /\ save \in SaveRow
    /\ upload \in {"none", "sent", "registered", "loading"} /\ setup \in BOOLEAN

\* The form is what was typed, until a save or a load after it or after a new token writes it.
UntilRewritten == rewritten \/ form = typed

EditorInv == EditorRows /\ UntilRewritten

LEMMA BlankIs == /\ Blank \in Profile /\ FormOf(Blank) \in Fields
                 /\ [text |-> "old", place |-> "old", photo |-> TRUE] \in Profile
                 /\ IdleQuery \in QueryRow /\ IdleQuery.waiting = {} /\ IdleSave \in SaveRow
<1>1. Blank \in Profile /\ FormOf(Blank) \in Fields
      /\ [text |-> "old", place |-> "old", photo |-> TRUE] \in Profile
  BY DEF Blank, FormOf, Profile, Fields, Entry
<1> QED
  BY <1>1 DEF IdleQuery, IdleSave, QueryRow, SaveRow

LEMMA FormOfIs == ASSUME NEW p \in Profile PROVE FormOf(p) \in Fields
  BY DEF FormOf, Profile, Fields

LEMMA WaitsIs ==
    ASSUME NEW q \in QueryRow, NEW reason \in {"saved", "renewed", "uploaded"}
    PROVE  /\ Waits(q, reason) \in QueryRow
           /\ Waits(q, reason).waiting \subseteq q.waiting \cup {reason}
  BY BlankIs DEF Waits, QueryRow

LEMMA EditorStarts == EditorInit => EditorInv
<1> SUFFICES ASSUME EditorInit PROVE EditorInv
  OBVIOUS
<1>1. profileQuery \in QueryRow /\ profileQuery.waiting = {"opening"}
  BY BlankIs DEF EditorInit, QueryRow
<1>2. profilePage \in ViewRow
  BY BlankIs DEF EditorInit, ViewRow
<1> QED
  BY <1>1, <1>2, BlankIs DEF EditorInit, EditorInv, EditorRows, UntilRewritten

\* The loads and the views.
LEMMA EditorLoads ==
    ASSUME EditorInv, QueryReads \/ QueryArrives \/ QueryFails \/ ProfileReloads \/ Edits \/ Previews \/ ClosesEditor
    PROVE  EditorInv'
<1> USE DEF EditorInv, EditorRows, UntilRewritten
<1>1. CASE QueryReads
  BY <1>1 DEF QueryReads, QueryRow
<1>2. CASE QueryArrives
  <2>1. profilePage' \in ViewRow
    BY <1>2 DEF QueryArrives, ViewRow, QueryRow
  <2>2. FormOf(profileQuery.got) \in Fields
    BY FormOfIs DEF QueryRow
  <2>3. UntilRewritten'
    BY <1>2, BlankIs DEF QueryArrives, Syncs
  <2> QED
    BY <1>2, <2>1, <2>2, <2>3, BlankIs DEF QueryArrives
<1>3. CASE QueryFails
  <2>1. profilePage' \in ViewRow
    BY <1>3 DEF QueryFails, ViewRow
  <2> QED
    BY <1>3, <2>1, BlankIs DEF QueryFails
<1>4. CASE Edits
  BY <1>4 DEF Edits, ViewRow
<1>5. CASE Previews
  BY <1>5 DEF Previews, ViewRow
<1>6. CASE ClosesEditor
  <2>1. profilePage' \in ViewRow /\ FormOf(profilePage.has) \in Fields
    BY <1>6, FormOfIs DEF ClosesEditor, ViewRow
  <2> QED
    BY <1>6, <2>1 DEF ClosesEditor
<1>7. CASE ProfileReloads
  <2>1. CASE UNCHANGED <<profilePage, profileQuery>> /\ form' = FormOf(profilePage.has) /\ rewritten' = TRUE
    <3>1. FormOf(profilePage.has) \in Fields
      BY FormOfIs DEF ViewRow
    <3> QED
      BY <1>7, <2>1, <3>1 DEF ProfileReloads
  <2>2. CASE /\ profilePage' = [profilePage EXCEPT !.loading = TRUE]
             /\ profileQuery' = Waits(profileQuery, "renewed") /\ UNCHANGED <<form, rewritten>>
    <3>1. profilePage' \in ViewRow /\ profileQuery' \in QueryRow
      BY <2>2, WaitsIs DEF ViewRow
    <3> QED
      BY <1>7, <2>2, <3>1 DEF ProfileReloads
  <2> QED
    BY <1>7, <2>1, <2>2 DEF ProfileReloads
<1> QED
  BY <1>1, <1>2, <1>3, <1>4, <1>5, <1>6, <1>7

\* What fills in the form, and the saves.
LEMMA EditorWrites ==
    ASSUME EditorInv,
           \/ Locates \/ Located \/ Saves \/ SaveWrites \/ SaveArrives \/ SaveIsRefused
           \/ \E field \in {"text", "place"}, w \in Entry : TypesField(field, w)
    PROVE  EditorInv'
<1> USE DEF EditorInv, EditorRows, UntilRewritten
<1>1. CASE Locates
  BY <1>1 DEF Locates
<1>2. CASE Located
  BY <1>2 DEF Located, Fields, Entry
<1>3. CASE Saves
  BY <1>3, BlankIs DEF Saves, SaveRow
<1>4. CASE SaveWrites
  <2>1. stored' \in Profile
    BY <1>4 DEF SaveWrites, Profile, SaveRow, Fields
  <2> QED
    BY <1>4, <2>1 DEF SaveWrites, SaveRow
<1>5. CASE SaveArrives
  <2>1. FormOf(save.answer) \in Fields /\ profilePage' \in ViewRow
    BY <1>5, FormOfIs DEF SaveArrives, SaveRow, ViewRow
  <2>2. profileQuery' \in QueryRow
    BY <1>5, WaitsIs DEF SaveArrives
  <2> QED
    BY <1>5, <2>1, <2>2, BlankIs DEF SaveArrives
<1>6. CASE SaveIsRefused
  BY <1>6, BlankIs DEF SaveIsRefused
<1>7. ASSUME NEW field \in {"text", "place"}, NEW w \in Entry, TypesField(field, w) PROVE EditorInv'
  BY <1>7 DEF TypesField, Fields
<1> QED
  BY <1>1, <1>2, <1>3, <1>4, <1>5, <1>6, <1>7

\* The uploads and the other device.
LEMMA EditorUploads ==
    ASSUME EditorInv, Uploads \/ PhotoIsRegistered \/ UploadArrives \/ UploadIsRefused \/ ChangesElsewhere
    PROVE  EditorInv'
<1> USE DEF EditorInv, EditorRows, UntilRewritten
<1>1. CASE Uploads
  BY <1>1 DEF Uploads
<1>2. CASE PhotoIsRegistered
  BY <1>2 DEF PhotoIsRegistered, Profile
<1>3. CASE UploadArrives
  BY <1>3, WaitsIs DEF UploadArrives, ViewRow
<1>4. CASE UploadIsRefused
  BY <1>4 DEF UploadIsRefused
<1>5. CASE ChangesElsewhere
  BY <1>5 DEF ChangesElsewhere, Profile
<1> QED
  BY <1>1, <1>2, <1>3, <1>4, <1>5

LEMMA EditorSteps == EditorInv /\ [EditorNext]_editorVars => EditorInv'
<1> SUFFICES ASSUME EditorInv, [EditorNext]_editorVars PROVE EditorInv'
  OBVIOUS
<1>1. CASE UNCHANGED editorVars
  BY <1>1 DEF editorVars, EditorInv, EditorRows, UntilRewritten
<1> QED
  BY <1>1, EditorLoads, EditorWrites, EditorUploads DEF EditorNext

LEMMA EditorHolds == EditorSpec => []EditorInv
  BY EditorStarts, EditorSteps, PTL DEF EditorSpec

\* The stored profile, the form and what the page has are profiles and forms.
THEOREM EditorIsWellTyped == EditorSpec => []EditorTypeOK
<1>1. EditorInv => EditorTypeOK
  BY DEF EditorInv, EditorRows, EditorTypeOK, ViewRow, QueryRow, SaveRow
<1> QED
  BY <1>1, EditorHolds, PTL

\* From when the editor opens until a save is answered or the load of a new access token
\* arrives, it holds what the member has put into it, whatever the first load, failed loads,
\* uploads, location searches and other devices do (profile-tab.tsx).
THEOREM TypingIsKept == EditorSpec => []TypedWordsStay
<1>1. EditorInv => TypedWordsStay
  BY DEF EditorInv, UntilRewritten, TypedWordsStay
<1> QED
  BY <1>1, EditorHolds, PTL

-----------------------------------------------------------------------------
(*************************************************************************)
(* The ordering of what was chosen. An order that is on its way keeps    *)
(* its page busy, and the page orders nothing by itself any more         *)
(* (Flights): so one visit has at most one (OneFlight).                  *)
(*************************************************************************)

Choice == Tier \cup {NoTier}
OrderRow == [tier : Choice, visit : Nat, redirects : BOOLEAN, joins : BOOLEAN,
             at : {"sent", "refused", "booked", "payable", "settled", "lost", "cut off", "open", "paid"}]
TabRow == [at : {"elsewhere", "home", "provider", "callback"}, visit : Nat, door : BOOLEAN, started : BOOLEAN,
           intent : Choice, shows : SUBSET Tier, busy : BOOLEAN]
KeptRow == [tier : Choice, fresh : BOOLEAN]

\* The orders os by the page t and what is kept, k: those of the visit that are on their
\* way keep the page busy, and it orders nothing by itself any more.
Flights(t, os, k) ==
    \A i \in DOMAIN os :
        /\ os[i].visit <= t.visit
        /\ t.at = "home" /\ os[i].visit = t.visit /\ os[i].at \in InFlight =>
              t.busy /\ (t.started \/ ~k.fresh \/ k.tier = NoTier)
OneFlight(os) ==
    \A i, j \in DOMAIN os :
        os[i].visit = os[j].visit /\ os[i].at \in InFlight /\ os[j].at \in InFlight => i = j
Keeps(k, w) == w # NoTier => k = [tier |-> w, fresh |-> TRUE]

CheckoutInv ==
    /\ offered \in [tiers : SUBSET Tier, free : BOOLEAN]
    /\ tab \in TabRow /\ orders \in Seq(OrderRow) /\ kept \in KeptRow /\ owed \in Choice
    /\ Flights(tab, orders, kept) /\ OneFlight(orders) /\ Keeps(kept, owed)

LEMMA TabsAre ==
    /\ NothingKept \in KeptRow /\ ~NothingKept.fresh
    /\ \A visit \in Nat : /\ Elsewhere(visit) \in TabRow
                          /\ Elsewhere(visit).at = "elsewhere" /\ Elsewhere(visit).visit = visit
    /\ kept \in KeptRow => /\ AfterReading \in KeptRow /\ Pending \in Choice
                           /\ AfterReading = kept \/ ~AfterReading.fresh
                           /\ Pending = NoTier => ~AfterReading.fresh \/ AfterReading.tier = NoTier
                           /\ kept.fresh => AfterReading = kept /\ Pending = kept.tier
                           /\ Pending # NoTier => kept.fresh /\ kept.tier = Pending
  BY DEF NothingKept, KeptRow, Choice, Elsewhere, NewHome, TabRow, AfterReading, Pending

LEMMA FunctionIsSeq == ASSUME NEW S, NEW n \in Nat, NEW f \in [1..n -> S] PROVE f \in Seq(S)
  BY SeqDef

LEMMA AppendIs ==
    ASSUME NEW S, NEW s \in Seq(S), NEW e \in S
    PROVE  /\ Append(s, e) \in Seq(S) /\ DOMAIN Append(s, e) = 1..(Len(s) + 1)
           /\ Append(s, e)[Len(s) + 1] = e /\ \A i \in 1..Len(s) : Append(s, e)[i] = s[i]
  OBVIOUS

\* Orders that only come down.
LEMMA OrdersLand ==
    ASSUME NEW os \in Seq(OrderRow), NEW f \in Seq(OrderRow), DOMAIN f = DOMAIN os,
           \A i \in DOMAIN os : f[i].visit = os[i].visit /\ (f[i].at \in InFlight => os[i].at \in InFlight)
    PROVE  /\ \A t, k : Flights(t, os, k) => Flights(t, f, k)
           /\ OneFlight(os) => OneFlight(f)
  BY DEF Flights, OneFlight

\* One order moves on.
LEMMA OrderMoves ==
    ASSUME NEW os \in Seq(OrderRow), NEW o \in DOMAIN os, NEW r \in OrderRow, NEW f, f = [os EXCEPT ![o] = r],
           r.visit = os[o].visit, r.at \in InFlight => os[o].at \in InFlight
    PROVE  /\ f \in Seq(OrderRow) /\ DOMAIN f = DOMAIN os
           /\ f[o] = r /\ \A i \in DOMAIN os : i # o => f[i] = os[i]
           /\ \A t, k : Flights(t, os, k) => Flights(t, f, k)
           /\ OneFlight(os) => OneFlight(f)
<1>1. f \in Seq(OrderRow) /\ DOMAIN f = DOMAIN os /\ f[o] = r /\ \A i \in DOMAIN os : i # o => f[i] = os[i]
  OBVIOUS
<1>2. \A i \in DOMAIN os : f[i].visit = os[i].visit /\ (f[i].at \in InFlight => os[i].at \in InFlight)
  BY <1>1
<1> QED
  BY <1>1, <1>2, OrdersLand

\* The page gives way to another place.
LEMMA AwayIsFree ==
    ASSUME NEW t \in TabRow, NEW s \in TabRow, NEW os, NEW k, NEW l, Flights(t, os, k),
           s.visit = t.visit, s.at # "home"
    PROVE  Flights(s, os, l)
  BY DEF Flights

\* A new order, of a page that has none on its way.
LEMMA OrderIsMade ==
    ASSUME NEW t \in TabRow, NEW os \in Seq(OrderRow), NEW r \in OrderRow, NEW k, NEW l, NEW s \in TabRow,
           Flights(t, os, k), OneFlight(os),
           r.visit = t.visit, s.visit = t.visit, s.busy, s.started \/ ~l.fresh \/ l.tier = NoTier,
           \A i \in DOMAIN os : os[i].visit = t.visit => os[i].at \notin InFlight
    PROVE  /\ Append(os, r) \in Seq(OrderRow)
           /\ Flights(s, Append(os, r), l) /\ OneFlight(Append(os, r))
<1>1. PICK n \in Nat : n = Len(os) /\ DOMAIN os = 1..n
  <2>1. Len(os) \in Nat /\ DOMAIN os = 1..Len(os)
    OBVIOUS
  <2> QED
    BY <2>1
<1>2. PICK f \in Seq(OrderRow) : f = Append(os, r)
  BY AppendIs
<1>3. DOMAIN f = 1..(n + 1) /\ f[n + 1] = r /\ \A i \in 1..n : f[i] = os[i]
  BY <1>1, <1>2, AppendIs
<1>4. \A i \in 1..(n + 1) : i \in 1..n \/ i = n + 1
  OBVIOUS
<1>5. t.visit \in Nat
  BY DEF TabRow
<1>6. Flights(s, f, l)
  BY <1>1, <1>3, <1>4, <1>5 DEF Flights
<1>7. OneFlight(f)
  BY <1>1, <1>3, <1>4 DEF OneFlight
<1> QED
  BY <1>2, <1>6, <1>7

\* The effect of the home page.
LEMMA EffectRuns ==
    ASSUME NEW t \in TabRow, NEW user, NEW made \in Seq(OrderRow), kept \in KeptRow,
           Flights(t, made, kept), OneFlight(made), Keeps(kept, owed), HomeEffect(t, user, made)
    PROVE  /\ tab' \in TabRow /\ orders' \in Seq(OrderRow) /\ kept' \in KeptRow
           /\ Flights(tab', orders', kept') /\ OneFlight(orders') /\ Keeps(kept', owed)
<1>v. t.visit \in Nat
  BY DEF TabRow
<1>e. PICK s \in TabRow : s = Elsewhere(t.visit) /\ s.at = "elsewhere" /\ s.visit = t.visit
  BY <1>v, TabsAre
<1>1. CASE t.at # "home" \/ ~CanEnter(t, user) \/ t.door
  <2>1. tab' \in {t, s} /\ orders' = made /\ kept' = kept
    BY <1>1, <1>e DEF HomeEffect
  <2> QED
    BY <2>1, <1>e, AwayIsFree
<1>2. CASE ~(t.at # "home" \/ ~CanEnter(t, user) \/ t.door)
  <2>1. /\ kept' = AfterReading /\ kept' \in KeptRow /\ Keeps(kept', owed)
        /\ kept' = kept \/ ~kept'.fresh
    BY <1>2, TabsAre DEF HomeEffect, Keeps
  <2>2. CASE StartsByItself(t, Pending)
    <3>1. PICK p \in TabRow : p = [t EXCEPT !.started = TRUE, !.busy = TRUE]
      BY DEF TabRow
    <3>2. p.visit = t.visit /\ p.busy /\ p.started
      BY <3>1 DEF TabRow
    <3>3. PICK r \in OrderRow : r = Order(Pending, t.visit, TRUE)
      BY <1>v, TabsAre DEF Order, OrderRow
    <3>4. r.visit = t.visit
      BY <3>3 DEF Order
    <3>5. tab' = p /\ orders' = Append(made, r)
      BY <1>2, <2>2, <3>1, <3>3 DEF HomeEffect
    <3>6. ~t.started /\ kept.fresh /\ kept.tier # NoTier
      BY <2>2, TabsAre DEF StartsByItself
    <3>7. \A i \in DOMAIN made : made[i].visit = t.visit => made[i].at \notin InFlight
      BY <1>2, <3>6 DEF Flights
    <3> QED
      BY <2>1, <3>2, <3>4, <3>5, <3>7, OrderIsMade
  <2>3. CASE ~StartsByItself(t, Pending)
    <3>1. tab' = s /\ orders' = made
      BY <1>2, <2>3, <1>e DEF HomeEffect
    <3> QED
      BY <2>1, <3>1, <1>e, AwayIsFree
  <2> QED
    BY <2>2, <2>3
<1> QED
  BY <1>1, <1>2

LEMMA CheckoutStarts == CheckoutInit => CheckoutInv
<1> SUFFICES ASSUME CheckoutInit PROVE CheckoutInv
  OBVIOUS
<1>1. offered \in [tiers : SUBSET Tier, free : BOOLEAN]
  BY DEF CheckoutInit
<1>2. tab \in TabRow /\ kept \in KeptRow
  BY TabsAre DEF CheckoutInit
<1>3. orders \in Seq(OrderRow) /\ DOMAIN orders = {} /\ owed \in Choice
  BY DEF CheckoutInit, Choice
<1>4. Flights(tab, orders, kept) /\ OneFlight(orders) /\ Keeps(kept, owed)
  BY <1>3 DEF Flights, OneFlight, Keeps, CheckoutInit
<1> QED
  BY <1>1, <1>2, <1>3, <1>4 DEF CheckoutInv

LEMMA HomeSteps ==
    ASSUME CheckoutInv
    PROVE  /\ \A door \in BOOLEAN : OpensHome(door) => CheckoutInv'
           /\ LeavesHome \/ PreviewArrives \/ LogsIn \/ SessionRenewed \/ Reactivates \/ SessionEnds => CheckoutInv'
<1> USE DEF CheckoutInv
<1>v. tab.visit \in Nat
  BY DEF TabRow
<1>e. PICK s \in TabRow : s = Elsewhere(tab.visit) /\ s.at = "elsewhere" /\ s.visit = tab.visit
  BY <1>v, TabsAre
<1>s. Flights(s, orders, kept)
  BY <1>e, AwayIsFree
<1>1. ASSUME NEW door \in BOOLEAN, OpensHome(door) PROVE CheckoutInv'
  <2>0. PICK n \in Nat : n = tab.visit + 1
    BY <1>v
  <2>1. PICK h \in TabRow : h = NewHome("home", n, Pending)
    BY TabsAre DEF NewHome, TabRow
  <2>2. PICK t \in TabRow : t = [h EXCEPT !.door = door]
    BY DEF TabRow
  <2>3. t.visit = n
    BY <2>1, <2>2 DEF NewHome, TabRow
  <2>4. \A i \in DOMAIN orders : orders[i].visit \in Nat /\ orders[i].visit <= tab.visit
    <3>1. \A i \in DOMAIN orders : orders[i] \in OrderRow
      OBVIOUS
    <3> QED
      BY <3>1 DEF Flights, OrderRow
  <2>5. \A i \in DOMAIN orders : orders[i].visit <= n /\ orders[i].visit # n
    BY <2>0, <2>4, <1>v
  <2>6. Flights(t, orders, kept)
    BY <2>3, <2>5 DEF Flights
  <2>7. HomeEffect(t, session, orders) /\ UNCHANGED <<offered, owed>>
    BY <1>1, <2>0, <2>1, <2>2 DEF OpensHome
  <2> QED
    BY <2>6, <2>7, EffectRuns
<1>2. CASE LeavesHome
  <2>1. tab' = s /\ UNCHANGED <<offered, kept, orders, owed>>
    BY <1>2, <1>e DEF LeavesHome
  <2> QED
    BY <2>1, <1>s
<1>3. CASE PreviewArrives
  <2>0. UNCHANGED <<offered, kept, orders, owed>>
    BY <1>3 DEF PreviewArrives
  <2>1. CASE tab' = tab
    BY <2>0, <2>1
  <2>2. CASE tab' = [tab EXCEPT !.shows = IF tab.intent \in offered.tiers THEN {tab.intent} ELSE offered.tiers]
    <3>1. PICK x \in SUBSET Tier : x = IF tab.intent \in offered.tiers THEN {tab.intent} ELSE offered.tiers
      OBVIOUS
    <3>2. PICK t \in TabRow : t = [tab EXCEPT !.shows = x]
      BY DEF TabRow
    <3>3. t.at = tab.at /\ t.visit = tab.visit /\ t.busy = tab.busy /\ t.started = tab.started /\ tab' = t
      BY <2>2, <3>1, <3>2 DEF TabRow
    <3>4. Flights(t, orders, kept)
      BY <3>3 DEF Flights
    <3> QED
      BY <2>0, <3>3, <3>4
  <2> QED
    BY <1>3, <2>1, <2>2 DEF PreviewArrives
<1>4. CASE LogsIn \/ SessionRenewed \/ Reactivates
  <2>1. (\E user : HomeEffect(tab, user, orders)) /\ UNCHANGED <<offered, owed>>
    BY <1>4 DEF LogsIn, SessionRenewed, Reactivates
  <2> QED
    BY <2>1, EffectRuns
<1>5. CASE SessionEnds
  <2>1. tab' \in {tab, s} /\ UNCHANGED <<offered, kept, orders, owed>>
    BY <1>5, <1>e DEF SessionEnds
  <2> QED
    BY <2>1, <1>s
<1> QED
  BY <1>1, <1>2, <1>3, <1>4, <1>5

LEMMA PaywallSteps == ASSUME CheckoutInv, PaysAtPaywall PROVE CheckoutInv'
<1> USE DEF CheckoutInv
<1>1. PICK tier \in Choice : tier = IF tab.intent # NoTier THEN tab.intent ELSE Pending
  BY TabsAre DEF TabRow
<1>2. PICK r \in OrderRow : r = Order(tier, tab.visit, FALSE)
  BY DEF Order, OrderRow, TabRow
<1>3. PICK b \in BOOLEAN : b = (tab.started \/ tier # NoTier)
  OBVIOUS
<1>4. PICK t \in TabRow : t = [tab EXCEPT !.started = b, !.busy = TRUE]
  BY DEF TabRow
<1>5. /\ tab' = t /\ orders' = Append(orders, r) /\ ~tab.busy /\ tab.at = "home"
      /\ kept' = IF tab.intent # NoTier THEN kept ELSE AfterReading
      /\ UNCHANGED <<offered, owed>>
  BY <1>1, <1>2, <1>3, <1>4 DEF PaysAtPaywall, PaywallReady, TabRow
<1>6. t.visit = tab.visit /\ t.busy /\ t.started = b /\ r.visit = tab.visit
  BY <1>2, <1>4 DEF TabRow, Order
<1>7. kept' \in KeptRow /\ Keeps(kept', owed)
  <2>1. owed # NoTier => kept.fresh
    BY DEF Keeps
  <2> QED
    BY <2>1, <1>5, TabsAre DEF Keeps
<1>8. b \/ ~kept'.fresh \/ kept'.tier = NoTier
  BY <1>1, <1>3, <1>5, TabsAre
<1>9. \A i \in DOMAIN orders : orders[i].visit = tab.visit => orders[i].at \notin InFlight
  BY <1>5 DEF Flights
<1>10. orders' \in Seq(OrderRow) /\ Flights(t, orders', kept') /\ OneFlight(orders')
  BY <1>5, <1>6, <1>8, <1>9, OrderIsMade
<1> QED
  BY <1>5, <1>7, <1>10

LEMMA OrderSteps ==
    ASSUME CheckoutInv, NEW o \in DOMAIN orders
    PROVE  OrderRuns(o) \/ OrderIsBooked(o) \/ OrderIsPayable(o) \/ OrderFails(o)
              \/ (\E paid \in BOOLEAN : ProviderReturns(o, paid)) => CheckoutInv'
<1> USE DEF CheckoutInv
<1>v. tab.visit \in Nat
  BY DEF TabRow
<1>e. PICK s \in TabRow : s = Elsewhere(tab.visit) /\ s.at = "elsewhere" /\ s.visit = tab.visit
  BY <1>v, TabsAre
<1>o. PICK r \in OrderRow : r = orders[o]
  OBVIOUS
\* What is left on its way when this order is not.
<1>f. ASSUME orders[o].at \in InFlight, NEW f \in Seq(OrderRow), DOMAIN f = DOMAIN orders, f[o].at \notin InFlight,
             \A i \in DOMAIN orders : i # o => f[i] = orders[i], Concerns(o), f[o].visit = orders[o].visit,
             NEW t \in TabRow, t.visit = tab.visit, NEW k
      PROVE  Flights(t, f, k)
  <2>1. \A i \in DOMAIN f : f[i].visit = tab.visit => f[i].at \notin InFlight
    BY <1>f DEF OneFlight, Concerns
  <2>2. \A i \in DOMAIN f : f[i].visit <= t.visit
    BY <1>f DEF Flights
  <2> QED
    BY <2>1, <2>2, <1>f DEF Flights
<1>1. CASE OrderRuns(o)
  <2>1. PICK at \in {"refused", "booked", "payable"}, j \in BOOLEAN :
           orders' = [orders EXCEPT ![o].at = at, ![o].joins = j]
    BY <1>1 DEF OrderRuns
  <2>2. PICK q \in OrderRow : q = [r EXCEPT !.at = at, !.joins = j]
    BY DEF OrderRow
  <2>3. orders' = [orders EXCEPT ![o] = q] /\ q.visit = r.visit /\ orders[o].at \in InFlight
    BY <1>1, <1>o, <2>1, <2>2 DEF OrderRow, OrderRuns, InFlight
  <2>4. orders' \in Seq(OrderRow) /\ Flights(tab, orders', kept) /\ OneFlight(orders')
    BY <1>o, <2>3, OrderMoves
  <2> QED
    BY <1>1, <2>4 DEF OrderRuns
<1>2. CASE OrderIsBooked(o)
  <2>1. PICK q \in OrderRow : q = [r EXCEPT !.at = "settled"]
    BY DEF OrderRow
  <2>2. q.visit = r.visit /\ q.at \notin InFlight /\ orders[o].at \in InFlight
    BY <1>2, <1>o, <2>1 DEF OrderRow, OrderIsBooked, InFlight
  <2>3. PICK f \in Seq(OrderRow) :
           /\ f = [orders EXCEPT ![o].at = "settled"] /\ DOMAIN f = DOMAIN orders
           /\ f[o] = q /\ \A i \in DOMAIN orders : i # o => f[i] = orders[i]
           /\ Flights(tab, f, kept) /\ OneFlight(f)
    <3>1. [orders EXCEPT ![o].at = "settled"] = [orders EXCEPT ![o] = q]
      BY <1>o, <2>1
    <3> QED
      BY <3>1, <1>o, <2>2, OrderMoves
  <2>4. CASE orders[o].tier = NoTier
    <3>1. PICK t \in TabRow : /\ t = IF Concerns(o) THEN [tab EXCEPT !.busy = FALSE] ELSE tab
                              /\ t.visit = tab.visit
      <4>1. PICK t \in TabRow : t = [tab EXCEPT !.busy = FALSE]
        BY DEF TabRow
      <4>2. t.visit = tab.visit
        BY <4>1 DEF TabRow
      <4> QED
        BY <4>1, <4>2
    <3>2. Flights(t, f, kept)
      BY <1>o, <1>f, <2>2, <2>3, <3>1
    <3>3. \E user : HomeEffect(t, user, f)
      BY <1>2, <2>3, <2>4, <3>1 DEF OrderIsBooked
    <3>4. UNCHANGED <<offered, owed>>
      BY <1>2, <2>4 DEF OrderIsBooked
    <3> QED
      BY <2>3, <3>2, <3>3, <3>4, EffectRuns
  <2>5. CASE orders[o].tier # NoTier
    <3>1. tab' = s /\ orders' = f /\ kept' = NothingKept /\ owed' = NoTier /\ offered' = offered
      BY <1>2, <1>e, <2>3, <2>5 DEF OrderIsBooked
    <3>2. Flights(s, f, NothingKept) /\ Keeps(NothingKept, NoTier)
      BY <1>e, <2>3, AwayIsFree DEF Keeps
    <3> QED
      BY <3>1, <3>2, <2>3, TabsAre DEF Choice
  <2> QED
    BY <2>4, <2>5
<1>3. CASE OrderIsPayable(o)
  <2>1. PICK p \in TabRow : p = [s EXCEPT !.at = "provider"]
    BY DEF TabRow
  <2>2. p.at = "provider" /\ p.visit = tab.visit
    BY <1>e, <2>1 DEF TabRow
  <2>3. PICK n \in Nat : n = Len(orders) /\ DOMAIN orders = 1..n
    OBVIOUS
  <2>4. PICK f : f = [i \in 1..n |->
                    IF i = o THEN [orders[i] EXCEPT !.at = "open"]
                    ELSE IF orders[i].at \in InFlight THEN [orders[i] EXCEPT !.at = "cut off"] ELSE orders[i]]
    OBVIOUS
  <2>5. ASSUME NEW i \in 1..n
        PROVE  f[i] \in OrderRow /\ f[i].visit = orders[i].visit /\ f[i].at \notin InFlight
    <3>1. PICK x \in OrderRow : x = orders[i]
      BY <2>3
    <3>2. PICK a \in {"open", "cut off"}, y \in OrderRow : y = [x EXCEPT !.at = a] /\ (f[i] = y \/ (f[i] = x /\ x.at \notin InFlight))
      <4>1. [x EXCEPT !.at = "open"] \in OrderRow /\ [x EXCEPT !.at = "cut off"] \in OrderRow
        BY DEF OrderRow
      <4> QED
        BY <2>4, <3>1, <4>1
    <3>3. y.visit = x.visit /\ y.at = a
      BY <3>2 DEF OrderRow
    <3> QED
      BY <3>1, <3>2, <3>3 DEF InFlight
  <2>6. f \in Seq(OrderRow) /\ DOMAIN f = 1..n
    <3>1. f \in [1..n -> OrderRow]
      BY <2>4, <2>5
    <3> QED
      BY <3>1, FunctionIsSeq
  <2>7. Flights(tab, f, kept) /\ OneFlight(f)
    BY <2>3, <2>5, <2>6, OrdersLand
  <2>8. Flights(p, f, kept)
    BY <2>2, <2>7, AwayIsFree
  <2>9. orders' = f /\ tab' = p /\ UNCHANGED <<offered, kept, owed>>
    BY <1>3, <1>e, <2>1, <2>3, <2>4 DEF OrderIsPayable
  <2> QED
    BY <2>6, <2>7, <2>8, <2>9
<1>4. CASE OrderFails(o)
  <2>0. PICK at \in {"lost", "settled"} : at = IF orders[o].at \in {"sent", "payable"} THEN "lost" ELSE "settled"
    OBVIOUS
  <2>1. PICK q \in OrderRow : q = [r EXCEPT !.at = at]
    BY DEF OrderRow
  <2>2. q.visit = r.visit /\ q.at \notin InFlight /\ orders[o].at \in InFlight
    BY <1>4, <1>o, <2>1 DEF OrderRow, OrderFails, InFlight
  <2>3. PICK f \in Seq(OrderRow) :
           /\ f = [orders EXCEPT ![o] = q] /\ DOMAIN f = DOMAIN orders
           /\ f[o] = q /\ \A i \in DOMAIN orders : i # o => f[i] = orders[i]
           /\ Flights(tab, f, kept) /\ OneFlight(f)
    <3>1. PICK f : f = [orders EXCEPT ![o] = q]
      OBVIOUS
    <3> QED
      BY <3>1, <1>o, <2>2, OrderMoves
  <2>4. orders' = f /\ offered' = offered
    BY <1>4, <1>o, <2>0, <2>1, <2>3 DEF OrderFails
  <2>5. CASE orders[o].redirects
    <3>1. tab' = s /\ kept' = NothingKept /\ owed' = NoTier
      BY <1>4, <1>e, <2>5 DEF OrderFails
    <3>2. Flights(s, f, NothingKept) /\ Keeps(NothingKept, NoTier)
      BY <1>e, <2>3, AwayIsFree DEF Keeps
    <3> QED
      BY <2>3, <2>4, <3>1, <3>2, TabsAre DEF Choice
  <2>6. CASE ~orders[o].redirects
    <3>1. PICK t \in TabRow : /\ t = IF Concerns(o) THEN [tab EXCEPT !.started = FALSE, !.busy = FALSE] ELSE tab
                              /\ t.visit = tab.visit
      <4>1. PICK t \in TabRow : t = [tab EXCEPT !.started = FALSE, !.busy = FALSE]
        BY DEF TabRow
      <4>2. t.visit = tab.visit
        BY <4>1 DEF TabRow
      <4> QED
        BY <4>1, <4>2
    <3>2. Flights(t, f, kept)
      BY <1>o, <1>f, <2>2, <2>3, <3>1
    <3>3. tab' = t /\ UNCHANGED <<kept, owed>>
      BY <1>4, <2>6, <3>1 DEF OrderFails
    <3> QED
      BY <2>3, <2>4, <3>2, <3>3
  <2> QED
    BY <2>5, <2>6
<1>5. ASSUME NEW paid \in BOOLEAN, ProviderReturns(o, paid) PROVE CheckoutInv'
  <2>0. PICK at \in {"paid", "open"} : at = IF paid THEN "paid" ELSE "open"
    OBVIOUS
  <2>1. PICK q \in OrderRow : q = [r EXCEPT !.at = at]
    BY DEF OrderRow
  <2>2. q.visit = r.visit /\ q.at \notin InFlight
    BY <2>1 DEF OrderRow, InFlight
  <2>3. orders' = [orders EXCEPT ![o] = q] /\ UNCHANGED <<offered, kept, owed>>
    BY <1>5, <1>o, <2>0, <2>1 DEF ProviderReturns
  <2>4. PICK p \in TabRow : p = [tab EXCEPT !.at = "callback"]
    BY DEF TabRow
  <2>5. tab' = p /\ p.at # "home" /\ p.visit = tab.visit
    BY <1>5, <2>4 DEF ProviderReturns, TabRow
  <2>6. orders' \in Seq(OrderRow) /\ Flights(tab, orders', kept) /\ OneFlight(orders')
    BY <1>o, <2>2, <2>3, OrderMoves
  <2>7. Flights(p, orders', kept)
    BY <2>5, <2>6, AwayIsFree
  <2> QED
    BY <2>3, <2>5, <2>6, <2>7
<1> QED
  BY <1>1, <1>2, <1>3, <1>4, <1>5

LEMMA CheckoutSteps == CheckoutInv /\ [CheckoutNext]_checkoutVars => CheckoutInv'
<1> SUFFICES ASSUME CheckoutInv, [CheckoutNext]_checkoutVars PROVE CheckoutInv'
  OBVIOUS
<1> USE DEF CheckoutInv
<1>v. tab.visit \in Nat
  BY DEF TabRow
<1>e. PICK s \in TabRow : s = Elsewhere(tab.visit) /\ s.at = "elsewhere" /\ s.visit = tab.visit
  BY <1>v, TabsAre
<1>1. CASE UNCHANGED checkoutVars
  BY <1>1 DEF checkoutVars
<1>2. ASSUME NEW tier \in Tier, ChoosesTickets(tier) PROVE CheckoutInv'
  <2>1. PICK k \in KeptRow : k = [tier |-> tier, fresh |-> TRUE]
    BY DEF KeptRow, Choice
  <2>2. kept' = k /\ owed' = tier /\ UNCHANGED <<offered, tab, orders>> /\ tab.at # "home"
    BY <1>2, <2>1 DEF ChoosesTickets
  <2>3. Flights(tab, orders, k) /\ Keeps(k, tier)
    BY <2>1, <2>2, AwayIsFree DEF Keeps
  <2> QED
    BY <2>2, <2>3 DEF Choice
<1>3. ASSUME NEW tier \in Tier, TierIsWithdrawn(tier) PROVE CheckoutInv'
  <2>1. offered' \in [tiers : SUBSET Tier, free : BOOLEAN]
    BY <1>3 DEF TierIsWithdrawn
  <2> QED
    BY <1>3, <2>1 DEF TierIsWithdrawn
<1>4. CASE BacksOut
  <2>1. tab' = s /\ UNCHANGED <<offered, kept, orders, owed>>
    BY <1>4, <1>e DEF BacksOut
  <2>2. Flights(s, orders, kept)
    BY <1>e, AwayIsFree
  <2> QED
    BY <2>1, <2>2
<1>5. CASE VerifyRuns \/ VerifyIsLost \/ ReloadsCallback \/ MembershipTurns
  BY <1>5 DEF VerifyRuns, VerifyIsLost, ReloadsCallback, MembershipTurns
<1>6. CASE VerifyArrives
  <2>1. tab' \in {tab, s} /\ UNCHANGED <<offered, orders>>
    BY <1>6, <1>e DEF VerifyArrives
  <2>2. (kept' = kept /\ owed' \in {owed, NoTier}) \/ (kept' = NothingKept /\ owed' = NoTier)
    BY <1>6 DEF VerifyArrives, Forgets
  <2>3. kept' \in KeptRow /\ owed' \in Choice /\ Keeps(kept', owed')
    BY <2>2, TabsAre DEF Keeps, Choice
  <2>4. Flights(tab, orders, kept')
    BY <2>2, TabsAre DEF Flights
  <2>5. Flights(tab', orders, kept')
    BY <2>1, <2>4, <1>e, AwayIsFree
  <2> QED
    BY <2>1, <2>3, <2>5, <1>e
<1>7. CASE HalfAnHourPasses
  <2>0. PICK k \in KeptRow : k = [kept EXCEPT !.fresh = FALSE]
    BY DEF KeptRow
  <2>1. k = [kept EXCEPT !.fresh = FALSE] /\ k.fresh = FALSE
    BY <2>0 DEF KeptRow
  <2>2. kept' = k /\ owed' = NoTier /\ UNCHANGED <<offered, tab, orders>>
    BY <1>7, <2>1 DEF HalfAnHourPasses
  <2>3. Flights(tab, orders, k) /\ Keeps(k, NoTier)
    BY <2>1 DEF Flights, Keeps
  <2> QED
    BY <2>2, <2>3 DEF Choice
<1>8. 1..Len(orders) = DOMAIN orders
  OBVIOUS
<1> QED
  BY <1>1, <1>2, <1>3, <1>4, <1>5, <1>6, <1>7, <1>8, HomeSteps, PaywallSteps, OrderSteps DEF CheckoutNext

LEMMA CheckoutIsRight == CheckoutInv => ChoiceIsOrderedOnce
<1> SUFFICES ASSUME CheckoutInv PROVE ChoiceIsOrderedOnce
  OBVIOUS
<1>1. 1..Len(orders) = DOMAIN orders
  BY DEF CheckoutInv
<1> QED
  BY <1>1 DEF CheckoutInv, ChoiceIsOrderedOnce, OneFlight, Keeps

\* One visit of the home page never has two orders on their way, and a choice that was not
\* bought, refused or too old is still kept.
THEOREM OrderedOnce == CheckoutSpec => []ChoiceIsOrderedOnce
<1> QED
  BY CheckoutStarts, CheckoutSteps, CheckoutIsRight, PTL DEF CheckoutSpec

-----------------------------------------------------------------------------
(*************************************************************************)
(* The pages of the events. A read belongs to an effect of the page and  *)
(* to who looked at it, a request to the mount it was made in: only      *)
(* what is of the page as it stands is shown (ScreenIs, ReadIs, AskIs),  *)
(* and what is cached carries no other member's tickets (CacheIs).       *)
(*************************************************************************)

\* A view of an event, with the tickets of w or of no one.
ViewOf(o, l, m, j, w) == [open |-> o, left |-> l, mine |-> m, joined |-> j, of |-> w]
IsView(x, w) == \E o, l, m, j : x = ViewOf(o, l, m, j, w)
ViewsOf(events, W) == \A e \in DOMAIN events : \E w \in W : IsView(events[e], w)

\* Rows, with the values that are not looked into from a set V.
Whoever == Member \cup {Nobody}
ScreenRow(V) == [at : {"away", "list", "event"}, of : V, effect : Nat, mount : Nat, given : V, events : V,
                 past : V, mode : {"events", "history"}, lets : V, loading : BOOLEAN, busy : V]
CacheRow(V) == [public : V, member : V]
LatestRow(V) == [read : Nat, events : V]
ReadRow(V) == [effect : Nat, who : Whoever, of : V, at : {"sent", "answered", "over"}, events : V, past : V]
AskRow(V) == [kind : {"book", "code", "confirm", "join"}, mount : Nat, who : Whoever, of : V, tier : V, quantity : V,
              at : {"sent", "cut off", "granted", "read back", "over"}, view : V]

\* The page, for the viewer v.
ScreenIs(sc, v) ==
    /\ sc.at = "away" => sc.events = <<>> /\ sc.given = NotStored
    /\ ViewsOf(sc.events, {v, Nobody})
    /\ sc.given # NotStored => ViewsOf(sc.given, {Nobody})
    /\ sc.at = "event" => /\ sc.of # NoEvent /\ DOMAIN sc.events \subseteq {sc.of}
                          /\ sc.given # NotStored => DOMAIN sc.given \subseteq {sc.of}

CacheIs(c, v) ==
    /\ c.public # NotStored => ViewsOf(c.public, {Nobody})
    /\ c.member # NotStored => ViewsOf(c.member, {v, Nobody})

\* The read r, which is q: of the page's effect, it is made for its viewer and is newer
\* than what the page shows.
ReadIs(q, r, sc, v, l) ==
    /\ q.effect <= sc.effect
    /\ q.at # "over" /\ sc.at # "away" /\ q.effect = sc.effect => q.who = v /\ q.of = sc.of /\ l.read < r
    /\ q.at = "answered" => ViewsOf(q.events, {q.who}) /\ (q.of # NoEvent => DOMAIN q.events \subseteq {q.of})

AskIs(a, sc, v) ==
    /\ a.mount <= sc.mount
    /\ sc.at # "away" /\ a.mount = sc.mount =>
           a.who = v /\ (a.kind = "book" /\ sc.at = "event" => a.of = sc.of)
    /\ a.at = "read back" => a.kind = "book" /\ IsView(a.view, a.who)

OneReadAnEffect(R) ==
    \A r, s \in DOMAIN R : R[r].at # "over" /\ R[s].at # "over" /\ R[r].effect = R[s].effect => r = s

PagesAre(V, v, sc, c, l, R, A) ==
    /\ {NotStored, NoEvent, <<>>, {}} \subseteq V /\ v \in Whoever
    /\ sc \in ScreenRow(V) /\ c \in CacheRow(V) /\ l \in LatestRow(V)
    /\ R \in Seq(ReadRow(V)) /\ A \in Seq(AskRow(V))
    /\ ScreenIs(sc, v) /\ CacheIs(c, v)
    /\ l.read <= Len(R) /\ (sc.at # "away" => DOMAIN sc.events \subseteq l.events)
    /\ \A r \in DOMAIN R : ReadIs(R[r], r, sc, v, l)
    /\ OneReadAnEffect(R)
    /\ \A i \in DOMAIN A : AskIs(A[i], sc, v)

EventPagesInv == \E V : PagesAre(V, viewer, screen, cache, latest, reads, asks)

-----------------------------------------------------------------------------
\* Sequences.

LEMMA SeqIs ==
    ASSUME NEW X, NEW s, s \in Seq(X)
    PROVE  /\ Len(s) \in Nat /\ DOMAIN s = 1..Len(s) /\ s \in [1..Len(s) -> X]
           /\ \A i \in DOMAIN s : s[i] \in X
  BY SeqDef

LEMMA SeqLike ==
    ASSUME NEW X, NEW Y, NEW s, NEW t, s \in Seq(Y), t \in [DOMAIN s -> X]
    PROVE  t \in Seq(X) /\ Len(t) = Len(s) /\ DOMAIN t = DOMAIN s
<1>1. Len(s) \in Nat /\ DOMAIN s = 1..Len(s)
  BY SeqIs
<1>2. t \in Seq(X)
  BY <1>1, SeqDef
<1>3. DOMAIN t = 1..Len(t) /\ Len(t) \in Nat
  BY <1>2, SeqIs
<1> QED
  BY <1>1, <1>2, <1>3

LEMMA SeqSet ==
    ASSUME NEW X, NEW s, s \in Seq(X), NEW i, i \in DOMAIN s, NEW x, x \in X
    PROVE  /\ [s EXCEPT ![i] = x] \in Seq(X) /\ Len([s EXCEPT ![i] = x]) = Len(s)
           /\ DOMAIN [s EXCEPT ![i] = x] = DOMAIN s
           /\ \A j \in DOMAIN s : [s EXCEPT ![i] = x][j] = IF j = i THEN x ELSE s[j]
<1>1. s \in [DOMAIN s -> X]
  BY SeqIs
<1>2. [s EXCEPT ![i] = x] \in [DOMAIN s -> X]
  BY <1>1
<1> QED
  BY <1>1, <1>2, SeqLike

LEMMA SeqMore ==
    ASSUME NEW X, NEW s, s \in Seq(X), NEW x, x \in X
    PROVE  /\ Append(s, x) \in Seq(X) /\ Len(Append(s, x)) = Len(s) + 1
           /\ \A j \in DOMAIN Append(s, x) :
                 (j \in DOMAIN s /\ Append(s, x)[j] = s[j]) \/ (j = Len(s) + 1 /\ Append(s, x)[j] = x)
<1>1. Append(s, x) \in Seq(X) /\ Len(Append(s, x)) = Len(s) + 1
  BY AppendProperties
<1>2. Len(s) \in Nat /\ DOMAIN s = 1..Len(s) /\ DOMAIN Append(s, x) = 1..(Len(s) + 1)
  BY <1>1, SeqIs
<1>3. \A j \in 1..(Len(s) + 1) : j = Len(s) + 1 \/ j \in 1..Len(s)
  BY <1>2
<1> QED
  BY <1>1, <1>2, <1>3, AppendProperties

\* A wider set of values.
LEMMA Wider ==
    ASSUME NEW V, NEW v, NEW sc, NEW c, NEW l, NEW R, NEW A, PagesAre(V, v, sc, c, l, R, A), NEW U
    PROVE  PagesAre(V \cup U, v, sc, c, l, R, A)
<1>1. ScreenRow(V) \subseteq ScreenRow(V \cup U) /\ CacheRow(V) \subseteq CacheRow(V \cup U)
      /\ LatestRow(V) \subseteq LatestRow(V \cup U)
  BY DEF ScreenRow, CacheRow, LatestRow
<1>2. ReadRow(V) \subseteq ReadRow(V \cup U) /\ AskRow(V) \subseteq AskRow(V \cup U)
  BY DEF ReadRow, AskRow
<1>3. R \in Seq(ReadRow(V)) /\ A \in Seq(AskRow(V))
  BY DEF PagesAre
<1>4. R \in [DOMAIN R -> ReadRow(V \cup U)] /\ A \in [DOMAIN A -> AskRow(V \cup U)]
  BY <1>2, <1>3, SeqIs
<1>5. R \in Seq(ReadRow(V \cup U)) /\ A \in Seq(AskRow(V \cup U))
  BY <1>3, <1>4, SeqLike
<1> QED
  BY <1>1, <1>5 DEF PagesAre

-----------------------------------------------------------------------------
\* Views.

LEMMA ViewsAre ==
    ASSUME NEW who
    PROVE  /\ \A e : IsView(View(e, who), who)
           /\ \A D : DOMAIN Views(D, who) = D /\ ViewsOf(Views(D, who), {who})
           /\ ViewsOf(OpenEvents(who), {who})
           /\ \A e : ViewsOf(OneEvent(e, who), {who}) /\ DOMAIN OneEvent(e, who) \subseteq {e}
<1>1. ASSUME NEW e PROVE IsView(View(e, who), who)
  BY DEF View, IsView, ViewOf
<1>2. ASSUME NEW D PROVE DOMAIN Views(D, who) = D /\ ViewsOf(Views(D, who), {who})
  BY <1>1 DEF Views, ViewsOf
<1>3. ViewsOf(OpenEvents(who), {who})
  BY <1>2 DEF OpenEvents
<1>4. ASSUME NEW e PROVE ViewsOf(OneEvent(e, who), {who}) /\ DOMAIN OneEvent(e, who) \subseteq {e}
  BY <1>2 DEF OneEvent
<1> QED
  BY <1>1, <1>2, <1>3, <1>4

LEMMA FewerIsView ==
    ASSUME NEW x, NEW w, IsView(x, w), NEW y
    PROVE  IsView([x EXCEPT !.left = y], w) /\ IsView([x EXCEPT !.joined = y], w)
<1>1. PICK o, l, m, j : x = ViewOf(o, l, m, j, w)
  BY DEF IsView
<1>2. [x EXCEPT !.left = y] = ViewOf(o, y, m, j, w)
  BY <1>1 DEF ViewOf
<1>3. [x EXCEPT !.joined = y] = ViewOf(o, l, m, y, w)
  BY <1>1 DEF ViewOf
<1> QED
  BY <1>2, <1>3 DEF IsView

LEMMA ViewIsOf == \A x, w : IsView(x, w) => x.of = w
  BY DEF IsView, ViewOf

LEMMA NoViews == \A W : ViewsOf(<<>>, W)
  BY DEF ViewsOf

LEMMA MoreViews ==
    ASSUME NEW events, NEW W, NEW X, ViewsOf(events, W), W \subseteq X
    PROVE  ViewsOf(events, X)
  BY DEF ViewsOf

\* The effects that write into the cache.
LEMMA StoredIs ==
    ASSUME NEW V, NEW c, c \in CacheRow(V), NEW v, NEW given, NEW events, given \in V, events \in V,
           CacheIs(c, v), given # NotStored => ViewsOf(given, {Nobody}), ViewsOf(events, {v, Nobody})
    PROVE  Stored(c, v, given, events) \in CacheRow(V) /\ CacheIs(Stored(c, v, given, events), v)
<1>1. PICK d : d \in CacheRow(V) /\ d = [c EXCEPT !.public = given]
  BY DEF CacheRow
<1>2. d.public = given /\ d.member = c.member
  BY <1>1 DEF CacheRow
<1>3. PICK s : s \in CacheRow(V) /\ s = (IF given # NotStored THEN d ELSE c) /\ CacheIs(s, v)
  BY <1>1, <1>2 DEF CacheIs
<1>4. Stored(c, v, given, events) = s \/ Stored(c, v, given, events) = [s EXCEPT ![Scope(v)] = events]
  BY <1>1, <1>3 DEF Stored
<1>5. CASE Stored(c, v, given, events) = s
  BY <1>3, <1>5
<1>6. CASE v = Nobody /\ Stored(c, v, given, events) = [s EXCEPT ![Scope(v)] = events]
  <2>1. PICK t : t \in CacheRow(V) /\ t = [s EXCEPT !.public = events]
    BY <1>3 DEF CacheRow
  <2>2. t.public = events /\ t.member = s.member
    BY <1>3, <2>1 DEF CacheRow
  <2>3. Stored(c, v, given, events) = t
    BY <1>6, <2>1 DEF Scope
  <2>4. ViewsOf(events, {Nobody})
    <3>1. {v, Nobody} = {Nobody}
      BY <1>6
    <3> QED
      BY <3>1
  <2> QED
    BY <1>3, <2>1, <2>2, <2>3, <2>4 DEF CacheIs
<1>7. CASE v # Nobody /\ Stored(c, v, given, events) = [s EXCEPT ![Scope(v)] = events]
  <2>1. PICK t : t \in CacheRow(V) /\ t = [s EXCEPT !.member = events]
    BY <1>3 DEF CacheRow
  <2>2. t.member = events /\ t.public = s.public
    BY <1>3, <2>1 DEF CacheRow
  <2>3. Stored(c, v, given, events) = t
    BY <1>7, <2>1 DEF Scope
  <2> QED
    BY <1>3, <2>1, <2>2, <2>3 DEF CacheIs
<1> QED
  BY <1>4, <1>5, <1>6, <1>7

-----------------------------------------------------------------------------
\* What steps do to the page.

\* The page keeps its events and its effect.
LEMMA ScreenTouched ==
    ASSUME NEW V, NEW v, NEW sc, NEW c, NEW l, NEW R, NEW A, PagesAre(V, v, sc, c, l, R, A),
           NEW p, p \in ScreenRow(V), p.at = sc.at, p.of = sc.of, p.effect = sc.effect, p.mount = sc.mount,
           p.given = sc.given, p.events = sc.events
    PROVE  PagesAre(V, v, p, c, l, R, A)
<1>1. ScreenIs(p, v)
  BY DEF PagesAre, ScreenIs
<1>2. \A r \in DOMAIN R : ReadIs(R[r], r, p, v, l)
  BY DEF PagesAre, ReadIs
<1>3. \A i \in DOMAIN A : AskIs(A[i], p, v)
  BY DEF PagesAre, AskIs
<1> QED
  BY <1>1, <1>2, <1>3 DEF PagesAre

LEMMA OlderOnes ==
    ASSUME NEW V, NEW v, NEW sc, NEW c, NEW l, NEW R, NEW A, PagesAre(V, v, sc, c, l, R, A)
    PROVE  /\ sc.effect \in Nat /\ \A r \in DOMAIN R : R[r].effect \in Nat /\ R[r].effect <= sc.effect
           /\ sc.mount \in Nat /\ \A i \in DOMAIN A : A[i].mount \in Nat /\ A[i].mount <= sc.mount
<1>1. R \in Seq(ReadRow(V)) /\ A \in Seq(AskRow(V)) /\ sc \in ScreenRow(V)
      /\ (\A r \in DOMAIN R : ReadIs(R[r], r, sc, v, l)) /\ (\A i \in DOMAIN A : AskIs(A[i], sc, v))
  BY DEF PagesAre
<1>2. \A r \in DOMAIN R : R[r] \in ReadRow(V) /\ ReadIs(R[r], r, sc, v, l)
  BY <1>1, SeqIs
<1>3. \A i \in DOMAIN A : A[i] \in AskRow(V) /\ AskIs(A[i], sc, v)
  BY <1>1, SeqIs
<1>4. sc.effect \in Nat /\ sc.mount \in Nat
  BY <1>1 DEF ScreenRow
<1>5. \A r \in DOMAIN R : R[r].effect \in Nat /\ R[r].effect <= sc.effect
  BY <1>2 DEF ReadIs, ReadRow
<1>6. \A i \in DOMAIN A : A[i].mount \in Nat /\ A[i].mount <= sc.mount
  BY <1>3 DEF AskIs, AskRow
<1> QED
  BY <1>4, <1>5, <1>6

\* The page starts another effect.
LEMMA EffectStarts ==
    ASSUME NEW V, NEW v, NEW sc, NEW c, NEW l, NEW R, NEW A, PagesAre(V, v, sc, c, l, R, A),
           NEW p, p \in ScreenRow(V), p.at = sc.at, p.of = sc.of, p.effect = sc.effect + 1, p.mount = sc.mount,
           p.given = sc.given, p.events = sc.events
    PROVE  PagesAre(V, v, p, c, l, R, A)
<1>1. ScreenIs(p, v)
  BY DEF PagesAre, ScreenIs
<1>2. \A r \in DOMAIN R : R[r].effect \in Nat /\ R[r].effect <= sc.effect /\ sc.effect \in Nat
  BY OlderOnes
<1>3. \A r \in DOMAIN R : R[r].effect <= p.effect /\ R[r].effect # p.effect
  BY <1>2
<1>4. \A r \in DOMAIN R : ReadIs(R[r], r, p, v, l)
  BY <1>3 DEF PagesAre, ReadIs
<1>5. \A i \in DOMAIN A : AskIs(A[i], p, v)
  BY DEF PagesAre, AskIs
<1> QED
  BY <1>1, <1>4, <1>5 DEF PagesAre

\* A page is mounted for the viewer w.
LEMMA PageMounts ==
    ASSUME NEW V, NEW v, NEW sc, NEW c, NEW l, NEW R, NEW A, PagesAre(V, v, sc, c, l, R, A),
           NEW w, w \in Whoever, NEW p, p \in ScreenRow(V), p.effect = sc.effect + 1, p.mount = sc.mount + 1,
           ScreenIs(p, w), NEW d, d \in CacheRow(V), CacheIs(d, w),
           NEW m, m \in LatestRow(V), m.read = Len(R), m.events = DOMAIN p.events
    PROVE  PagesAre(V, w, p, d, m, R, A)
<1>1. \A r \in DOMAIN R : R[r].effect \in Nat /\ R[r].effect <= sc.effect /\ sc.effect \in Nat
  BY OlderOnes
<1>2. \A r \in DOMAIN R : R[r].effect <= p.effect /\ R[r].effect # p.effect
  BY <1>1
<1>3. \A r \in DOMAIN R : ReadIs(R[r], r, p, w, m)
  BY <1>2 DEF PagesAre, ReadIs
<1>4. \A i \in DOMAIN A : A[i].mount \in Nat /\ A[i].mount <= sc.mount /\ sc.mount \in Nat
  BY OlderOnes
<1>5. \A i \in DOMAIN A : A[i].mount <= p.mount /\ A[i].mount # p.mount
  BY <1>4
<1>6. \A i \in DOMAIN A : AskIs(A[i], p, w)
  BY <1>5 DEF PagesAre, AskIs
<1>7. Len(R) \in Nat /\ Len(R) <= Len(R)
  BY SeqIs DEF PagesAre
<1> QED
  BY <1>3, <1>6, <1>7 DEF PagesAre

\* The page is left, by the viewer or for another one.
LEMMA PageIsLeft ==
    ASSUME NEW V, NEW v, NEW sc, NEW c, NEW l, NEW R, NEW A, PagesAre(V, v, sc, c, l, R, A),
           NEW w, w \in Whoever, NEW p, p \in ScreenRow(V), p.at = "away", p.effect = sc.effect, p.mount = sc.mount,
           p.events = <<>>, p.given = NotStored,
           NEW d, d \in CacheRow(V), CacheIs(d, w), NEW m, m \in LatestRow(V), m.read = 0 \/ m.read = l.read
    PROVE  PagesAre(V, w, p, d, m, R, A)
<1>1. ScreenIs(p, w)
  BY NoViews DEF ScreenIs
<1>2. \A r \in DOMAIN R : ReadIs(R[r], r, p, w, m)
  BY DEF PagesAre, ReadIs
<1>3. \A i \in DOMAIN A : AskIs(A[i], p, w)
  BY DEF PagesAre, AskIs
<1>4. m.read <= Len(R)
  BY SeqIs DEF PagesAre
<1> QED
  BY <1>1, <1>2, <1>3, <1>4 DEF PagesAre

\* The page shows other events.
LEMMA EventsAreShown ==
    ASSUME NEW V, NEW v, NEW sc, NEW c, NEW l, NEW R, NEW A, PagesAre(V, v, sc, c, l, R, A),
           NEW p, p \in ScreenRow(V), p.at = sc.at, p.of = sc.of, p.effect = sc.effect, p.mount = sc.mount,
           p.given = sc.given, p.at # "away", ViewsOf(p.events, {v, Nobody}),
           p.at = "event" => DOMAIN p.events \subseteq {p.of},
           NEW d, d \in CacheRow(V), CacheIs(d, v),
           NEW m, m \in LatestRow(V), m.read <= Len(R), DOMAIN p.events \subseteq m.events,
           m.read = l.read \/ \A r \in DOMAIN R : R[r].effect = sc.effect => R[r].at = "over"
    PROVE  PagesAre(V, v, p, d, m, R, A)
<1>1. ScreenIs(p, v)
  BY DEF PagesAre, ScreenIs
<1>2. \A r \in DOMAIN R : ReadIs(R[r], r, p, v, m)
  BY DEF PagesAre, ReadIs
<1>3. \A i \in DOMAIN A : AskIs(A[i], p, v)
  BY DEF PagesAre, AskIs
<1> QED
  BY <1>1, <1>2, <1>3 DEF PagesAre

\* One of the reads is at another place.
LEMMA ReadMoves ==
    ASSUME NEW V, NEW v, NEW sc, NEW c, NEW l, NEW R, NEW A, PagesAre(V, v, sc, c, l, R, A),
           NEW r, r \in DOMAIN R, NEW q, q \in ReadRow(V), ReadIs(q, r, sc, v, l),
           q.effect = R[r].effect, q.at # "over" => R[r].at # "over"
    PROVE  PagesAre(V, v, sc, c, l, [R EXCEPT ![r] = q], A)
<1>1. PICK T : T = [R EXCEPT ![r] = q]
  OBVIOUS
<1>2. T \in Seq(ReadRow(V)) /\ Len(T) = Len(R) /\ DOMAIN T = DOMAIN R
      /\ \A j \in DOMAIN R : T[j] = IF j = r THEN q ELSE R[j]
  BY <1>1, SeqSet DEF PagesAre
<1>3. \A j \in DOMAIN T : ReadIs(T[j], j, sc, v, l)
  BY <1>2 DEF PagesAre
<1>4. \A j \in DOMAIN T : T[j].effect = R[j].effect /\ (T[j].at # "over" => R[j].at # "over")
  BY <1>2
<1>5. OneReadAnEffect(T)
  BY <1>2, <1>4 DEF PagesAre, OneReadAnEffect
<1> QED
  BY <1>1, <1>2, <1>3, <1>5 DEF PagesAre

LEMMA FinishedIs ==
    ASSUME NEW V, {<<>>, {}} \subseteq V, NEW q, q \in ReadRow(V)
    PROVE  Finished(q) \in ReadRow(V) /\ Finished(q).effect = q.effect /\ Finished(q).at = "over"
<1>1. Nobody \in Whoever
  BY DEF Whoever
<1>2. PICK f \in ReadRow(V) : f = [q EXCEPT !.at = "over", !.events = <<>>, !.past = {}, !.who = Nobody]
  BY <1>1 DEF ReadRow
<1>3. f.effect = q.effect /\ f.at = "over"
  BY <1>2 DEF ReadRow
<1> QED
  BY <1>2, <1>3 DEF Finished

LEMMA ReadIsOver ==
    ASSUME NEW V, NEW v, NEW sc, NEW c, NEW l, NEW R, NEW A, PagesAre(V, v, sc, c, l, R, A), NEW r, r \in DOMAIN R
    PROVE  PagesAre(V, v, sc, c, l, [R EXCEPT ![r] = Finished(R[r])], A)
<1>1. R[r] \in ReadRow(V) /\ ReadIs(R[r], r, sc, v, l)
  BY SeqIs DEF PagesAre
<1>2. PICK f : f = Finished(R[r])
  OBVIOUS
<1>3. f \in ReadRow(V) /\ f.effect = R[r].effect /\ f.at = "over"
  BY <1>1, <1>2, FinishedIs DEF PagesAre
<1>4. ReadIs(f, r, sc, v, l)
  BY <1>1, <1>3 DEF ReadIs
<1> QED
  BY <1>2, <1>3, <1>4, ReadMoves

\* The document goes, and all its reads.
LEMMA ReadsAreOver ==
    ASSUME NEW V, NEW v, NEW sc, NEW c, NEW l, NEW R, NEW A, PagesAre(V, v, sc, c, l, R, A)
    PROVE  PagesAre(V, v, sc, c, l, [r \in DOMAIN R |-> Finished(R[r])], A)
<1>1. PICK T : T = [r \in DOMAIN R |-> Finished(R[r])]
  OBVIOUS
<1>2. \A r \in DOMAIN R : R[r] \in ReadRow(V) /\ ReadIs(R[r], r, sc, v, l)
  BY SeqIs DEF PagesAre
<1>3. {<<>>, {}} \subseteq V
  BY DEF PagesAre
<1>4. \A r \in DOMAIN R : T[r] \in ReadRow(V) /\ T[r].effect = R[r].effect /\ T[r].at = "over"
  BY <1>1, <1>2, <1>3, FinishedIs
<1>5. T \in [DOMAIN R -> ReadRow(V)]
  BY <1>1, <1>4
<1>6. T \in Seq(ReadRow(V)) /\ Len(T) = Len(R) /\ DOMAIN T = DOMAIN R
  BY <1>5, SeqLike DEF PagesAre
<1>7. \A r \in DOMAIN T : ReadIs(T[r], r, sc, v, l)
  BY <1>2, <1>4, <1>6 DEF ReadIs
<1>8. OneReadAnEffect(T)
  BY <1>4, <1>6 DEF OneReadAnEffect
<1> QED
  BY <1>1, <1>6, <1>7, <1>8 DEF PagesAre

\* One of the questions is at another place.
LEMMA AskMoves ==
    ASSUME NEW V, NEW v, NEW sc, NEW c, NEW l, NEW R, NEW A, PagesAre(V, v, sc, c, l, R, A),
           NEW i, i \in DOMAIN A, NEW a, a \in AskRow(V), AskIs(a, sc, v)
    PROVE  PagesAre(V, v, sc, c, l, R, [A EXCEPT ![i] = a])
<1>1. PICK T : T = [A EXCEPT ![i] = a]
  OBVIOUS
<1>2. T \in Seq(AskRow(V)) /\ DOMAIN T = DOMAIN A
      /\ \A j \in DOMAIN A : T[j] = IF j = i THEN a ELSE A[j]
  BY <1>1, SeqSet DEF PagesAre
<1>3. \A j \in DOMAIN T : AskIs(T[j], sc, v)
  BY <1>2 DEF PagesAre
<1> QED
  BY <1>1, <1>2, <1>3 DEF PagesAre

\* A question is over, or its answer has not come.
LEMMA AskSettles ==
    ASSUME NEW V, NEW v, NEW sc, NEW c, NEW l, NEW R, NEW A, PagesAre(V, v, sc, c, l, R, A),
           NEW i, i \in DOMAIN A, NEW at, at \in {"sent", "cut off", "granted", "over"}
    PROVE  /\ PagesAre(V, v, sc, c, l, R, [A EXCEPT ![i].at = at])
           /\ PagesAre(V, v, sc, c, l, R, [A EXCEPT ![i].at = at, ![i].view = <<>>])
<1>1. A[i] \in AskRow(V) /\ AskIs(A[i], sc, v) /\ A \in [1..Len(A) -> AskRow(V)] /\ <<>> \in V
  BY SeqIs DEF PagesAre
<1>2. PICK x \in AskRow(V) : x = A[i]
  BY <1>1
<1>3. PICK a \in AskRow(V) : a = [x EXCEPT !.at = at]
  BY DEF AskRow
<1>4. a.at = at /\ a.mount = x.mount /\ a.who = x.who /\ a.kind = x.kind /\ a.of = x.of
  BY <1>3 DEF AskRow
<1>5. PICK b \in AskRow(V) : b = [x EXCEPT !.at = at, !.view = <<>>]
  BY <1>1 DEF AskRow
<1>6. b.at = at /\ b.mount = x.mount /\ b.who = x.who /\ b.kind = x.kind /\ b.of = x.of
  BY <1>5 DEF AskRow
<1>7. AskIs(a, sc, v) /\ AskIs(b, sc, v)
  BY <1>1, <1>2, <1>4, <1>6 DEF AskIs
<1>8. [A EXCEPT ![i].at = at] = [A EXCEPT ![i] = a]
  BY <1>2, <1>3
<1>9. [A EXCEPT ![i].at = at, ![i].view = <<>>] = [A EXCEPT ![i] = b]
  BY <1>1, <1>2, <1>5
<1> QED
  BY <1>7, <1>8, <1>9, AskMoves

\* The document goes: what was asked is cut off or over.
LEMMA AsksAreOver ==
    ASSUME NEW V, NEW v, NEW sc, NEW c, NEW l, NEW R, NEW A, PagesAre(V, v, sc, c, l, R, A),
           NEW T, DOMAIN T = DOMAIN A, T = [i \in DOMAIN A |-> T[i]],
           \A i \in DOMAIN A : \E at \in {"cut off", "over"} : T[i] = [A[i] EXCEPT !.at = at]
    PROVE  PagesAre(V, v, sc, c, l, R, T)
<1>1. ASSUME NEW i \in DOMAIN A PROVE T[i] \in AskRow(V) /\ AskIs(T[i], sc, v)
  <2>1. A[i] \in AskRow(V) /\ AskIs(A[i], sc, v)
    BY SeqIs DEF PagesAre
  <2>2. PICK at \in {"cut off", "over"} : T[i] = [A[i] EXCEPT !.at = at]
    OBVIOUS
  <2>3. PICK x \in AskRow(V) : x = A[i]
    BY <2>1
  <2>4. PICK a \in AskRow(V) : a = [x EXCEPT !.at = at]
    BY DEF AskRow
  <2>5. a.at = at /\ a.mount = x.mount /\ a.who = x.who /\ a.kind = x.kind /\ a.of = x.of
    BY <2>4 DEF AskRow
  <2>6. AskIs(a, sc, v)
    BY <2>1, <2>3, <2>5 DEF AskIs
  <2> QED
    BY <2>2, <2>3, <2>4, <2>6
<1>2. T \in [DOMAIN A -> AskRow(V)]
  BY <1>1
<1>3. T \in Seq(AskRow(V)) /\ DOMAIN T = DOMAIN A
  BY <1>2, SeqLike DEF PagesAre
<1> QED
  BY <1>1, <1>3 DEF PagesAre

\* Somebody asks for something.
LEMMA AskBegins ==
    ASSUME NEW V, NEW v, NEW sc, NEW c, NEW l, NEW R, NEW A, PagesAre(V, v, sc, c, l, R, A),
           NEW a, a \in AskRow(V), AskIs(a, sc, v)
    PROVE  PagesAre(V, v, sc, c, l, R, Append(A, a))
<1>1. PICK T : T = Append(A, a)
  OBVIOUS
<1>2. T \in Seq(AskRow(V)) /\ \A j \in DOMAIN T : (j \in DOMAIN A /\ T[j] = A[j]) \/ T[j] = a
  BY <1>1, SeqMore DEF PagesAre
<1>3. \A j \in DOMAIN T : AskIs(T[j], sc, v)
  BY <1>2 DEF PagesAre
<1> QED
  BY <1>1, <1>2, <1>3 DEF PagesAre

\* A read begins, where none of the page's effect is pending.
LEMMA ReadBegins ==
    ASSUME NEW V, NEW v, NEW sc, NEW c, NEW l, NEW R, NEW A, PagesAre(V, v, sc, c, l, R, A), sc.at # "away",
           \A r \in DOMAIN R : R[r].effect = sc.effect => R[r].at = "over",
           NEW q, q \in ReadRow(V), q.effect = sc.effect, q.who = v, q.of = sc.of, q.at = "sent"
    PROVE  PagesAre(V, v, sc, c, l, Append(R, q), A)
<1>1. PICK T : T = Append(R, q)
  OBVIOUS
<1>2. T \in Seq(ReadRow(V)) /\ Len(T) = Len(R) + 1
      /\ \A j \in DOMAIN T : (j \in DOMAIN R /\ T[j] = R[j]) \/ (j = Len(R) + 1 /\ T[j] = q)
  BY <1>1, SeqMore DEF PagesAre
<1>3. Len(R) \in Nat /\ l.read \in Nat /\ l.read <= Len(R) /\ sc.effect \in Nat
  BY SeqIs DEF PagesAre, LatestRow, ScreenRow
<1>4. l.read <= Len(T) /\ l.read < Len(R) + 1 /\ sc.effect <= sc.effect
  BY <1>2, <1>3
<1>5. ReadIs(q, Len(R) + 1, sc, v, l)
  BY <1>4 DEF ReadIs
<1>6. \A j \in DOMAIN T : ReadIs(T[j], j, sc, v, l)
  BY <1>2, <1>5 DEF PagesAre
<1>7. OneReadAnEffect(T)
  BY <1>2 DEF PagesAre, OneReadAnEffect
<1> QED
  BY <1>1, <1>2, <1>4, <1>6, <1>7 DEF PagesAre

-----------------------------------------------------------------------------
\* Mounting and leaving.

LEMMA AwayIs ==
    ASSUME NEW V, {NotStored, NoEvent, <<>>, {}} \subseteq V
    PROVE  Away \in ScreenRow(V)
  BY DEF Away, ScreenRow

LEMMA ListMounts ==
    ASSUME NEW V, PagesAre(V, viewer, screen, cache, latest, reads, asks),
           NEW who, who \in Whoever, NEW given, given \in V, given # NotStored => ViewsOf(given, {Nobody}),
           NEW d, d \in CacheRow(V), CacheIs(d, who), MountsList(given, who, d),
           viewer' = who, UNCHANGED <<reads, asks>>
    PROVE  EventPagesInv'
<1>1. PICK known, events : /\ known = (IF given # NotStored THEN given ELSE d[Scope(who)])
                           /\ events = (IF known # NotStored THEN known ELSE <<>>)
  OBVIOUS
<1>2. d.public \in V /\ d.member \in V /\ (d[Scope(who)] = d.public \/ d[Scope(who)] = d.member)
      /\ (who = Nobody => d[Scope(who)] = d.public)
  BY DEF CacheRow, Scope
<1>3. known \in V /\ events \in V
  BY <1>1, <1>2 DEF PagesAre
<1>4. ViewsOf(events, {who, Nobody})
  <2>1. CASE given # NotStored
    <3>1. {Nobody} \subseteq {who, Nobody}
      OBVIOUS
    <3> QED
      BY <1>1, <2>1, <3>1, MoreViews
  <2>2. CASE given = NotStored
    <3>1. {Nobody} \subseteq {who, Nobody}
      OBVIOUS
    <3>2. d[Scope(who)] # NotStored => ViewsOf(d[Scope(who)], {who, Nobody})
      BY <1>2, <3>1, MoreViews DEF CacheIs
    <3> QED
      BY <1>1, <2>2, <3>2, NoViews
  <2> QED
    BY <2>1, <2>2
<1>5. PICK T : T = V \cup {Event, DOMAIN events}
  OBVIOUS
<1>6. PagesAre(T, viewer, screen, cache, latest, reads, asks)
  BY <1>5, Wider
<1>7. PICK e, m : e = screen.effect + 1 /\ m = screen.mount + 1 /\ e \in Nat /\ m \in Nat
  BY <1>6, OlderOnes
<1>8. PICK w \in ScreenRow(T) : w = Away
  BY <1>6, AwayIs DEF PagesAre
<1>9. PICK b \in BOOLEAN : b = (known = NotStored)
  OBVIOUS
<1>10. PICK p \in ScreenRow(T) : p = [w EXCEPT !.at = "list", !.effect = e, !.mount = m, !.given = given,
                                              !.events = events, !.lets = Event, !.loading = b]
  BY <1>3, <1>5, <1>7 DEF ScreenRow
<1>11. p.at = "list" /\ p.effect = e /\ p.mount = m /\ p.given = given /\ p.events = events
  BY <1>10 DEF ScreenRow
<1>12. PICK n \in LatestRow(T) : n = [read |-> Len(reads), events |-> DOMAIN events]
  BY <1>5, <1>6, SeqIs DEF PagesAre, LatestRow
<1>13. screen' = p /\ cache' = Stored(d, who, given, events) /\ latest' = n
  BY <1>1, <1>7, <1>8, <1>9, <1>10, <1>12 DEF MountsList
<1>14. PICK s : s = Stored(d, who, given, events) /\ s \in CacheRow(V) /\ CacheIs(s, who)
  BY <1>3, <1>4, StoredIs
<1>15. s \in CacheRow(T)
  BY <1>5, <1>14 DEF CacheRow
<1>16. ScreenIs(p, who)
  BY <1>4, <1>11 DEF ScreenIs
<1>17. n.read = Len(reads) /\ n.events = DOMAIN p.events
  BY <1>11, <1>12
<1>18. PagesAre(T, who, p, s, n, reads, asks)
  BY <1>6, <1>7, <1>11, <1>14, <1>15, <1>16, <1>17, PageMounts
<1> QED
  BY <1>13, <1>14, <1>18 DEF EventPagesInv

LEMMA EventMounts ==
    ASSUME NEW V, PagesAre(V, viewer, screen, cache, latest, reads, asks),
           NEW who, who \in Whoever, NEW of, of \in V, of # NoEvent, NEW given, given \in V,
           given # NotStored => ViewsOf(given, {Nobody}) /\ DOMAIN given \subseteq {of},
           NEW d, d \in CacheRow(V), CacheIs(d, who), MountsEvent(of, given, who, d),
           viewer' = who, UNCHANGED <<reads, asks>>
    PROVE  EventPagesInv'
<1>1. PICK events : events = (IF given # NotStored THEN given ELSE <<>>)
  OBVIOUS
<1>2. events \in V
  BY <1>1 DEF PagesAre
<1>3. {Nobody} \subseteq {who, Nobody}
  OBVIOUS
<1>4. ViewsOf(events, {who, Nobody}) /\ DOMAIN events \subseteq {of}
  BY <1>1, <1>3, MoreViews, NoViews
<1>5. PICK T : T = V \cup {DOMAIN events}
  OBVIOUS
<1>6. PagesAre(T, viewer, screen, cache, latest, reads, asks)
  BY <1>5, Wider
<1>7. PICK e, m : e = screen.effect + 1 /\ m = screen.mount + 1 /\ e \in Nat /\ m \in Nat
  BY <1>6, OlderOnes
<1>8. PICK w \in ScreenRow(T) : w = Away
  BY <1>6, AwayIs DEF PagesAre
<1>9. PICK b \in BOOLEAN : b = (who # Nobody)
  OBVIOUS
<1>10. PICK p \in ScreenRow(T) : p = [w EXCEPT !.at = "event", !.of = of, !.effect = e, !.mount = m,
                                              !.given = given, !.events = events, !.loading = b]
  BY <1>2, <1>5, <1>7 DEF ScreenRow
<1>11. p.at = "event" /\ p.of = of /\ p.effect = e /\ p.mount = m /\ p.given = given /\ p.events = events
  BY <1>10 DEF ScreenRow
<1>12. PICK n \in LatestRow(T) : n = [read |-> Len(reads), events |-> DOMAIN events]
  BY <1>5, <1>6, SeqIs DEF PagesAre, LatestRow
<1>13. screen' = p /\ cache' = d /\ latest' = n
  BY <1>1, <1>7, <1>8, <1>9, <1>10, <1>12 DEF MountsEvent
<1>14. d \in CacheRow(T)
  BY <1>5 DEF CacheRow
<1>15. ScreenIs(p, who)
  BY <1>4, <1>11 DEF ScreenIs
<1>16. n.read = Len(reads) /\ n.events = DOMAIN p.events
  BY <1>11, <1>12
<1>17. PagesAre(T, who, p, d, n, reads, asks)
  BY <1>6, <1>7, <1>11, <1>14, <1>15, <1>16, PageMounts
<1> QED
  BY <1>13, <1>17 DEF EventPagesInv

\* The page that is away keeps its effect and its mount.
LEMMA AwayPage ==
    ASSUME NEW V, PagesAre(V, viewer, screen, cache, latest, reads, asks)
    PROVE  \E p \in ScreenRow(V) :
              /\ p = [Away EXCEPT !.effect = screen.effect, !.mount = screen.mount]
              /\ p.at = "away" /\ p.effect = screen.effect /\ p.mount = screen.mount
              /\ p.events = <<>> /\ p.given = NotStored
<1>1. PICK e \in Nat, m \in Nat : e = screen.effect /\ m = screen.mount
  BY OlderOnes
<1>2. PICK w \in ScreenRow(V) : w = Away
  BY AwayIs DEF PagesAre
<1>3. PICK p \in ScreenRow(V) : p = [w EXCEPT !.effect = e, !.mount = m]
  BY DEF ScreenRow
<1>4. w.at = "away" /\ w.events = <<>> /\ w.given = NotStored
  BY <1>2 DEF Away
<1>5. p.at = "away" /\ p.effect = e /\ p.mount = m /\ p.events = <<>> /\ p.given = NotStored
  BY <1>3, <1>4 DEF ScreenRow
<1> QED
  BY <1>1, <1>2, <1>3, <1>5

LEMMA DocumentIsGone ==
    ASSUME NEW V, PagesAre(V, viewer, screen, cache, latest, reads, asks), NEW restores \in BOOLEAN,
           DocumentGoes(restores), UNCHANGED <<viewer, latest>>
    PROVE  PagesAre(V, viewer', screen', cache', latest', reads', asks)
<1>1. PICK p \in ScreenRow(V) :
         /\ p = [Away EXCEPT !.effect = screen.effect, !.mount = screen.mount]
         /\ p.at = "away" /\ p.effect = screen.effect /\ p.mount = screen.mount
         /\ p.events = <<>> /\ p.given = NotStored
  BY AwayPage
<1>2. cache \in CacheRow(V) /\ NotStored \in V /\ viewer \in Whoever /\ latest \in LatestRow(V)
      /\ CacheIs(cache, viewer)
  BY DEF PagesAre
<1>3. PICK q : q = (IF restores THEN cache.public ELSE NotStored) /\ q \in V
               /\ (q # NotStored => ViewsOf(q, {Nobody}))
  BY <1>2 DEF CacheRow, CacheIs
<1>4. PICK d \in CacheRow(V) : d = [public |-> q, member |-> NotStored]
  BY <1>2, <1>3 DEF CacheRow
<1>5. CacheIs(d, viewer)
  BY <1>3, <1>4 DEF CacheIs
<1>6. PagesAre(V, viewer, p, d, latest, reads, asks)
  <2>1. p \in ScreenRow(V) /\ p.at = "away" /\ p.effect = screen.effect /\ p.mount = screen.mount
        /\ p.events = <<>> /\ p.given = NotStored
    BY <1>1
  <2>2. d \in CacheRow(V) /\ CacheIs(d, viewer) /\ viewer \in Whoever /\ latest \in LatestRow(V)
    BY <1>2, <1>5
  <2> QED
    BY <2>1, <2>2, PageIsLeft
<1>7. PagesAre(V, viewer, p, d, latest, [r \in DOMAIN reads |-> Finished(reads[r])], asks)
  BY <1>6, ReadsAreOver
<1>8. screen' = p /\ cache' = d /\ reads' = [r \in DOMAIN reads |-> Finished(reads[r])]
  BY <1>1, <1>3, <1>4 DEF DocumentGoes
<1> QED
  BY <1>7, <1>8

-----------------------------------------------------------------------------
\* The invariant.

LEMMA EventPagesStart == EventPagesInit => EventPagesInv
<1> SUFFICES ASSUME EventPagesInit PROVE EventPagesInv
  OBVIOUS
<1>1. PICK V : V = {NotStored, NoEvent, <<>>, {}}
  OBVIOUS
<1>2. screen \in ScreenRow(V) /\ screen.at = "away" /\ screen.events = <<>> /\ screen.given = NotStored
  BY <1>1, AwayIs DEF EventPagesInit, Away
<1>3. cache \in CacheRow(V) /\ latest \in LatestRow(V) /\ viewer \in Whoever
  BY <1>1 DEF EventPagesInit, CacheRow, LatestRow, Whoever
<1>4. reads = <<>> /\ asks = <<>> /\ reads \in Seq(ReadRow(V)) /\ asks \in Seq(AskRow(V))
  BY DEF EventPagesInit
<1>5. ScreenIs(screen, viewer) /\ CacheIs(cache, viewer)
  BY <1>2, NoViews DEF ScreenIs, CacheIs, EventPagesInit
<1>6. latest.read <= Len(reads) /\ DOMAIN reads = {} /\ DOMAIN asks = {}
  BY <1>4 DEF EventPagesInit
<1>7. PagesAre(V, viewer, screen, cache, latest, reads, asks)
  BY <1>1, <1>2, <1>3, <1>4, <1>5, <1>6 DEF PagesAre, OneReadAnEffect
<1> QED
  BY <1>7 DEF EventPagesInv

LEMMA EventPagesStep == EventPagesInv /\ [EventPagesNext]_eventPageVars => EventPagesInv'
<1> SUFFICES ASSUME EventPagesInv, [EventPagesNext]_eventPageVars PROVE EventPagesInv'
  OBVIOUS
<1>v. PICK V : PagesAre(V, viewer, screen, cache, latest, reads, asks)
  BY DEF EventPagesInv
<1>t. /\ {NotStored, NoEvent, <<>>, {}} \subseteq V /\ viewer \in Whoever
      /\ screen \in ScreenRow(V) /\ cache \in CacheRow(V) /\ latest \in LatestRow(V)
      /\ reads \in Seq(ReadRow(V)) /\ asks \in Seq(AskRow(V))
  BY <1>v DEF PagesAre
<1>p. ScreenIs(screen, viewer) /\ CacheIs(cache, viewer)
  BY <1>v DEF PagesAre
<1>s. screen.given \in V /\ screen.events \in V /\ screen.of \in V
  BY <1>t DEF ScreenRow
<1>r. \A r \in DOMAIN reads : reads[r] \in ReadRow(V) /\ ReadIs(reads[r], r, screen, viewer, latest)
  BY <1>v, <1>t, SeqIs DEF PagesAre
<1>a. \A i \in DOMAIN asks : asks[i] \in AskRow(V) /\ AskIs(asks[i], screen, viewer)
  BY <1>v, <1>t, SeqIs DEF PagesAre
\* Steps that leave all this alone.
<1>0. ASSUME UNCHANGED <<viewer, screen, cache, latest, reads, asks>> PROVE EventPagesInv'
  <2>1. PagesAre(V, viewer', screen', cache', latest', reads', asks')
    BY <1>0, <1>v
  <2> QED
    BY <2>1 DEF EventPagesInv
\* Steps after which the page is in V as before.
<1>1. ASSUME NEW T, PagesAre(T, viewer', screen', cache', latest', reads', asks') PROVE EventPagesInv'
  BY <1>1 DEF EventPagesInv
<1>2. CASE UNCHANGED eventPageVars
  BY <1>0, <1>2 DEF eventPageVars
<1>3. ASSUME NEW served \in BOOLEAN, OpensList(served) PROVE EventPagesInv'
  <2>1. PICK given : given = IF served THEN OpenEvents(Nobody) ELSE NotStored
    OBVIOUS
  <2>2. PICK T : T = V \cup {given}
    OBVIOUS
  <2>3. PagesAre(T, viewer, screen, cache, latest, reads, asks)
    BY <1>v, <2>2, Wider
  <2>4. given # NotStored => ViewsOf(given, {Nobody})
    BY <2>1, ViewsAre
  <2>5. cache \in CacheRow(T) /\ given \in T
    BY <2>2, <2>3 DEF PagesAre
  <2>6. MountsList(given, viewer, cache) /\ viewer' = viewer /\ UNCHANGED <<reads, asks>>
    BY <1>3, <2>1 DEF OpensList
  <2> QED
    BY <1>t, <1>p, <2>3, <2>4, <2>5, <2>6, ListMounts
<1>4. ASSUME NEW e \in Event, NEW served \in BOOLEAN, OpensEvent(e, served) PROVE EventPagesInv'
  <2>1. PICK given : given = IF served THEN OneEvent(e, Nobody) ELSE NotStored
    OBVIOUS
  <2>2. PICK T : T = V \cup {given, e}
    OBVIOUS
  <2>3. PagesAre(T, viewer, screen, cache, latest, reads, asks)
    BY <1>v, <2>2, Wider
  <2>4. given # NotStored => ViewsOf(given, {Nobody}) /\ DOMAIN given \subseteq {e}
    BY <2>1, ViewsAre
  <2>5. cache \in CacheRow(T) /\ given \in T /\ e \in T /\ e # NoEvent
    BY <2>2, <2>3, EventPagesAssumption DEF PagesAre
  <2>6. MountsEvent(e, given, viewer, cache) /\ viewer' = viewer /\ UNCHANGED <<reads, asks>>
    BY <1>4, <2>1 DEF OpensEvent
  <2> QED
    BY <1>t, <1>p, <2>3, <2>4, <2>5, <2>6, EventMounts
<1>5. ASSUME NEW served \in BOOLEAN, Reloads(served) PROVE EventPagesInv'
  <2>1. DocumentGoes(served) /\ UNCHANGED <<viewer, latest>>
        /\ asks' = [a \in DOMAIN asks |-> [asks[a] EXCEPT !.at = IF @ = "sent" THEN "cut off" ELSE "over"]]
    BY <1>5 DEF Reloads
  <2>2. PagesAre(V, viewer', screen', cache', latest', reads', asks)
    BY <1>v, <2>1, DocumentIsGone
  <2>3. PICK T : T = asks'
    OBVIOUS
  <2>4. DOMAIN T = DOMAIN asks /\ T = [i \in DOMAIN asks |-> T[i]]
    BY <2>1, <2>3
  <2>5. \A i \in DOMAIN asks : \E at \in {"cut off", "over"} : T[i] = [asks[i] EXCEPT !.at = at]
    BY <2>1, <2>3
  <2>6. PagesAre(V, viewer', screen', cache', latest', reads', T)
    BY <2>2, <2>4, <2>5, AsksAreOver
  <2> QED
    BY <1>1, <2>3, <2>6
<1>6. PICK p \in ScreenRow(V) :
         /\ p = [Away EXCEPT !.effect = screen.effect, !.mount = screen.mount]
         /\ p.at = "away" /\ p.effect = screen.effect /\ p.mount = screen.mount
         /\ p.events = <<>> /\ p.given = NotStored
  BY <1>v, AwayPage
<1>7. p \in ScreenRow(V) /\ p.at = "away" /\ p.effect = screen.effect /\ p.mount = screen.mount
      /\ p.events = <<>> /\ p.given = NotStored
  BY <1>6
<1>8. CASE LeavesEvents
  <2>1. PICK m \in LatestRow(V) : m = [read |-> 0, events |-> {}] /\ m.read = 0
    <3>1. {} \in V
      BY <1>t
    <3>2. [read |-> 0, events |-> {}] \in LatestRow(V) /\ [read |-> 0, events |-> {}].read = 0
      BY <3>1 DEF LatestRow
    <3> QED
      BY <3>2
  <2>2. PagesAre(V, viewer, p, cache, m, reads, asks)
    BY <1>v, <1>t, <1>p, <1>7, <2>1, PageIsLeft
  <2>3. screen' = p /\ latest' = m /\ UNCHANGED <<viewer, cache, reads, asks>>
    BY <1>6, <1>8, <2>1 DEF LeavesEvents
  <2> QED
    BY <1>1, <2>2, <2>3
<1>9. ASSUME NEW who \in Whoever, ViewerChanges(who) PROVE EventPagesInv'
  <2>1. PICK d \in CacheRow(V) : d = Reconciled(cache) /\ d.public = cache.public /\ d.member = NotStored
    <3>1. NotStored \in V
      BY <1>t
    <3>2. PICK c \in CacheRow(V) : c = cache
      BY <1>t
    <3>3. PICK d \in CacheRow(V) : d = [c EXCEPT !.member = NotStored]
      BY <3>1 DEF CacheRow
    <3>4. d.public = c.public /\ d.member = NotStored
      BY <3>3 DEF CacheRow
    <3> QED
      BY <3>2, <3>3, <3>4 DEF Reconciled
  <2>2. d \in CacheRow(V) /\ CacheIs(d, who)
    BY <1>p, <2>1 DEF CacheIs
  <2>3. viewer' = who /\ UNCHANGED <<reads, asks>>
    BY <1>9 DEF ViewerChanges
  <2>4. CASE screen.at = "list"
    <3>1. MountsList(screen.given, who, d)
      BY <1>9, <2>1, <2>4 DEF ViewerChanges
    <3>2. screen.given # NotStored => ViewsOf(screen.given, {Nobody})
      BY <1>p DEF ScreenIs
    <3> QED
      BY <1>v, <1>s, <2>2, <2>3, <3>1, <3>2, ListMounts
  <2>5. CASE screen.at = "event"
    <3>1. MountsEvent(screen.of, screen.given, who, d)
      BY <1>9, <2>1, <2>5 DEF ViewerChanges
    <3>2. screen.of # NoEvent
          /\ (screen.given # NotStored => ViewsOf(screen.given, {Nobody}) /\ DOMAIN screen.given \subseteq {screen.of})
      BY <1>p, <2>5 DEF ScreenIs
    <3> QED
      BY <1>v, <1>s, <2>2, <2>3, <3>1, <3>2, EventMounts
  <2>6. CASE screen.at = "away"
    <3>1. cache' = d /\ UNCHANGED <<screen, latest>>
      BY <1>9, <2>1, <2>6 DEF ViewerChanges
    <3>2. screen.events = <<>> /\ screen.given = NotStored
      BY <1>p, <2>6 DEF ScreenIs
    <3>3. PagesAre(V, who, screen, d, latest, reads, asks)
      BY <1>v, <1>t, <2>2, <2>6, <3>2, PageIsLeft
    <3> QED
      BY <1>1, <2>3, <3>1, <3>3
  <2>7. screen.at \in {"list", "event", "away"}
    BY <1>t DEF ScreenRow
  <2> QED
    BY <2>4, <2>5, <2>6, <2>7
<1>10. CASE TokenIsRenewed
  <2>1. PICK e \in Nat : e = screen.effect + 1
    BY <1>v, OlderOnes
  <2>2. PICK w \in ScreenRow(V), b \in BOOLEAN : w = screen /\ b = (screen.loading \/ screen.at = "event")
    BY <1>t
  <2>3. PICK q \in ScreenRow(V) : q = [w EXCEPT !.effect = e, !.loading = b]
    BY DEF ScreenRow
  <2>4. q.at = w.at /\ q.of = w.of /\ q.effect = e /\ q.mount = w.mount /\ q.given = w.given /\ q.events = w.events
    BY <2>3 DEF ScreenRow
  <2>5. screen' = q /\ UNCHANGED <<viewer, cache, latest, reads, asks>>
    BY <1>10, <2>1, <2>2, <2>3 DEF TokenIsRenewed
  <2>6. PagesAre(V, viewer, q, cache, latest, reads, asks)
    BY <1>v, <2>1, <2>2, <2>4, EffectStarts
  <2> QED
    BY <1>1, <2>5, <2>6
<1>11. CASE ReadStarts
  <2>1. screen.at # "away" /\ \A r \in DOMAIN reads : reads[r].effect = screen.effect => reads[r].at = "over"
    BY <1>11 DEF ReadStarts, ReadPending
  <2>2. PICK e \in Nat : e = screen.effect
    BY <1>v, OlderOnes
  <2>3. PICK q \in ReadRow(V) : q = [effect |-> e, who |-> viewer, of |-> screen.of, at |-> "sent",
                                     events |-> <<>>, past |-> {}]
    BY <1>s, <1>t DEF ReadRow
  <2>4. q.effect = screen.effect /\ q.who = viewer /\ q.of = screen.of /\ q.at = "sent"
    BY <2>2, <2>3
  <2>5. reads' = Append(reads, q) /\ UNCHANGED <<viewer, screen, cache, latest, asks>>
    BY <1>11, <2>2, <2>3 DEF ReadStarts
  <2>6. PagesAre(V, viewer, screen, cache, latest, Append(reads, q), asks)
    BY <1>v, <2>1, <2>4, ReadBegins
  <2> QED
    BY <1>1, <2>5, <2>6
<1>12. ASSUME NEW r \in DOMAIN reads, ReadRuns(r) PROVE EventPagesInv'
  <2>1. PICK events, past : /\ events = (IF reads[r].of = NoEvent THEN OpenEvents(reads[r].who)
                                         ELSE OneEvent(reads[r].of, reads[r].who))
                            /\ past = (IF reads[r].of = NoEvent THEN DOMAIN PastEvents(reads[r].who) ELSE {})
    OBVIOUS
  <2>2. PICK T : T = V \cup {events, past}
    OBVIOUS
  <2>3. PagesAre(T, viewer, screen, cache, latest, reads, asks)
    BY <1>v, <2>2, Wider
  <2>4. reads \in Seq(ReadRow(T))
    BY <2>3 DEF PagesAre
  <2>5. PICK x \in ReadRow(T) : x = reads[r]
    BY <2>4, SeqIs
  <2>6. PICK q \in ReadRow(T) : q = [x EXCEPT !.at = "answered", !.events = events, !.past = past]
    BY <2>2 DEF ReadRow
  <2>7. q.effect = x.effect /\ q.who = x.who /\ q.of = x.of /\ q.at = "answered" /\ q.events = events
    BY <2>6 DEF ReadRow
  <2>8. x.at = "sent" /\ UNCHANGED <<viewer, screen, cache, latest, asks>>
    BY <1>12, <2>5 DEF ReadRuns
  <2>9. ViewsOf(events, {x.who}) /\ (x.of # NoEvent => DOMAIN events \subseteq {x.of})
    BY <2>1, <2>5, ViewsAre
  <2>10. ReadIs(q, r, screen, viewer, latest)
    BY <1>r, <2>5, <2>7, <2>8, <2>9 DEF ReadIs
  <2>11. reads \in [1..Len(reads) -> ReadRow(T)] /\ DOMAIN reads = 1..Len(reads)
    BY <2>4, SeqIs
  <2>12. reads' = [reads EXCEPT ![r] = q]
    BY <1>12, <2>1, <2>5, <2>6, <2>11 DEF ReadRuns
  <2>13. PagesAre(T, viewer, screen, cache, latest, [reads EXCEPT ![r] = q], asks)
    BY <2>3, <2>5, <2>7, <2>8, <2>10, ReadMoves
  <2> QED
    BY <1>1, <2>8, <2>12, <2>13
<1>13. ASSUME NEW r \in DOMAIN reads, ReadArrives(r) PROVE EventPagesInv'
  <2>1. PICK x \in ReadRow(V) : x = reads[r] /\ ReadIs(x, r, screen, viewer, latest)
    BY <1>r
  <2>2. PICK S : S = [reads EXCEPT ![r] = Finished(reads[r])]
    OBVIOUS
  <2>3. PICK T : T = V \cup {DOMAIN x.events}
    OBVIOUS
  <2>4. PagesAre(T, viewer, screen, cache, latest, S, asks)
    <3>1. PagesAre(T, viewer, screen, cache, latest, reads, asks)
      BY <1>v, <2>3, Wider
    <3> QED
      BY <2>2, <3>1, ReadIsOver
  <2>5. x.at = "answered" /\ reads' = S /\ UNCHANGED <<viewer, asks>>
    BY <1>13, <2>1, <2>2 DEF ReadArrives
  <2>6. CASE ~IsCurrent(r)
    <3>1. UNCHANGED <<screen, cache, latest>>
      BY <1>13, <2>6 DEF ReadArrives
    <3> QED
      BY <1>1, <2>4, <2>5, <3>1
  <2>7. CASE IsCurrent(r)
    <3>1. screen.at # "away" /\ x.effect = screen.effect
      BY <2>1, <2>7 DEF IsCurrent
    <3>2. x.who = viewer /\ x.of = screen.of /\ latest.read < r
          /\ ViewsOf(x.events, {x.who}) /\ (x.of # NoEvent => DOMAIN x.events \subseteq {x.of})
      BY <2>1, <2>5, <3>1 DEF ReadIs
    <3>3. PICK w \in ScreenRow(T) : w = screen
      BY <2>4 DEF PagesAre
    <3>4. PICK events, past : events = x.events /\ past = x.past /\ events \in T /\ past \in T
      BY <2>3 DEF ReadRow
    <3>5. PICK q \in ScreenRow(T) : q = [w EXCEPT !.events = events, !.past = past, !.loading = FALSE]
      BY <3>4 DEF ScreenRow
    <3>6. q.at = w.at /\ q.of = w.of /\ q.effect = w.effect /\ q.mount = w.mount /\ q.given = w.given
          /\ q.events = events
      BY <3>5 DEF ScreenRow
    <3>7. ViewsOf(events, {viewer, Nobody})
      <4>1. {x.who} \subseteq {viewer, Nobody}
        BY <3>2
      <4> QED
        BY <3>2, <3>4, <4>1, MoreViews
    <3>8. q.at = "event" => DOMAIN q.events \subseteq {q.of}
      BY <1>p, <3>2, <3>3, <3>4, <3>6 DEF ScreenIs
    <3>9. PICK n \in LatestRow(T) : n = [read |-> r, events |-> DOMAIN events] /\ n.read = r /\ n.events = DOMAIN events
      <4>1. r \in Nat
        BY <1>t, SeqIs
      <4>2. PICK D \in T : D = DOMAIN events
        BY <2>3, <3>4
      <4>3. [read |-> r, events |-> D] \in LatestRow(T)
        BY <4>1 DEF LatestRow
      <4> QED
        BY <4>2, <4>3
    <3>10. screen' = q /\ latest' = n
           /\ cache' = IF screen.at = "list" THEN [cache EXCEPT ![Scope(viewer)] = events] ELSE cache
      BY <1>13, <2>1, <2>7, <3>2, <3>3, <3>4, <3>5, <3>9 DEF ReadArrives
    <3>11. PICK d \in CacheRow(T) : d = cache
      BY <2>4 DEF PagesAre
    <3>12. CacheIs(d, viewer)
      BY <1>p, <3>11
    <3>13. PICK b : b \in CacheRow(T) /\ CacheIs(b, viewer) /\ cache' = b
      <4>1. CASE viewer = Nobody /\ screen.at = "list"
        <5>1. PICK b \in CacheRow(T) : b = [d EXCEPT !.public = events]
          BY <3>4 DEF CacheRow
        <5>2. b.public = events /\ b.member = d.member
          BY <5>1 DEF CacheRow
        <5>3. {viewer, Nobody} = {Nobody}
          BY <4>1
        <5>4. CacheIs(b, viewer)
          BY <3>7, <3>12, <5>2, <5>3 DEF CacheIs
        <5> QED
          BY <3>10, <3>11, <4>1, <5>1, <5>4 DEF Scope
      <4>2. CASE viewer # Nobody /\ screen.at = "list"
        <5>1. PICK b \in CacheRow(T) : b = [d EXCEPT !.member = events]
          BY <3>4 DEF CacheRow
        <5>2. b.member = events /\ b.public = d.public
          BY <5>1 DEF CacheRow
        <5>3. CacheIs(b, viewer)
          BY <3>7, <3>12, <5>2 DEF CacheIs
        <5> QED
          BY <3>10, <3>11, <4>2, <5>1, <5>3 DEF Scope
      <4>3. CASE screen.at # "list"
        BY <3>10, <3>11, <3>12, <4>3
      <4> QED
        BY <4>1, <4>2, <4>3
    <3>14. r \in 1..Len(S) /\ Len(S) \in Nat
      <4>1. DOMAIN S = DOMAIN reads /\ S \in Seq(ReadRow(T))
        BY <2>2, <2>4 DEF PagesAre
      <4> QED
        BY <4>1, SeqIs
    <3>15. \A j \in DOMAIN S : S[j].effect = screen.effect => S[j].at = "over"
      <4>1. \A j \in DOMAIN reads : j # r /\ reads[j].effect = x.effect => reads[j].at = "over"
        BY <1>v, <2>1, <2>5 DEF PagesAre, OneReadAnEffect
      <4>2. PICK f : f = Finished(reads[r]) /\ f.at = "over"
        BY <1>t, <2>1, FinishedIs
      <4>3. DOMAIN S = DOMAIN reads /\ \A j \in DOMAIN reads : S[j] = IF j = r THEN f ELSE reads[j]
        BY <2>2, <4>2
      <4> QED
        BY <3>1, <4>1, <4>2, <4>3
    <3>16. n.read <= Len(S) /\ DOMAIN q.events \subseteq n.events /\ q.at # "away" /\ q.effect = screen.effect
      BY <3>1, <3>3, <3>6, <3>9, <3>14
    <3>17. PagesAre(T, viewer, q, b, n, S, asks)
      BY <2>4, <3>3, <3>6, <3>7, <3>8, <3>13, <3>15, <3>16, EventsAreShown
    <3> QED
      BY <1>1, <2>5, <3>10, <3>13, <3>17
  <2> QED
    BY <2>6, <2>7
<1>14. ASSUME NEW r \in DOMAIN reads, ReadFails(r) PROVE EventPagesInv'
  <2>1. PICK w \in ScreenRow(V) : w = screen
    BY <1>t
  <2>2. PICK q \in ScreenRow(V) : q = [w EXCEPT !.loading = FALSE]
    BY DEF ScreenRow
  <2>3. q.at = w.at /\ q.of = w.of /\ q.effect = w.effect /\ q.mount = w.mount /\ q.given = w.given
        /\ q.events = w.events
    BY <2>2 DEF ScreenRow
  <2>4. reads' = [reads EXCEPT ![r] = Finished(reads[r])] /\ (screen' = q \/ screen' = screen)
        /\ UNCHANGED <<viewer, cache, latest, asks>>
    BY <1>14, <2>1, <2>2 DEF ReadFails
  <2>5. PICK S : S = [reads EXCEPT ![r] = Finished(reads[r])]
    OBVIOUS
  <2>6. PagesAre(V, viewer, screen, cache, latest, S, asks)
    BY <1>v, <2>5, ReadIsOver
  <2>7. PagesAre(V, viewer, q, cache, latest, S, asks)
    BY <2>1, <2>3, <2>6, ScreenTouched
  <2> QED
    BY <1>1, <2>4, <2>5, <2>6, <2>7
<1>15. ASSUME NEW lets \in SUBSET Event, FiltersEvents(lets) PROVE EventPagesInv'
  <2>1. PICK T : T = V \cup {lets}
    OBVIOUS
  <2>2. PagesAre(T, viewer, screen, cache, latest, reads, asks)
    BY <1>v, <2>1, Wider
  <2>3. PICK w \in ScreenRow(T) : w = screen
    BY <2>2 DEF PagesAre
  <2>4. PICK q \in ScreenRow(T) : q = [w EXCEPT !.lets = lets]
    BY <2>1 DEF ScreenRow
  <2>5. q.at = w.at /\ q.of = w.of /\ q.effect = w.effect /\ q.mount = w.mount /\ q.given = w.given
        /\ q.events = w.events
    BY <2>4 DEF ScreenRow
  <2>6. PagesAre(T, viewer, q, cache, latest, reads, asks)
    BY <2>2, <2>3, <2>5, ScreenTouched
  <2>7. screen' = q /\ UNCHANGED <<viewer, cache, latest, reads, asks>>
    BY <1>15, <2>3, <2>4 DEF FiltersEvents
  <2> QED
    BY <1>1, <2>6, <2>7
<1>16. CASE SwitchesHistory
  <2>1. PICK w \in ScreenRow(V) : w = screen
    BY <1>t
  <2>2. PICK mode \in {"events", "history"} : mode = IF w.mode = "events" THEN "history" ELSE "events"
    OBVIOUS
  <2>3. PICK q \in ScreenRow(V) : q = [w EXCEPT !.mode = mode]
    BY DEF ScreenRow
  <2>4. q.at = w.at /\ q.of = w.of /\ q.effect = w.effect /\ q.mount = w.mount /\ q.given = w.given
        /\ q.events = w.events
    BY <2>3 DEF ScreenRow
  <2>5. PagesAre(V, viewer, q, cache, latest, reads, asks)
    BY <1>v, <2>1, <2>4, ScreenTouched
  <2>6. screen' = q /\ UNCHANGED <<viewer, cache, latest, reads, asks>>
    BY <1>16, <2>1, <2>2, <2>3 DEF SwitchesHistory
  <2> QED
    BY <1>1, <2>5, <2>6
<1>17. ASSUME \/ \E e \in Event : OpensDialog(e)
              \/ \E t \in EventTier : ChoosesTier(t)
              \/ \E n \in 1..Limit : ChoosesQuantity(n)
              \/ ClosesDialog \/ GuestIsSentToLogIn \/ GuestStartsAgain
              \/ \E e \in Event : \/ \E status \in {"open", "draft", "cancelled", "over"} : EventTurns(e, status)
                                  \/ \E t \in EventTier : TierTurns(e, t)
       PROVE  EventPagesInv'
  BY <1>0, <1>17 DEF OpensDialog, ChoosesTier, ChoosesQuantity, ClosesDialog, GuestIsSentToLogIn, GuestStartsAgain,
                     EventTurns, TierTurns
\* Somebody asks.
<1>18. ASSUME NEW kind \in {"book", "code", "confirm", "join"}, NEW e, NEW t, NEW n,
              kind = "book" /\ screen.at = "event" => e = screen.of, NEW T, T = V \cup {e, t, n}
       PROVE  PagesAre(T, viewer, screen, cache, latest, reads, Append(asks, Asked(kind, e, t, n)))
  <2>1. PagesAre(T, viewer, screen, cache, latest, reads, asks)
    BY <1>v, <1>18, Wider
  <2>2. PICK m \in Nat : m = screen.mount
    BY <1>v, OlderOnes
  <2>3. <<>> \in T /\ e \in T /\ t \in T /\ n \in T
    BY <1>t, <1>18
  <2>4. PICK a \in AskRow(T) : a = Asked(kind, e, t, n)
    BY <1>t, <2>2, <2>3 DEF Asked, AskRow
  <2>5. a.kind = kind /\ a.mount = m /\ a.who = viewer /\ a.of = e /\ a.at = "sent"
    BY <2>2, <2>4 DEF Asked
  <2>6. m <= m
    OBVIOUS
  <2>7. AskIs(a, screen, viewer)
    BY <1>18, <2>2, <2>5, <2>6 DEF AskIs
  <2> QED
    BY <2>1, <2>4, <2>7, AskBegins
<1>19. ASSUME NEW e \in Event, AsksToJoin(e) PROVE EventPagesInv'
  <2>1. PICK T, z : T = V \cup {e, z, z} /\ z = 0
    OBVIOUS
  <2>2. PagesAre(T, viewer, screen, cache, latest, reads, Append(asks, Asked("join", e, z, z)))
    BY <1>18, <2>1
  <2> QED
    BY <1>1, <1>19, <2>1, <2>2 DEF AsksToJoin
<1>20. CASE AsksToBook
  <2>1. PICK e, t, n : e = dialog.of /\ t = ShownTier(screen.events[dialog.of])
                       /\ n = ShownQuantity(screen.events[dialog.of])
    OBVIOUS
  <2>2. e \in DOMAIN screen.events /\ asks' = Append(asks, Asked("book", e, t, n))
        /\ UNCHANGED <<viewer, cache, latest, reads>>
    BY <1>20, <2>1 DEF AsksToBook, ButtonReady, DialogOpen
  <2>3. screen.at = "event" => e = screen.of
    BY <1>p, <2>2 DEF ScreenIs
  <2>4. PICK T, S : T = V \cup {e, t, n} /\ S = Append(asks, Asked("book", e, t, n))
    OBVIOUS
  <2>5. PagesAre(T, viewer, screen, cache, latest, reads, S)
    BY <1>18, <2>3, <2>4
  <2>6. PICK w \in ScreenRow(T) : w = screen
    BY <2>5 DEF PagesAre
  <2>7. PICK q \in ScreenRow(T) : q = [w EXCEPT !.busy = e]
    BY <2>4 DEF ScreenRow
  <2>8. q.at = w.at /\ q.of = w.of /\ q.effect = w.effect /\ q.mount = w.mount /\ q.given = w.given
        /\ q.events = w.events
    BY <2>7 DEF ScreenRow
  <2>9. PagesAre(T, viewer, q, cache, latest, reads, S)
    BY <2>5, <2>6, <2>8, ScreenTouched
  <2>10. screen' = q
    BY <1>20, <2>1, <2>6, <2>7 DEF AsksToBook
  <2> QED
    BY <1>1, <2>2, <2>4, <2>9, <2>10
<1>21. CASE GuestAsksForCode
  <2>1. PICK e, t, n : e = dialog.of /\ t = ShownTier(screen.events[dialog.of])
                       /\ n = ShownQuantity(screen.events[dialog.of])
    OBVIOUS
  <2>2. PICK T : T = V \cup {e, t, n}
    OBVIOUS
  <2>3. PagesAre(T, viewer, screen, cache, latest, reads, Append(asks, Asked("code", e, t, n)))
    BY <1>18, <2>2
  <2> QED
    BY <1>1, <1>21, <2>1, <2>3 DEF GuestAsksForCode
<1>22. CASE GuestConfirms
  <2>1. PICK e, t, n : e = dialog.of /\ t = asks[dialog.order].tier /\ n = asks[dialog.order].quantity
    OBVIOUS
  <2>2. PICK T : T = V \cup {e, t, n}
    OBVIOUS
  <2>3. PagesAre(T, viewer, screen, cache, latest, reads, Append(asks, Asked("confirm", e, t, n)))
    BY <1>18, <2>2
  <2> QED
    BY <1>1, <1>22, <2>1, <2>3 DEF GuestConfirms
\* The answers.
<1>23. ASSUME NEW i \in DOMAIN asks, AskIsGranted(i) PROVE EventPagesInv'
  <2>1. PICK at \in {"sent", "cut off", "granted", "over"} : at = IF asks[i].at = "sent" THEN "granted" ELSE "over"
    OBVIOUS
  <2>2. asks' = [asks EXCEPT ![i].at = at] /\ UNCHANGED <<viewer, screen, cache, latest, reads>>
    BY <1>23, <2>1 DEF AskIsGranted
  <2>3. PagesAre(V, viewer, screen, cache, latest, reads, [asks EXCEPT ![i].at = at])
    BY <1>v, AskSettles
  <2> QED
    BY <1>1, <2>2, <2>3
<1>24. ASSUME NEW i \in DOMAIN asks, BookingIsReadBack(i) PROVE EventPagesInv'
  <2>1. PICK view : view = View(asks[i].of, asks[i].who)
    OBVIOUS
  <2>2. PICK T : T = V \cup {view}
    OBVIOUS
  <2>3. PagesAre(T, viewer, screen, cache, latest, reads, asks)
    BY <1>v, <2>2, Wider
  <2>4. asks \in [1..Len(asks) -> AskRow(T)] /\ DOMAIN asks = 1..Len(asks)
    BY <2>3, SeqIs DEF PagesAre
  <2>5. PICK x \in AskRow(T) : x = asks[i]
    BY <2>4
  <2>6. PICK a \in AskRow(T) : a = [x EXCEPT !.at = "read back", !.view = view]
    BY <2>2 DEF AskRow
  <2>7. a.mount = x.mount /\ a.who = x.who /\ a.kind = x.kind /\ a.of = x.of /\ a.view = view
    BY <2>6 DEF AskRow
  <2>8. x.kind = "book" /\ UNCHANGED <<viewer, screen, cache, latest, reads>>
    BY <1>24, <2>5 DEF BookingIsReadBack
  <2>9. IsView(view, x.who)
    BY <2>1, <2>5, ViewsAre
  <2>10. AskIs(a, screen, viewer)
    BY <1>a, <2>5, <2>7, <2>8, <2>9 DEF AskIs
  <2>11. asks' = [asks EXCEPT ![i] = a]
    BY <1>24, <2>1, <2>4, <2>5, <2>6 DEF BookingIsReadBack
  <2>12. PagesAre(T, viewer, screen, cache, latest, reads, [asks EXCEPT ![i] = a])
    BY <2>3, <2>10, AskMoves
  <2> QED
    BY <1>1, <2>8, <2>11, <2>12
\* The page shows other views of the events that it has, and the cache may follow.
<1>25. ASSUME NEW i \in DOMAIN asks, NEW events, ViewsOf(events, {viewer, Nobody}), screen.at # "away",
              screen.at = "event" => DOMAIN events \subseteq {screen.of},
              NEW m, DOMAIN events \subseteq m.events, m.read = latest.read,
              NEW T, T = V \cup {events, DOMAIN events, NoEvent}, m \in LatestRow(T),
              asks' = Settled(i), latest' = m, UNCHANGED <<viewer, reads>>,
              screen' = [screen EXCEPT !.events = events]
                \/ screen' = [screen EXCEPT !.events = events, !.busy = NoEvent],
              cache' = cache \/ cache' = Stored(cache, viewer, screen.given, events)
       PROVE  EventPagesInv'
  <2>1. PagesAre(T, viewer, screen, cache, latest, reads, asks)
    BY <1>v, <1>25, Wider
  <2>2. PICK S : S = [asks EXCEPT ![i].at = "over", ![i].view = <<>>]
    OBVIOUS
  <2>3. PagesAre(T, viewer, screen, cache, latest, reads, S)
    BY <2>1, <2>2, AskSettles
  <2>4. PICK w \in ScreenRow(T) : w = screen
    BY <2>1 DEF PagesAre
  <2>v. events \in T /\ NoEvent \in T
    BY <1>25
  <2>5. PICK x \in ScreenRow(T) : x = [w EXCEPT !.events = events]
    BY <2>v DEF ScreenRow
  <2>6. PICK y \in ScreenRow(T) : y = [w EXCEPT !.events = events, !.busy = NoEvent]
    BY <2>v DEF ScreenRow
  <2>7. \A q \in {x, y} : q \in ScreenRow(T) /\ q.at = w.at /\ q.of = w.of /\ q.effect = w.effect /\ q.mount = w.mount
                          /\ q.given = w.given /\ q.events = events
    BY <2>5, <2>6 DEF ScreenRow
  <2>8. PICK q : q \in {x, y} /\ screen' = q
    BY <1>25, <2>4, <2>5, <2>6
  <2>9. cache \in CacheRow(T) /\ screen.given \in T /\ events \in T
        /\ (screen.given # NotStored => ViewsOf(screen.given, {Nobody}))
    BY <1>25, <1>p, <1>s, <2>1 DEF PagesAre, ScreenIs
  <2>10. PICK b : b = Stored(cache, viewer, screen.given, events) /\ b \in CacheRow(T) /\ CacheIs(b, viewer)
    BY <1>25, <1>p, <2>9, StoredIs
  <2>11. PICK d : d = cache' /\ d \in CacheRow(T) /\ CacheIs(d, viewer)
    BY <1>25, <1>p, <2>9, <2>10
  <2>12. latest.read <= Len(reads)
    BY <1>v DEF PagesAre
  <2>13. q \in ScreenRow(T) /\ q.at = screen.at /\ q.of = screen.of /\ q.effect = screen.effect
         /\ q.mount = screen.mount /\ q.given = screen.given /\ q.events = events
    BY <2>4, <2>7, <2>8
  <2>14. q.at # "away" /\ ViewsOf(q.events, {viewer, Nobody}) /\ (q.at = "event" => DOMAIN q.events \subseteq {q.of})
         /\ DOMAIN q.events \subseteq m.events /\ m.read <= Len(reads)
    BY <1>25, <2>12, <2>13
  <2>15. m \in LatestRow(T) /\ m.read = latest.read /\ q \in ScreenRow(T)
    BY <1>25, <2>13
  <2>16. PagesAre(T, viewer, q, d, m, reads, S)
    BY <2>3, <2>11, <2>13, <2>14, <2>15, EventsAreShown
  <2> QED
    BY <1>1, <1>25, <2>2, <2>8, <2>11, <2>16 DEF Settled
\* What is settled and nobody waits for.
<1>26. ASSUME NEW i \in DOMAIN asks, asks' = Settled(i), UNCHANGED <<viewer, screen, cache, latest, reads>>
       PROVE  EventPagesInv'
  <2>1. PagesAre(V, viewer, screen, cache, latest, reads, [asks EXCEPT ![i].at = "over", ![i].view = <<>>])
    BY <1>v, AskSettles
  <2> QED
    BY <1>1, <1>26, <2>1 DEF Settled
<1>27. ASSUME NEW i \in DOMAIN asks, BookingArrives(i) PROVE EventPagesInv'
  <2>1. PICK a \in AskRow(V) : a = asks[i] /\ AskIs(a, screen, viewer)
    BY <1>a
  <2>2. a.at = "read back" /\ asks' = Settled(i) /\ UNCHANGED <<viewer, reads>>
    BY <1>27, <2>1 DEF BookingArrives
  <2>3. CASE ~SameMount(a)
    BY <1>26, <1>27, <2>1, <2>2, <2>3 DEF BookingArrives
  <2>4. CASE SameMount(a)
    <3>1. screen.at # "away" /\ a.mount = screen.mount
      BY <2>4 DEF SameMount
    <3>2. a.kind = "book" /\ IsView(a.view, a.who) /\ a.who = viewer /\ (screen.at = "event" => a.of = screen.of)
      BY <2>1, <2>2, <3>1 DEF AskIs
    <3>3. PICK more : more = [e \in DOMAIN screen.events \cup {a.of} |-> IF e = a.of THEN a.view ELSE screen.events[e]]
      OBVIOUS
    <3>4. PICK events : events = IF screen.at = "event" \/ a.of \in DOMAIN screen.events THEN more ELSE screen.events
      OBVIOUS
    <3>5. ViewsOf(screen.events, {viewer, Nobody}) /\ (screen.at = "event" => DOMAIN screen.events \subseteq {screen.of})
      BY <1>p DEF ScreenIs
    <3>6. ViewsOf(more, {viewer, Nobody})
      BY <3>2, <3>3, <3>5 DEF ViewsOf
    <3>7. ViewsOf(events, {viewer, Nobody})
      BY <3>4, <3>5, <3>6
    <3>8. screen.at = "event" => DOMAIN events \subseteq {screen.of} /\ DOMAIN events = {a.of}
      BY <3>2, <3>3, <3>4, <3>5
    <3>9. screen.at # "event" => DOMAIN events = DOMAIN screen.events
      BY <3>3, <3>4
    <3>10. screen' = [screen EXCEPT !.events = events, !.busy = NoEvent]
           /\ (cache' = cache \/ cache' = Stored(cache, viewer, screen.given, events))
      BY <1>27, <2>1, <2>4, <3>3, <3>4 DEF BookingArrives, Displays
    <3>11. PICK T : T = V \cup {events, DOMAIN events, NoEvent}
      OBVIOUS
    <3>12. PICK n \in LatestRow(T) : n = latest
      BY <1>t, <3>11 DEF LatestRow
    <3>13. CASE screen.at = "event"
      <4>1. PICK D \in T : D = {a.of} /\ D = DOMAIN events
        BY <3>8, <3>11, <3>13
      <4>2. PICK m \in LatestRow(T) : m = [n EXCEPT !.events = D]
        BY DEF LatestRow
      <4>3. m.read = latest.read /\ m.events = D
        BY <3>12, <4>2 DEF LatestRow
      <4>4. latest' = m
        BY <1>27, <2>1, <2>4, <3>12, <3>13, <4>1, <4>2 DEF BookingArrives
      <4>5. DOMAIN events \subseteq m.events
        BY <4>1, <4>3
      <4> QED
        BY <1>25, <2>2, <3>1, <3>7, <3>8, <3>10, <3>11, <4>2, <4>3, <4>4, <4>5
    <3>14. CASE screen.at # "event"
      <4>1. latest' = latest
        BY <1>27, <2>1, <2>4, <3>14 DEF BookingArrives
      <4>2. DOMAIN events \subseteq latest.events /\ latest \in LatestRow(T) /\ latest.read = latest.read
        BY <1>v, <3>1, <3>9, <3>12, <3>14 DEF PagesAre
      <4> QED
        BY <1>25, <2>2, <3>1, <3>7, <3>10, <3>11, <3>14, <4>1, <4>2
    <3> QED
      BY <3>13, <3>14
  <2> QED
    BY <2>3, <2>4
<1>28. ASSUME NEW i \in DOMAIN asks, GoesToProvider(i) PROVE EventPagesInv'
  <2>1. DocumentGoes(TRUE) /\ UNCHANGED <<viewer, latest>>
        /\ asks' = [j \in DOMAIN asks |-> [asks[j] EXCEPT !.at = IF j # i /\ @ = "sent" THEN "cut off" ELSE "over"]]
    BY <1>28 DEF GoesToProvider
  <2>2. PagesAre(V, viewer', screen', cache', latest', reads', asks)
    BY <1>v, <2>1, DocumentIsGone
  <2>3. PICK T : T = asks'
    OBVIOUS
  <2>4. DOMAIN T = DOMAIN asks /\ T = [j \in DOMAIN asks |-> T[j]]
    BY <2>1, <2>3
  <2>5. \A j \in DOMAIN asks : \E at \in {"cut off", "over"} : T[j] = [asks[j] EXCEPT !.at = at]
    BY <2>1, <2>3
  <2>6. PagesAre(V, viewer', screen', cache', latest', reads', T)
    BY <2>2, <2>4, <2>5, AsksAreOver
  <2> QED
    BY <1>1, <2>3, <2>6
<1>29. ASSUME NEW i \in DOMAIN asks, CodeIsSent(i) PROVE EventPagesInv'
  BY <1>26, <1>29 DEF CodeIsSent
<1>30. ASSUME NEW i \in DOMAIN asks, GuestBookingArrives(i) PROVE EventPagesInv'
  <2>1. PICK a : a = asks[i]
    OBVIOUS
  <2>2. asks' = Settled(i) /\ UNCHANGED <<viewer, reads, latest>>
    BY <1>30 DEF GuestBookingArrives
  <2>3. CASE ~(SameMount(a) /\ a.of \in DOMAIN screen.events)
    BY <1>26, <1>30, <2>1, <2>2, <2>3 DEF GuestBookingArrives
  <2>4. CASE SameMount(a) /\ a.of \in DOMAIN screen.events
    <3>1. screen.at # "away"
      BY <2>4 DEF SameMount
    <3>2. PICK old : old = screen.events[a.of]
      OBVIOUS
    <3>4. PICK new : new = Fewer(old, a)
      OBVIOUS
    <3>5. PICK events : events = [screen.events EXCEPT ![a.of] = new]
      OBVIOUS
    <3>6. ViewsOf(screen.events, {viewer, Nobody}) /\ (screen.at = "event" => DOMAIN screen.events \subseteq {screen.of})
      BY <1>p DEF ScreenIs
    <3>7. PICK w \in {viewer, Nobody} : IsView(old, w)
      BY <2>4, <3>2, <3>6 DEF ViewsOf
    <3>8. IsView(new, w)
      <4>1. PICK rest : Fewer(old, a) = [old EXCEPT !.left = rest]
        BY DEF Fewer
      <4>2. IsView([old EXCEPT !.left = rest], w)
        BY <3>7, FewerIsView
      <4> QED
        BY <3>4, <4>1, <4>2
    <3>9. DOMAIN events = DOMAIN screen.events
          /\ \A e \in DOMAIN events : events[e] = IF e = a.of THEN new ELSE screen.events[e]
      BY <3>5
    <3>10. ViewsOf(events, {viewer, Nobody})
      BY <3>6, <3>7, <3>8, <3>9 DEF ViewsOf
    <3>11. screen' = [screen EXCEPT !.events = events]
           /\ (cache' = cache \/ cache' = Stored(cache, viewer, screen.given, events))
      BY <1>30, <2>1, <2>4, <3>2, <3>4, <3>5 DEF GuestBookingArrives
    <3>12. PICK T : T = V \cup {events, DOMAIN events, NoEvent}
      OBVIOUS
    <3>13. latest \in LatestRow(T)
      BY <1>t, <3>12 DEF LatestRow
    <3>14. DOMAIN events \subseteq latest.events /\ (screen.at = "event" => DOMAIN events \subseteq {screen.of})
           /\ latest.read = latest.read
      BY <1>v, <3>1, <3>6, <3>9 DEF PagesAre
    <3> QED
      BY <1>25, <2>2, <3>1, <3>10, <3>11, <3>12, <3>13, <3>14
  <2> QED
    BY <2>3, <2>4
<1>31. ASSUME NEW i \in DOMAIN asks, JoinArrives(i) PROVE EventPagesInv'
  <2>1. PICK a : a = asks[i]
    OBVIOUS
  <2>2. PICK new : new = [screen.events[a.of] EXCEPT !.joined = TRUE]
    OBVIOUS
  <2>3. PICK events : events = IF a.of \in DOMAIN screen.events THEN [screen.events EXCEPT ![a.of] = new]
                               ELSE screen.events
    OBVIOUS
  <2>4. ViewsOf(screen.events, {viewer, Nobody})
    BY <1>p DEF ScreenIs
  <2>5. ViewsOf(events, {viewer, Nobody})
    <3>1. CASE a.of \in DOMAIN screen.events
      <4>1. PICK w \in {viewer, Nobody} : IsView(screen.events[a.of], w)
        BY <2>4, <3>1 DEF ViewsOf
      <4>2. IsView(new, w)
        BY <2>2, <4>1, FewerIsView
      <4>3. DOMAIN events = DOMAIN screen.events
            /\ \A e \in DOMAIN events : events[e] = IF e = a.of THEN new ELSE screen.events[e]
        BY <2>3, <3>1
      <4> QED
        BY <2>4, <4>1, <4>2, <4>3 DEF ViewsOf
    <3>2. CASE a.of \notin DOMAIN screen.events
      BY <2>3, <2>4, <3>2
    <3> QED
      BY <3>1, <3>2
  <2>6. PICK T : T = V \cup {events}
    OBVIOUS
  <2>7. PagesAre(T, viewer, screen, cache, latest, reads, asks)
    BY <1>v, <2>6, Wider
  <2>8. cache \in CacheRow(T) /\ screen.given \in T /\ events \in T
        /\ (screen.given # NotStored => ViewsOf(screen.given, {Nobody}))
    BY <1>p, <1>s, <2>6, <2>7 DEF PagesAre, ScreenIs
  <2>9. PICK b : b = Stored(cache, viewer, screen.given, events) /\ b \in CacheRow(T) /\ CacheIs(b, viewer)
    BY <1>p, <2>5, <2>8, StoredIs
  <2>10. cache' = cache \/ cache' = b
    BY <1>31, <2>1, <2>2, <2>3, <2>9 DEF JoinArrives
  <2>11. PICK d : d = cache' /\ d \in CacheRow(T) /\ CacheIs(d, viewer)
    BY <1>p, <2>8, <2>9, <2>10
  <2>12. PICK q \in ScreenRow(T) : q = p
    BY <1>7, <2>6 DEF ScreenRow
  <2>13. latest \in LatestRow(T)
    BY <2>7 DEF PagesAre
  <2>14. PagesAre(T, viewer, q, d, latest, reads, asks)
    BY <1>t, <1>7, <2>7, <2>11, <2>12, <2>13, PageIsLeft
  <2>15. PagesAre(T, viewer, q, d, latest, reads, [asks EXCEPT ![i].at = "over", ![i].view = <<>>])
    BY <2>14, AskSettles
  <2>16. screen' = q /\ asks' = [asks EXCEPT ![i].at = "over", ![i].view = <<>>] /\ UNCHANGED <<viewer, latest, reads>>
    BY <1>6, <1>31, <2>12 DEF JoinArrives, Settled
  <2> QED
    BY <1>1, <2>11, <2>15, <2>16
<1>32. ASSUME NEW i \in DOMAIN asks, AskFails(i) PROVE EventPagesInv'
  <2>1. PICK at \in {"sent", "cut off", "granted", "over"} : at = IF asks[i].at = "sent" THEN "cut off" ELSE "over"
    OBVIOUS
  <2>2. PICK S : S = [asks EXCEPT ![i].at = at, ![i].view = <<>>]
    OBVIOUS
  <2>3. PagesAre(V, viewer, screen, cache, latest, reads, S)
    BY <1>v, <2>2, AskSettles
  <2>4. PICK w \in ScreenRow(V) : w = screen
    BY <1>t
  <2>5. PICK q \in ScreenRow(V) : q = [w EXCEPT !.busy = NoEvent]
    BY <1>t DEF ScreenRow
  <2>6. q.at = w.at /\ q.of = w.of /\ q.effect = w.effect /\ q.mount = w.mount /\ q.given = w.given
        /\ q.events = w.events
    BY <2>5 DEF ScreenRow
  <2>7. PagesAre(V, viewer, q, cache, latest, reads, S)
    BY <2>3, <2>4, <2>6, ScreenTouched
  <2>8. asks' = S /\ (screen' = q \/ screen' = screen) /\ UNCHANGED <<viewer, cache, latest, reads>>
    BY <1>32, <2>1, <2>2, <2>4, <2>5 DEF AskFails
  <2> QED
    BY <1>1, <2>3, <2>7, <2>8
<1> QED
  BY <1>2, <1>3, <1>4, <1>5, <1>8, <1>9, <1>10, <1>11, <1>12, <1>13, <1>14, <1>15, <1>16, <1>17, <1>19, <1>20,
     <1>21, <1>22, <1>23, <1>24, <1>27, <1>28, <1>29, <1>30, <1>31, <1>32 DEF EventPagesNext, Whoever

LEMMA EventPagesAreRight == EventPagesInv => PagesKeepUp
<1> SUFFICES ASSUME EventPagesInv PROVE PagesKeepUp
  OBVIOUS
<1>1. ScreenIs(screen, viewer) /\ CacheIs(cache, viewer)
      /\ (screen.at # "away" => DOMAIN screen.events \subseteq latest.events)
  BY DEF EventPagesInv, PagesAre
<1>2. \A events : ViewsOf(events, {viewer, Nobody}) => \A e \in DOMAIN events : events[e].of \in {viewer, Nobody}
  BY ViewIsOf DEF ViewsOf
<1> QED
  BY <1>1, <1>2 DEF PagesKeepUp, ScreenIs, CacheIs

\* The pages of the events keep up: no older read, older effect or late booking brings an
\* event back, and what is shown and cached is the viewer's own.
THEOREM EventsKeepUp == EventPagesSpec => []PagesKeepUp
<1> QED
  BY EventPagesStart, EventPagesStep, EventPagesAreRight, PTL DEF EventPagesSpec

-----------------------------------------------------------------------------
(***************************************************************************)
(* The pages side by side.  A step is of the page it is about, and the     *)
(* others stand still: so a behaviour of MCPages is one of every page.     *)
(***************************************************************************)

\* Every step is a step of each page, or leaves the page as it is.
LEMMA EachByItself ==
    ASSUME [Next]_vars
    PROVE  /\ [AdminUsersNext]_adminVars /\ [DeskNext]_deskVars /\ [InboxNext]_inboxVars
           /\ [EditorNext]_editorVars /\ [EventEditorNext]_editorPageVars /\ [CheckoutNext]_checkoutVars
           /\ [EventPagesNext]_eventPageVars /\ [DoorPageNext]_doorVars
<1>1. CASE UNCHANGED vars
  BY <1>1 DEF vars
<1>2. CASE Next
  <2>1. [AdminUsersNext]_adminVars
    BY <1>2 DEF Next, Still
  <2>2. [DeskNext]_deskVars
    BY <1>2 DEF Next, Still
  <2>3. [InboxNext]_inboxVars
    BY <1>2 DEF Next, Still
  <2>4. [EditorNext]_editorVars
    BY <1>2 DEF Next, Still
  <2>5. [EventEditorNext]_editorPageVars
    BY <1>2 DEF Next, Still
  <2>6. [CheckoutNext]_checkoutVars
    BY <1>2 DEF Next, Still
  <2>7. [EventPagesNext]_eventPageVars
    BY <1>2 DEF Next, Still
  <2>8. [DoorPageNext]_doorVars
    BY <1>2 DEF Next, Still
  <2> QED
    BY <2>1, <2>2, <2>3, <2>4, <2>5, <2>6, <2>7, <2>8
<1> QED
  BY <1>1, <1>2

\* A behaviour of the pages is one of each of them.
LEMMA SideBySide ==
    Spec => /\ AdminUsersSpec /\ DeskSpec /\ EventEditorSpec /\ DoorPageSpec
            /\ InboxSpec /\ EditorSpec /\ CheckoutSpec /\ EventPagesSpec
<1>1. Init => /\ AdminUsersInit /\ DeskInit /\ InboxInit /\ EditorInit /\ EventEditorInit /\ CheckoutInit
              /\ EventPagesInit /\ DoorPageInit
  BY DEF Init
<1> QED
  BY <1>1, EachByItself, PTL
     DEF Spec, AdminUsersSpec, DeskSpec, InboxSpec, EditorSpec, EventEditorSpec, CheckoutSpec, EventPagesSpec,
         DoorPageSpec

\* What the pages of administrators and staff show is what they asked for and what they did:
\* users-tab.tsx, reports-tab.tsx (but for a load that was under way when a decision was
\* answered), events.service.ts with the form of an event, and ticket-check-in-modal.tsx.
THEOREM AdminPagesAreTrue == Spec => []AdminPagesAgree
<1>1. ListAnswersTheQuery /\ DeskShowsItsDecision /\ SavedAsSubmitted /\ DoorScreenIsTrue => AdminPagesAgree
  BY DEF AdminPagesAgree
<1> QED
  BY <1>1, SideBySide, TheListAnswers, DecisionIsShown, SavedIsSubmitted, TheDoorIsTrusted, PTL

\* A member's page is about what the member has open: the thread of matches-tab.tsx, the
\* words typed into profile-tab.tsx (until a save or the load of a new access token writes
\* the form), the order of app/page.tsx and the events of member-events-tab.tsx.
THEOREM MemberPagesAreTheirs == Spec => []MemberPagesAgree
<1>1. ScreenIsTheOpenThread /\ TypedWordsStay /\ ChoiceIsOrderedOnce /\ PagesKeepUp => MemberPagesAgree
  BY DEF MemberPagesAgree
<1> QED
  BY <1>1, SideBySide, ScreenIsOfTheThread, TypingIsKept, OrderedOnce, EventsKeepUp, PTL
=============================================================================

------------------------------ MODULE AdminUsers ------------------------------
(***************************************************************************)
(* The administrator's list of accounts (users-tab.tsx) and the query that *)
(* answers it (getUsers of admin.service.ts): filters, pages, a search     *)
(* that waits for the typing to end, and a request that gives way to the   *)
(* next one.                                                               *)
(*                                                                         *)
(* The timer of a load is set in the render that follows a change of the   *)
(* query: both are one step, and so is the abort of the request before.    *)
(***************************************************************************)
EXTENDS Naturals, FiniteSets

CONSTANTS
    Registered,     \* the accounts; their ids are numbers, the latest is the greatest
    Named,          \* the accounts that a search for "name" finds
    RowsPerPage,    \* 25 in the code
    MaxAccountMoves,    \* bound on the changes of accounts
    MaxListLoads,       \* bound on the requests
    MaxInputs           \* bound on the changes of the filters and the search

ASSUME AdminUsersAssumption ==
    /\ Registered \subseteq Nat \ {0} /\ IsFiniteSet(Registered) /\ Named \subseteq Registered
    /\ RowsPerPage \in Nat \ {0}
    /\ MaxAccountMoves \in Nat /\ MaxListLoads \in Nat /\ MaxInputs \in Nat

VARIABLES
    accountStatus,  \* of each account
    search,         \* what is typed
    debounce,       \* the 300 ms since the last key are not over
    query,          \* page, search and status: what the list should show
    starting,       \* the timer of a load is set
    loading,        \* isLoadingUsers
    listing,        \* the rows shown, their pagination, and the query they answer (history)
    requests,       \* the requests not answered yet
    opened,         \* the account whose details are asked for or shown
    accountMoves, loads, inputs

adminVars == <<accountStatus, search, debounce, query, starting, loading, listing, requests, opened,
               accountMoves, loads, inputs>>

Statuses == {"ACTIVE", "BANNED", "DELETED"}
Term == {"", "name"}
Query == [page : Nat \ {0}, search : Term, status : {"", "ACTIVE", "BANNED"}]
FirstQuery == [page |-> 1, search |-> "", status |-> ""]
NoListing == [rows |-> {}, page |-> 0, pages |-> 0, answers |-> FirstQuery]

-----------------------------------------------------------------------------
(* getUsers: the rows are counted, and then read by position.                *)

Selected(q) ==
    {u \in Registered : /\ IF q.status = "" THEN accountStatus[u] # "DELETED" ELSE accountStatus[u] = q.status
                        /\ q.search = "" \/ u \in Named}

PagesOf(n) == IF n = 0 THEN 1 ELSE ((n - 1) \div RowsPerPage) + 1
Least(a, b) == IF a < b THEN a ELSE b

\* The rows at the positions of a page, the latest account first.
RowsAt(q, page) ==
    {u \in Selected(q) :
        LET position == Cardinality({v \in Selected(q) : v > u})
        IN (page - 1) * RowsPerPage <= position /\ position < page * RowsPerPage}

AdminUsersInit ==
    /\ accountStatus \in [Registered -> {"ACTIVE", "BANNED"}]
    /\ search = "" /\ debounce = FALSE
    /\ query = FirstQuery
    /\ starting = TRUE /\ loading = TRUE
    /\ listing = NoListing
    /\ requests = {}
    /\ opened = [id |-> 0, shown |-> FALSE]
    /\ accountMoves = 0 /\ loads = 0 /\ inputs = 0

\* An account is moderated, restored or erased.
AccountMoves(u) ==
    /\ accountMoves < MaxAccountMoves
    /\ accountMoves' = accountMoves + 1
    /\ \E st \in Statuses \ {accountStatus[u]} : accountStatus' = [accountStatus EXCEPT ![u] = st]
    /\ UNCHANGED <<search, debounce, query, starting, loading, listing, requests, opened, loads, inputs>>

-----------------------------------------------------------------------------
(* The controls.                                                             *)

ListInFront == ~opened.shown
IsListBusy == loading \/ search # query.search

Aborted == {[r EXCEPT !.aborted = TRUE] : r \in requests}

\* setQuery: another query object aborts the request under way and sets the timer.
AsksFor(q) == query' = q /\ requests' = Aborted /\ starting' = TRUE

Types(t) ==
    /\ ListInFront /\ inputs < MaxInputs /\ t # search
    /\ inputs' = inputs + 1
    /\ search' = t /\ debounce' = TRUE
    /\ UNCHANGED <<accountStatus, query, starting, loading, listing, requests, opened, accountMoves, loads>>

DebounceEnds ==
    /\ debounce
    /\ debounce' = FALSE
    /\ IF query.search = search THEN UNCHANGED <<query, requests, starting>>
       ELSE AsksFor([query EXCEPT !.search = search, !.page = 1])
    /\ UNCHANGED <<accountStatus, search, loading, listing, opened, accountMoves, loads, inputs>>

PicksStatus(st) ==
    /\ ListInFront /\ inputs < MaxInputs /\ st # query.status
    /\ inputs' = inputs + 1
    /\ loading' = TRUE
    /\ AsksFor([query EXCEPT !.status = st, !.page = 1])
    /\ UNCHANGED <<accountStatus, search, debounce, listing, opened, accountMoves, loads>>

\* The page before or after the one shown.
ChangesPage(page) ==
    /\ ListInFront /\ ~IsListBusy /\ opened.id = 0
    /\ page \in 1..listing.pages /\ (page = listing.page + 1 \/ page + 1 = listing.page)
    /\ loading' = TRUE
    /\ AsksFor([query EXCEPT !.page = page])
    /\ UNCHANGED <<accountStatus, search, debounce, listing, opened, accountMoves, loads, inputs>>

\* loadUsers, from the timer or the button: the request before is aborted.
Loading ==
    /\ loads < MaxListLoads
    /\ loads' = loads + 1
    /\ loading' = TRUE
    /\ requests' = Aborted \cup {[id |-> loads, of |-> query, at |-> "sent", aborted |-> FALSE,
                                  page |-> 0, pages |-> 0, rows |-> {}]}
    /\ UNCHANGED <<accountStatus, search, debounce, query, listing, opened, accountMoves, inputs>>

LoadBegins == starting /\ starting' = FALSE /\ Loading
Refreshes == ListInFront /\ ~IsListBusy /\ UNCHANGED starting /\ Loading

-----------------------------------------------------------------------------
(* A request.                                                                *)

Becomes(r, s) ==
    /\ requests' = (requests \ {r}) \cup {s}
    /\ UNCHANGED <<accountStatus, search, debounce, query, starting, loading, listing, opened,
                   accountMoves, loads, inputs>>

Counts(r) ==
    /\ r.at = "sent"
    /\ LET pages == PagesOf(Cardinality(Selected(r.of)))
       IN Becomes(r, [r EXCEPT !.at = "counted", !.pages = pages, !.page = Least(r.of.page, pages)])

Reads(r) ==
    /\ r.at = "counted"
    /\ Becomes(r, [r EXCEPT !.at = "answered", !.rows = RowsAt(r.of, r.page)])

\* Variant: the page does not ask whether its request was aborted.
Heeded_Always(r) == TRUE

Heeded(r) == ~r.aborted

\* The answer: a page that has ceased to exist is replaced by the last one, and asked for.
ListArrives(r) ==
    /\ r.at = "answered"
    /\ IF Heeded(r)
       THEN /\ listing' = [rows |-> r.rows, page |-> r.page, pages |-> r.pages,
                           answers |-> [r.of EXCEPT !.page = r.page]]
            /\ loading' = FALSE
            /\ IF r.page # r.of.page
               THEN query' = [query EXCEPT !.page = r.page] /\ starting' = TRUE
               ELSE UNCHANGED <<query, starting>>
       ELSE UNCHANGED <<listing, loading, query, starting>>
    /\ requests' = requests \ {r}
    /\ UNCHANGED <<accountStatus, search, debounce, opened, accountMoves, loads, inputs>>

ListFails(r) ==
    /\ IF Heeded(r) THEN listing' = NoListing /\ loading' = FALSE ELSE UNCHANGED <<listing, loading>>
    /\ requests' = requests \ {r}
    /\ UNCHANGED <<accountStatus, search, debounce, query, starting, opened, accountMoves, loads, inputs>>

-----------------------------------------------------------------------------
(* openUserDetail, one account at a time; the list stays behind the details. *)

Opens(o) ==
    /\ opened' = o
    /\ UNCHANGED <<accountStatus, search, debounce, query, starting, loading, listing, requests,
                   accountMoves, loads, inputs>>

OpensUser(u) == ListInFront /\ ~IsListBusy /\ opened.id = 0 /\ u \in listing.rows /\ Opens([id |-> u, shown |-> FALSE])
UserArrives == opened.id # 0 /\ ~opened.shown /\ Opens([opened EXCEPT !.shown = TRUE])
UserFails == opened.id # 0 /\ ~opened.shown /\ Opens([id |-> 0, shown |-> FALSE])
GoesBack == opened.shown /\ Opens([id |-> 0, shown |-> FALSE])

-----------------------------------------------------------------------------
AdminUsersNext ==
    \/ \E u \in Registered : AccountMoves(u) \/ OpensUser(u)
    \/ \E t \in Term : Types(t)
    \/ \E st \in {"", "ACTIVE", "BANNED"} : PicksStatus(st)
    \/ \E page \in 1..Cardinality(Registered) : ChangesPage(page)
    \/ DebounceEnds \/ LoadBegins \/ Refreshes
    \/ \E r \in requests : Counts(r) \/ Reads(r) \/ ListArrives(r) \/ ListFails(r)
    \/ UserArrives \/ UserFails \/ GoesBack

AdminUsersSpec == AdminUsersInit /\ [][AdminUsersNext]_adminVars

-----------------------------------------------------------------------------
AdminUsersTypeOK ==
    /\ accountStatus \in [Registered -> Statuses]
    /\ search \in Term /\ query \in Query
    /\ debounce \in BOOLEAN /\ starting \in BOOLEAN /\ loading \in BOOLEAN
    /\ listing.rows \subseteq Registered /\ listing.page <= listing.pages
    /\ \A r \in requests : r.of \in Query /\ r.at \in {"sent", "counted", "answered"} /\ r.aborted \in BOOLEAN
    /\ opened.id \in Registered \cup {0}

\* At rest, the list is the answer to the filters and the page that the controls show: the
\* answer of a query that was given up never takes the place of a later one, and a page that
\* has ceased to exist leaves the controls where the list is.
ListAnswersTheQuery ==
    (~loading /\ ~starting /\ ~debounce) =>
        listing = NoListing \/ listing.answers = query
=============================================================================

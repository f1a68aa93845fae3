---------------------------- MODULE DiscoveryWalk ----------------------------
(***************************************************************************)
(* A member walks through the people of their state: the pages of people   *)
(* that discovery.service.ts ranks and cuts by a cursor, and the page of   *)
(* the site that collects them (discovery-tab.tsx).                        *)
(*                                                                         *)
(* The cursor is the id of the last person listed and not a position: each *)
(* page is cut where that person stands in the ranking of the moment.      *)
(* People enter and leave, and their scores change, between two pages.     *)
(***************************************************************************)
EXTENDS Naturals, FiniteSets

CONSTANTS
    Others,         \* the other members; their ids are numbers
    Home,           \* states of residence
    TopScore,       \* scores run from 0 to this one
    PageSize,       \* DISCOVERY_PEOPLE_PAGE_SIZE
    MaxMoves,       \* bound on the changes of the ranking
    MaxSearches,    \* bound on the searches
    Away            \* of a member who is not discoverable to this one

ASSUME DiscoveryWalkAssumption ==
    /\ Others \subseteq Nat \ {0} /\ IsFiniteSet(Others) /\ Away \notin Home
    /\ PageSize \in Nat \ {0} /\ TopScore \in Nat /\ MaxMoves \in Nat /\ MaxSearches \in Nat

VARIABLES
    standing,   \* where each other member is discoverable, and their score
    own,        \* the member's own state and whether they are in the pool
    people,     \* the people the page lists
    nextCursor, \* 0 for none
    searched,   \* hasSearched
    search,     \* a search whose settings are saved: whether its list is read, and the list
    more,       \* the answer of "load more" on its way
    steady,     \* those discoverable since the list began, whom nobody fell behind (history)
    whole,      \* the list is one walk: no page of an earlier one came in between (history)
    moves, searches

discoveryVars == <<standing, own, people, nextCursor, searched, search, more, steady, whole, moves, searches>>

Standing == [home : Home \cup {Away}, score : 0..TopScore]
NoAnswer == [awaited |-> FALSE, page |-> {}, next |-> 0]
NoSearch == [at |-> "idle", page |-> {}, next |-> 0]

-----------------------------------------------------------------------------
(* The ranking: getDiscoverableUserSql and the exclusions decide who is in it, *)
(* socialDiscoveryScoreSql and the id the order.                              *)

Pool == {x \in Others : standing[x].home = own.home}

Before(st, x, y) == st[x].score > st[y].score \/ (st[x].score = st[y].score /\ x < y)

\* Variant: the rows whose score is lower, so that those that tie with the cursor are lost.
After_LowerScore(c) == IF c = 0 THEN Pool ELSE {x \in Pool : standing[x].score < standing[c].score}

\* The rows after the cursor; a cursor out of the ranking is not valid.
After(c) == IF c = 0 THEN Pool ELSE {x \in Pool : Before(standing, c, x)}

PageAfter(c) == {x \in After(c) : Cardinality({y \in After(c) : Before(standing, y, x)}) < PageSize}

\* The last of a full page, unless nobody follows it.
NextAfter(c) ==
    IF Cardinality(After(c)) <= PageSize THEN 0
    ELSE CHOOSE x \in PageAfter(c) : \A y \in PageAfter(c) : y = x \/ Before(standing, y, x)

DiscoveryInit ==
    /\ standing \in [Others -> Standing]
    /\ own \in [home : Home, live : {TRUE}]
    /\ people = {} /\ nextCursor = 0
    /\ searched = FALSE /\ search = NoSearch
    /\ more = NoAnswer
    /\ steady = {} /\ whole = FALSE
    /\ moves = 0 /\ searches = 0

-----------------------------------------------------------------------------
(* The other members.                                                        *)

Stay(st) ==
    {x \in steady : /\ st[x].home = own.home
                    /\ \A y \in Others : Before(standing, y, x) => Before(st, y, x)}

\* Somebody is active, gets older, edits a profile, joins or leaves the pool or the state.
Moves(x) ==
    /\ moves < MaxMoves
    /\ moves' = moves + 1
    /\ \E s \in Standing \ {standing[x]} : standing' = [standing EXCEPT ![x] = s]
    /\ steady' = Stay(standing')
    /\ UNCHANGED <<own, people, nextCursor, searched, search, more, whole, searches>>

\* The member blocks somebody from their profile: the page drops them at once.
Blocks(x) ==
    /\ x \in people /\ standing[x].home # Away
    /\ moves < MaxMoves
    /\ moves' = moves + 1
    /\ standing' = [standing EXCEPT ![x].home = Away]
    /\ people' = people \ {x}
    /\ steady' = Stay(standing')
    /\ UNCHANGED <<own, nextCursor, searched, search, more, whole, searches>>

-----------------------------------------------------------------------------
(* The page.                                                                 *)

\* searchPeople: the state is saved first.  updateStatus reloads without another state.
\* Abstraction: one list load at a time, though a change of status or a new access token
\* may start another one beside it.
Searches(h) ==
    /\ own.live /\ search = NoSearch /\ searches < MaxSearches
    /\ searches' = searches + 1
    /\ own' = [own EXCEPT !.home = h]
    /\ search' = [NoSearch EXCEPT !.at = "asked"]
    /\ whole' = FALSE
    /\ UNCHANGED <<standing, people, nextCursor, searched, more, steady, moves>>

\* getPeople without a cursor.
ListIsRead ==
    /\ search.at = "asked" /\ own.live
    /\ search' = [at |-> "read", page |-> PageAfter(0), next |-> NextAfter(0)]
    /\ steady' = Pool
    /\ UNCHANGED <<standing, own, people, nextCursor, searched, more, whole, moves, searches>>

\* Its answer: the list begins again, whatever "load more" has under way.
ListBegins ==
    /\ search.at = "read"
    /\ search' = NoSearch
    /\ people' = search.page
    /\ nextCursor' = search.next
    /\ searched' = TRUE
    /\ whole' = ~more.awaited
    /\ UNCHANGED <<standing, own, more, steady, moves, searches>>

\* The list is refused or lost: the page keeps the list it had.
SearchFails ==
    /\ search # NoSearch
    /\ search' = NoSearch
    /\ UNCHANGED <<standing, own, people, nextCursor, searched, more, steady, whole, moves, searches>>

\* loadMore and getPeople with the cursor: the ranking and the reading of its rows are one
\* step.  Nothing holds it back during a search.
AsksMore ==
    /\ own.live /\ searched /\ nextCursor # 0 /\ ~more.awaited
    /\ nextCursor \in Pool
    /\ more' = [awaited |-> TRUE, page |-> PageAfter(nextCursor), next |-> NextAfter(nextCursor)]
    /\ UNCHANGED <<standing, own, people, nextCursor, searched, search, steady, whole, moves, searches>>

\* The page is merged by id into the list of the moment.
MoreArrives ==
    /\ more.awaited
    /\ people' = people \cup more.page
    /\ nextCursor' = more.next
    /\ more' = NoAnswer
    /\ UNCHANGED <<standing, own, searched, search, steady, whole, moves, searches>>

MoreFails ==
    /\ more.awaited
    /\ more' = NoAnswer
    /\ UNCHANGED <<standing, own, people, nextCursor, searched, search, steady, whole, moves, searches>>

\* toggleDiscoveryPool: leaving clears the list, but not one
\* already read for it; entering saves and searches.
LeavesPool ==
    /\ own.live
    /\ own' = [own EXCEPT !.live = FALSE]
    /\ people' = {} /\ nextCursor' = 0 /\ searched' = FALSE
    /\ whole' = FALSE
    /\ UNCHANGED <<standing, search, more, steady, moves, searches>>

EntersPool ==
    /\ ~own.live /\ search = NoSearch /\ searches < MaxSearches
    /\ searches' = searches + 1
    /\ own' = [own EXCEPT !.live = TRUE]
    /\ search' = [NoSearch EXCEPT !.at = "asked"]
    /\ whole' = FALSE
    /\ UNCHANGED <<standing, people, nextCursor, searched, more, steady, moves>>

-----------------------------------------------------------------------------
DiscoveryNext ==
    \/ \E x \in Others : Moves(x) \/ Blocks(x)
    \/ \E h \in Home : Searches(h)
    \/ ListIsRead \/ ListBegins \/ SearchFails \/ AsksMore \/ MoreArrives \/ MoreFails \/ LeavesPool \/ EntersPool

DiscoverySpec == DiscoveryInit /\ [][DiscoveryNext]_discoveryVars

-----------------------------------------------------------------------------
DiscoveryTypeOK ==
    /\ standing \in [Others -> Standing] /\ own \in [home : Home, live : BOOLEAN]
    /\ people \subseteq Others /\ nextCursor \in Others \cup {0}
    /\ searched \in BOOLEAN /\ whole \in BOOLEAN
    /\ search \in [at : {"idle", "asked", "read"}, page : SUBSET Others, next : Others \cup {0}]
    /\ more \in [awaited : BOOLEAN, page : SUBSET Others, next : Others \cup {0}]
    /\ steady \subseteq Others /\ moves \in 0..MaxMoves /\ searches \in 0..MaxSearches

\* Whoever stays discoverable from the first page to the last, and behind whom nobody ranked
\* above them fell, is listed when the list ends: people who come, go and move between two
\* pages cost nobody else their place.
NobodyIsSkipped ==
    searched /\ whole /\ nextCursor = 0 => steady \subseteq people
=============================================================================

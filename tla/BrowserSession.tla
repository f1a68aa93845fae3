---------------------------- MODULE BrowserSession ----------------------------
(***************************************************************************)
(* The session of one browser over its tabs (lib/browser-session.ts,       *)
(* lib/api.ts, components' session-provider.tsx): the refresh cookie all   *)
(* tabs share, the revision of the last login or logout that localStorage  *)
(* and a channel pass on, and the credentials each tab keeps in memory.    *)
(*                                                                         *)
(* Requests that change the cookie run one at a time under the cookie      *)
(* lock, here a lock of the browser (Web Locks); the fallback without one  *)
(* is module CookieLock.  Revision numbers stand for the random ids.       *)
(***************************************************************************)
EXTENDS Naturals, Sequences, FiniteSets

CONSTANTS
    Tab,
    Account,
    Op,             \* requests in progress at a time
    MaxRevisions,   \* bound on the logins and logouts
    MaxRequests,    \* bound on the requests begun
    NoOne, NoOp

ASSUME BrowserSessionAssumption ==
    /\ MaxRevisions \in Nat /\ MaxRequests \in Nat
    /\ NoOne \notin Account /\ NoOne \notin Tab /\ NoOp \notin Op

VARIABLES
    cookie,     \* whose refresh session the cookie is, or NoOne
    stored,     \* the revision in localStorage, 0 for none
    written,    \* the last revision
    owner,      \* who each revision logged in; NoOne for a logout
    tab,        \* what each tab keeps in memory
    mail,       \* channel messages on the way to a tab
    cookieLock, \* who holds it
    op,         \* progress of each request
    begun,      \* requests begun
    stray       \* the cookie was replaced by a login that no tab completed (history)

browserVars == <<cookie, stored, written, owner, tab, mail, cookieLock, op, begun, stray>>

Revision == 0..MaxRevisions
MaybeAccount == Account \cup {NoOne}
TabState == [revision : Revision, reads : BOOLEAN, auth : MaybeAccount, pending : Op \cup {NoOp},
             shown : SUBSET Account]

\* revision, readStoredMetadata, auth, pendingRefresh, and whose private data is cached.
Fresh(r) == [revision |-> r, reads |-> TRUE, auth |-> NoOne, pending |-> NoOp, shown |-> {}]
Idle == [kind |-> "none", tab |-> NoOne, pc |-> "idle", rev |-> 0, who |-> NoOne]

\* A browser that comes back with the cookie of an earlier visit, or without one.
BrowserInit ==
    /\ cookie \in Account \cup {NoOne}
    /\ stored = 0 /\ written = 0
    /\ owner = [r \in Revision |-> IF r = 0 THEN cookie ELSE NoOne]
    /\ tab = [t \in Tab |-> Fresh(0)]
    /\ mail = [t \in Tab |-> <<>>]
    /\ cookieLock = NoOp
    /\ op = [o \in Op |-> Idle]
    /\ begun = 0
    /\ stray = FALSE

-----------------------------------------------------------------------------
(* Revisions: readRevision, observeRevision, writeRevision. *)

\* What a tab reads: an empty storage, or one it does not trust, changes nothing.
Read(x, message) == IF x.reads /\ stored # 0 THEN stored ELSE message

\* Another revision ends the tab's session, its caches and its pending refresh.
Observe(x, r) ==
    IF r = x.revision THEN x
    ELSE [x EXCEPT !.revision = r, !.auth = NoOne, !.pending = NoOp, !.shown = {}]

\* version
Synced(t) == Observe(tab[t], Read(tab[t], tab[t].revision))
LoggedOut(r) == r # 0 /\ owner[r] = NoOne

\* The revision is stored, or the storage refuses it, and goes to the other tabs.
Written(t, a, x) ==
    /\ written < MaxRevisions
    /\ written' = written + 1
    /\ owner' = [owner EXCEPT ![written + 1] = a]
    /\ stray' = FALSE
    /\ \E persisted \in BOOLEAN :
        /\ stored' = IF persisted THEN written + 1 ELSE stored
        /\ tab' = [tab EXCEPT ![t] = [x EXCEPT !.revision = written + 1, !.reads = persisted]]
        /\ mail' = [u \in Tab |-> IF u = t THEN mail[u]
                                  ELSE Append(mail[u], [rev |-> written + 1, persisted |-> persisted])]

\* A message, which counts for what the storage does not say.
Receive(t) ==
    /\ mail[t] # <<>>
    /\ mail' = [mail EXCEPT ![t] = Tail(@)]
    /\ LET x == [tab[t] EXCEPT !.reads = Head(mail[t]).persisted]
       IN tab' = [tab EXCEPT ![t] = Observe(x, Read(x, Head(mail[t]).rev))]
    /\ UNCHANGED <<cookie, stored, written, owner, cookieLock, op, begun, stray>>

\* A storage event, or any look at the version.
Notice(t) ==
    /\ Synced(t) # tab[t]
    /\ tab' = [tab EXCEPT ![t] = Synced(t)]
    /\ UNCHANGED <<cookie, stored, written, owner, mail, cookieLock, op, begun, stray>>

-----------------------------------------------------------------------------
(* Requests. *)

At(o, kind, pc) == op[o].kind = kind /\ op[o].pc = pc
Of(o) == op[o].tab
Unlocked(o) == IF cookieLock = o THEN NoOp ELSE cookieLock
\* pendingRefresh is forgotten when its refresh settles.
Settled(o, x) == IF x.pending = o THEN [x EXCEPT !.pending = NoOp] ELSE x
Holds(o) == Synced(Of(o)).revision = op[o].rev

Starts(o, kind, t, pc, rev, who) ==
    /\ op[o] = Idle /\ begun < MaxRequests
    /\ begun' = begun + 1
    /\ op' = [op EXCEPT ![o] = [kind |-> kind, tab |-> t, pc |-> pc, rev |-> rev, who |-> who]]

OpEnds(o) == op' = [op EXCEPT ![o] = Idle] /\ cookieLock' = Unlocked(o) /\ UNCHANGED begun

\* authenticate
Login(o, t, a) ==
    /\ Starts(o, "login", t, "waiting", Synced(t).revision, a)
    /\ tab' = [tab EXCEPT ![t] = Synced(t)]
    /\ UNCHANGED <<cookie, stored, written, owner, mail, cookieLock, stray>>

\* refresh: refused after a logout, and one at a time in a tab.
Refresh(o, t) ==
    /\ ~LoggedOut(Synced(t).revision) /\ Synced(t).pending = NoOp
    /\ Starts(o, "refresh", t, "waiting", Synced(t).revision, NoOne)
    /\ tab' = [tab EXCEPT ![t] = [Synced(t) EXCEPT !.pending = o]]
    /\ UNCHANGED <<cookie, stored, written, owner, mail, cookieLock, stray>>

\* logout: the revision first, the request after it.
Logout(o, t) ==
    /\ Written(t, NoOne, [tab[t] EXCEPT !.auth = NoOne, !.shown = {}])
    /\ Starts(o, "logout", t, "waiting", written + 1, NoOne)
    /\ UNCHANGED <<cookie, cookieLock>>

\* withCookieLock, and the look at the revision inside it.
EnterLock(o) ==
    /\ op[o].pc = "waiting" /\ cookieLock = NoOp
    /\ tab' = [tab EXCEPT ![Of(o)] = IF Holds(o) THEN Synced(Of(o)) ELSE Settled(o, Synced(Of(o)))]
    /\ IF Holds(o) THEN op' = [op EXCEPT ![o].pc = "asked"] /\ cookieLock' = o /\ UNCHANGED begun ELSE OpEnds(o)
    /\ UNCHANGED <<cookie, stored, written, owner, mail, stray>>

\* The answers' headers: the cookie is the browser's from here on.
LoginAnswered(o) ==
    /\ At(o, "login", "asked")
    /\ cookie' = op[o].who
    /\ op' = [op EXCEPT ![o].pc = "answered"]
    /\ UNCHANGED <<stored, written, owner, tab, mail, cookieLock, begun, stray>>

RefreshAnswered(o) ==
    /\ At(o, "refresh", "asked") /\ cookie # NoOne
    /\ op' = [op EXCEPT ![o].pc = "answered", ![o].who = cookie]
    /\ UNCHANGED <<cookie, stored, written, owner, tab, mail, cookieLock, begun, stray>>

\* A login that nobody completes has left its cookie.  After a logout no tab uses it.
Astray(o) == At(o, "login", "answered") /\ ~LoggedOut(written)

\* The credentials are the tab's if the revision still stands; another account's
\* data is dropped (reconcile).
SignedIn(x, a) == [x EXCEPT !.auth = a, !.shown = IF x.auth \in {a, NoOne} THEN @ ELSE {}]

LoginDone(o) ==
    /\ At(o, "login", "answered")
    /\ IF Holds(o)
       THEN Written(Of(o), op[o].who, SignedIn(Synced(Of(o)), op[o].who))
       ELSE /\ tab' = [tab EXCEPT ![Of(o)] = Synced(Of(o))]
            /\ stray' = (stray \/ Astray(o))
            /\ UNCHANGED <<stored, written, owner, mail>>
    /\ OpEnds(o)
    /\ UNCHANGED cookie

\* Mutant: a late answer is taken whatever the revision is by now.
RefreshDone_Late(o) ==
    /\ At(o, "refresh", "answered")
    /\ tab' = [tab EXCEPT ![Of(o)] = Settled(o, SignedIn(Synced(Of(o)), op[o].who))]
    /\ OpEnds(o)
    /\ UNCHANGED <<cookie, stored, written, owner, mail, stray>>

RefreshDone(o) ==
    /\ At(o, "refresh", "answered")
    /\ LET x == Synced(Of(o))
       IN tab' = [tab EXCEPT ![Of(o)] = Settled(o, IF Holds(o) THEN SignedIn(x, op[o].who) ELSE x)]
    /\ OpEnds(o)
    /\ UNCHANGED <<cookie, stored, written, owner, mail, stray>>

SignedOut(x) == [x EXCEPT !.auth = NoOne, !.shown = {}]

\* 401: the session ends in the tab, unless the answer is late.
RefreshRefused(o) ==
    /\ At(o, "refresh", "asked") /\ cookie = NoOne
    /\ LET x == Synced(Of(o))
       IN tab' = [tab EXCEPT ![Of(o)] = Settled(o, IF Holds(o) THEN SignedOut(x) ELSE x)]
    /\ OpEnds(o)
    /\ UNCHANGED <<cookie, stored, written, owner, mail, stray>>

LogoutDone(o) ==
    /\ At(o, "logout", "asked")
    /\ cookie' = NoOne
    /\ OpEnds(o)
    /\ UNCHANGED <<stored, written, owner, tab, mail, stray>>

\* A wrong password, a lock that does not come in 30 seconds, a request that fails or
\* whose answer is lost: the cookie of a lost rotation is spent, and the cookie of a
\* login may have come without its body.
Fails(o) ==
    /\ op[o].kind \in {"login", "refresh", "logout"}
    /\ tab' = [tab EXCEPT ![Of(o)] = Settled(o, @)]
    /\ cookie' \in {cookie} \cup (IF op[o].pc = "asked" /\ op[o].kind # "login" THEN {NoOne} ELSE {})
    /\ stray' = (stray \/ Astray(o))
    /\ OpEnds(o)
    /\ UNCHANGED <<stored, written, owner, mail>>

\* The server ends the session: a reset password, a ban, its expiry.
SessionEnds ==
    /\ cookie # NoOne
    /\ cookie' = NoOne
    /\ UNCHANGED <<stored, written, owner, tab, mail, cookieLock, op, begun, stray>>

(* A private request: requestApiResponse. *)

LoadStart(o, t) ==
    /\ Synced(t).auth # NoOne
    /\ Starts(o, "load", t, "asked", Synced(t).revision, Synced(t).auth)
    /\ tab' = [tab EXCEPT ![t] = Synced(t)]
    /\ UNCHANGED <<cookie, stored, written, owner, mail, cookieLock, stray>>

\* The queries of a session that has ended, or that became another account's, were
\* cancelled (reconcile).
LoadDone(o) ==
    /\ At(o, "load", "asked")
    /\ LET x == Synced(Of(o))
       IN tab' = [tab EXCEPT ![Of(o)] = IF Holds(o) /\ x.auth = op[o].who
                                        THEN [x EXCEPT !.shown = @ \cup {op[o].who}] ELSE x]
    /\ OpEnds(o)
    /\ UNCHANGED <<cookie, stored, written, owner, mail, stray>>

\* 401: once more with the credentials of the refresh that followed, or the session
\* has expired.
LoadRefused(o) ==
    /\ At(o, "load", "asked")
    /\ LET x == Synced(Of(o))
       IN IF Holds(o) /\ x.auth # NoOne
          THEN \/ op' = [op EXCEPT ![o].who = x.auth] /\ tab' = [tab EXCEPT ![Of(o)] = x] /\ UNCHANGED <<cookieLock, begun>>
               \/ OpEnds(o) /\ tab' = [tab EXCEPT ![Of(o)] = SignedOut(x)]
          ELSE OpEnds(o) /\ tab' = [tab EXCEPT ![Of(o)] = x]
    /\ UNCHANGED <<cookie, stored, written, owner, mail, stray>>

\* The page is loaded anew; its requests end with it.
Reload(t) ==
    /\ tab' = [tab EXCEPT ![t] = Fresh(stored)]
    /\ mail' = [mail EXCEPT ![t] = <<>>]
    /\ op' = [o \in Op |-> IF op[o].tab = t THEN Idle ELSE op[o]]
    /\ cookieLock' = IF cookieLock # NoOp /\ Of(cookieLock) = t THEN NoOp ELSE cookieLock
    /\ stray' = (stray \/ \E o \in Op : Of(o) = t /\ Astray(o))
    /\ UNCHANGED <<cookie, stored, written, owner, begun>>

BrowserNext ==
    \/ SessionEnds
    \/ \E t \in Tab : Receive(t) \/ Notice(t) \/ Reload(t)
    \/ \E o \in Op :
        \/ \E t \in Tab :
            \/ \E a \in Account : Login(o, t, a)
            \/ Refresh(o, t) \/ Logout(o, t) \/ LoadStart(o, t)
        \/ EnterLock(o) \/ Fails(o)
        \/ LoginAnswered(o) \/ LoginDone(o)
        \/ RefreshAnswered(o) \/ RefreshDone(o) \/ RefreshRefused(o)
        \/ LogoutDone(o) \/ LoadDone(o) \/ LoadRefused(o)

BrowserSpec == BrowserInit /\ [][BrowserNext]_browserVars

-----------------------------------------------------------------------------
(* Properties. *)

BrowserTypeOK ==
    /\ cookie \in MaybeAccount /\ stray \in BOOLEAN
    /\ stored \in Revision /\ written \in Revision /\ begun \in 0..MaxRequests
    /\ owner \in [Revision -> MaybeAccount]
    /\ tab \in [Tab -> TabState]
    /\ mail \in [Tab -> Seq([rev : Revision, persisted : BOOLEAN])]
    /\ cookieLock \in Op \cup {NoOp}
    /\ op \in [Op -> [kind : {"none", "login", "refresh", "logout", "load"}, tab : Tab \cup {NoOne},
                      pc : {"idle", "waiting", "asked", "answered"}, rev : Revision,
                      who : MaybeAccount]]

\* "Late responses cannot restore a logged-out session or update a different account"
\* (deploy/staging/release-5-authentication.md:9): a tab that has heard of the last
\* login or logout of the browser holds the credentials and the data of the account
\* that logged in, or of nobody, whatever requests of which tabs were under way.  A
\* login that got its cookie and lost its answer is the exception: the next refresh of
\* any tab follows the cookie.
OneAccountPerBrowser ==
    \A t \in Tab :
        tab[t].revision = written /\ ~stray =>
            /\ tab[t].auth \in {NoOne, owner[written]}
            /\ tab[t].shown \subseteq {owner[written]}
=============================================================================

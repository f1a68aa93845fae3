# Verification of the StreetZ / crushclub application

TLA+ modules of the parts of this repository whose correctness depends on
interleavings, failures and time; TLC runs that check them on small instances;
and TLAPS proofs of the safety properties for every value of the constants.
Line numbers are those of the commit the modules were read from.

    tlc -workers 2 -config MCTicketing.cfg MCTicketing      # one run
    tlapm TicketingProofs.tla                               # one set of proofs

## 1. The system

One NestJS API (several replicas), one worker program (several processes), one
PostgreSQL database reached through Prisma, Redis for realtime messages and
rate limits, object storage for photos, Paystack for payments, SMTP for mail,
and a Next.js web application. All state that matters is in PostgreSQL; API
and worker share it and talk to each other only through it.

| Part | State it keeps | Operations | Interacts with |
| --- | --- | --- | --- |
| ticket reservations and payments (`payments/`, `events/ticket-reservations.ts`) | Ticket, TicketType.soldCount, Payment with its metadata | reserve, initialize, confirm, verify, record a failure, settle a refund, clean up | Paystack (calls, webhook), the worker, events, mail jobs |
| events (`events/events.service.ts`) | Event, TicketType | create, publish, edit, cancel, free booking | reservations, rooms, venue e-mails |
| membership (`payments/`) | User.subscriptionStatus, subscriptionEndsAt | initialize, verify, combined checkout | Paystack, tickets |
| guest tickets (`events/guest-tickets.service.ts`) | GuestTicketRequest, GuestTicketOrder, Ticket | request a code, confirm | tickets, mail jobs |
| job queue (`jobs/job-queue.service.ts`) | BackgroundJob | enqueue, claim, renew, complete, fail, recover, purge, retry | every producer, the workers |
| worker (`jobs/background-worker.service.ts`, `job-handler.service.ts`) | per process: stopping, the batch, lostLease | run, process, stop | queue, payments, mail |
| sessions (`auth/`) | RefreshToken, PasswordResetToken | login, refresh, logout, reset | accounts |
| accounts and moderation (`users/`, `admin/`) | User.accountStatus, ModerationAction | deactivate, reactivate, delete, ban, suspend, restore | sessions, discovery, rooms |
| admissions (`admissions/`) | EventCheckInStaff, Ticket.status | assign, remove, scan | accounts, tickets |
| venue e-mails (`tickets/`) | EventVenueEmail | scan, queue, deliver | events, job queue |
| conversations (`messages/`, `discovery/`) | Match, DirectMessage, Block | request, accept, decline, close, block | accounts, profiles |
| API lifecycle (`lifecycle/`) | draining, active work, idle listeners | begin, complete, drain, deadline | every request |
| rate limits (`abuse/`) | two Redis keys per identifier | increment | every request |
| rooms and realtime (`rooms/`, `realtime/`) | ChatMessage, memberships, sockets, Redis connections | join, post, broadcast, load, drain | web pages, events |
| notifications (`notifications/`) | NotificationSeen | feed, counts, mark seen | every row an alert is about |
| support (`support/`) | SupportRequest, SupportMessage | create, reply, change status | mail jobs, two kinds of pages |
| profiles and storage (`profiles/`, `storage/`) | Profile, ProfilePhoto, S3 objects | save, upload, register, delete, backfill | erasure, rooms |
| analytics, health, mail rendering | counters, nothing, nothing | | |
| web application (`apps/web`) | the session of a browser, query caches, what each page shows and has in flight | pages | API, sockets, Paystack's page |

What is hard, and what correctness means where it is:

- **Selling tickets.** One reference is verified by the buyer's callback, the
  webhook and a reconciliation job, at the same time and again after failures.
  Reservations expire, are replaced by the buyer's next checkout and are cleaned
  up by a job while their payments are under way. Reads happen before the
  locks. A purchase has to settle once, with its tickets or a refund; the sold
  count has to be exact; capacity and purchase limit have to hold.
- **The job queue.** Workers crash, pause past their lease, lose statements and
  are told to stop. A job has one owner; an owner that lost its lease changes
  nothing; every job ends; credentials do not outlive their use.
- **One row, several writers.** A User row is written by sessions, resets, the
  member, administrators and payments, each of which reads it, decides, and writes
  in a transaction that does not read it again. A revoked session must not come
  back, a ban must stay, no period may be paid for twice or granted for nothing.
- **Guests and doors.** Codes are guessed in parallel, confirmations of one address
  meet, the same ticket is scanned at two doors while its scanner is removed.
- **Two members.** Requests, answers, messages, blocks and likes of both sides
  cross. A block must hold against requests that began before it.
- **Things delivered.** Broadcasts are kept nowhere, mails are sent at least once,
  objects live in a store without transactions, seen marks are written for a state
  that may be over. Nothing may be lost between a load and a broadcast, no
  mail repeated without need, no row may refer to an object that is gone.
- **Pages.** Answers arrive in another order than their requests, for a page, a
  query, a login or a document that is no longer there. What is on the screen must be
  about what the user has open; what was typed or bought must not be undone.

`PROJECT.json` lists each hazard at its line with the properties about it.

## 2. The modules and how they compose

| Module | Models | Checked by | Proved in |
| --- | --- | --- | --- |
| `Settlement`, `Ticketing` | selling one tier: checkouts, payments, refunds, cleanup, event edits, Paystack | `ticketing`, `ticketing_liveness`, and three runs of findings | `TicketingProofs` |
| `JobQueue` | the queue, its workers and their shutdown | `job_queue`, `job_queue_liveness` | `JobQueueProofs` |
| `Accounts` | every writer of one User row: sessions, resets, status, moderation, membership | `accounts`, `accounts_block` | `AccountsProofs` (sessions, membership) |
| `GuestBookings` | free tickets for visitors by e-mailed codes | `members` | `VisitorsProofs` |
| `Admissions` | scans at the door, staff, moderation | `members` | `VisitorsProofs` |
| `Conversations` | the conversation of two members, likes and blocks | `members` | `MessagesProofs` |
| `LiveThreads` | an event chat over replicas, Redis, sockets and loads | `members` | `MessagesProofs` |
| `ProfilePhotos` | photo rows and the objects they refer to | `members` | `ProfilesProofs` |
| `Support` | a support request and the pages that write to it | `members` | `MessagesProofs` |
| `Alerts` | alerts derived from rows, seen marks, the page | `members` | `ProfilesProofs` |
| `DiscoveryWalk` | the pages of a ranking that changes | `members` | `ProfilesProofs` |
| `Events` | an event, its room and its venue e-mails | `events_and_tabs` | `EventsAndTabsProofs` |
| `BrowserSession` | one login over the tabs of a browser | `events_and_tabs` | `EventsAndTabsProofs` |
| `CookieLock` | the bakery lock of browsers without Web Locks | `events_and_tabs` | `EventsAndTabsProofs` |
| `AdminUsers`, `ReportDesk`, `EventEditor` | pages of administrators and organisers | `pages` | `PagesProofs` |
| `DoorPage` | the phone at the door | `pages` | `PagesProofs` |
| `Inbox`, `ProfileEditor`, `Checkout`, `EventPages` | pages of members and guests | `pages` | `PagesProofs` |

Composition. `Ticketing` composes reservations, payments, event edits, the cleanup
job and Paystack, because they write the same rows; `Accounts` does so for the
User row, `Conversations` for the rows of messages and discovery, `LiveThreads`
for rooms, the realtime transport and the API's shutdown, and `DoorPage`, `Checkout`,
`EventPages`, `EventEditor`, `Inbox` and `Support` each compose a page with the API that
answers it. `MCMembers`, `MCEventsAndTabs` and `MCPages` put modules that
share no state into one run; a behaviour is about one of them (`focus`).

Abstract specifications. `Settlement` states what selling promises and
`Ticketing` implements it (`SettlesOnce`). The other promises are single formulas and are
stated as such. No module declares a RECURSIVE operator, so that all of them
can be proved about.

What remains of the plan: the remaining pages (section 10).

## 3. Settlement and Ticketing

`Settlement` is what selling tickets promises: a purchase is open and ends at
most once, issued or refunded, and the number sold is the number issued.

`Ticketing` is the detailed module of one tier of one event.

| In the module | In the code |
| --- | --- |
| `ticket`, `reservedUntil` | Ticket.status and reservedUntil; PAID stands for PAID, CONFIRMED and CHECKED_IN, `none` for no row |
| `soldCount`, `capacity`, `price`, `eventStatus` | TicketType, Event; the price is nothing or something |
| `granted` | the capacities the tier has had (history) |
| `payment`, `refundRequired` | Payment.status, and `providerMetadata.refundRequired` |
| `emailJobs` | the TICKET_EMAIL jobs queued by `queueTicketEmail` |
| `checkout[p]` | one call of a booking endpoint; its `now` and `cap` are what the code read before its transaction |
| `call[c]` | one run of `verifyAndActivateEventTicket`; `missing`, `published`, `now`, `cap`, `found`, `held` are its local values |
| `charge` | Paystack's own record, external |
| `StartCheckout`, `ReserveTickets`, `ReserveRejected` | `reserveEventTicketsForPayment`: reads, then one transaction under the tier's lock |
| `CreatePayment`, `InitializeFails`, `ConfirmReservedTickets` | the three ends of `initializeEventTicket` and `initializeEventTicketCheckout` |
| `StartFreeBooking`, `BookFreeEvent`, `BookFreeRejected` | `bookFreeEvent` |
| `VerifyStart`, `ProviderAnswers` | the reads and early returns, the answer and the choice of a path |
| `RecordNonSuccess`, `SettleRefund` | `recordNonSuccessPayment`, `settleRefundRequired` |
| `ActivationLock`, `ActivationRefund`, `ActivationCommit` | the activation transaction before and after the lock of the tier |
| `CleanupExpired`, `CancelEvent`, `SyncCount`, `SyncCommit` | the job, and the edits of `updateEvent` |
| `CheckoutDies`, `CallDies` | a request that ends half-way: timeout, abort, process exit |

A transaction is one step where everything it writes depends only on rows it
has locked; otherwise it is split at the lock, as READ COMMITTED allows.
Variants named `X_Y` beside an operation `X` are plausible mistakes in it: each
of them makes one property fail, which shows that the property depends on the
operation.

Abstractions. One tier: other tiers share no lock or count with it. A member may
use either checkout, so `pays` is chosen. Amounts, signatures and wording are
left out, as are the two refusals that only look at amounts. `reversed` is
treated by the code as `failed`. Price and limit edits, guest bookings, the
removal of a tier, and the membership part of a combined payment are not in this
module; the results about a tier with a price assume that it keeps its price.
A request that took its `now` ends before the second tick after it (`HoldsNow`):
Paystack is given 15 seconds, a Prisma transaction 5, and a tick stands for a
minute or more, the unit of EVENT_TICKET_RESERVATION_MINUTES.

`SoldCountCountsEachIssueOnce` and `ConfirmedIsPaidFor` say that no verification counts or issues
a purchase twice, `LostPaymentsKeepNoSeats` that neither a refund nor a failure leaves
a ticket, `PaidTierPurchaseLimit` and `PaidTierNeverOversold` that a tier with a price keeps its
limits, `ConfirmedForever` that what is sold stays sold, `SettlesOnce` that this
implements `Settlement`; `PendingChargeSettles` and `ExpiredReservationEnds` that a received charge is
settled and an expired reservation goes. What the code does not keep is in section 8.
Because of finding 1 the sold count is compared with the tickets *issued*, by
settled payments and free bookings, not with the rows that exist.

## 4. JobQueue

| In the module | In the code |
| --- | --- |
| `row[j]` | the BackgroundJob row of key j; `delay`, `lease` and `ttl` are the ticks until runAt, lockedUntil and expiresAt; `secret` is encryptedPayload |
| `slot[s]` | one place of the batch: `process(job)` with its token, its attempt and `lostLease` |
| `loop[p]`, `stopping[p]` | where `run()` is, and the flag `stop()` sets |
| `delivered`, `obsolete` | whether the provider accepted the side effect; whether the entity is used, settled or gone, which makes a handler return early |
| `Enqueue` | `enqueueJob`, `schedule` and the insert of `scanPayments` |
| `Claim`, `ClaimNothing` | the claim statement; a batch slot without a job |
| `RenewTimer`, `BeforeSideEffect` | the timer and the callback given to handlers |
| `NothingToDo`, `Refuse`, `SideEffect` | the three things every case of `handle` does |
| `Complete`, `Fail` | the acknowledgements, fenced by token and lease |
| `RecoverExhausted`, `RecoverExpired`, `ForgetSecrets` | the statements of `recover`, one step each |
| `StartBatch`, `EndBatch`, `Wake`, `StartWorker`, `StopWorker` | `run`, `onModuleInit`, `stop` |
| `StatementFails`, `MaintenanceFails`, `Crash` | a statement that throws, also after it has committed; SIGKILL |
| `Retry`, `Purge` | the administrator's retry; the removal after seven days, at any time here |

Time is relative, so the state space is finite without a bound on the clock; a
tick lowers every remaining time. Only faults are bounded. A fresh token is one
that no row and no slot remembers, which is what `randomUUID()` promises.
The heartbeat, `ready()`, the import of old ticket e-mail rows, the `sentAt`
mark of ticket e-mails and traffic cleanup are left out.

`OneOwner`, `LeaseIsFenced`: two live claims never own a job, and a worker whose lease is
over changes nothing. `PendingIsClaimable`, `SecretsFollowTheJob`, `SuccessIsEarned`: a job that waits
can run, its credentials live exactly as long as it needs them, nothing is acknowledged that was not done.
`ShutdownDrains`, `StopEnds`, `JobEnds`, `ExpiredSecretsGo`: a stopped worker has no work left, a stop
comes to an end, so does every job, and expired credentials are removed.
E-mail is at least once, as the documentation says, so there is no property that a side
effect happens only once.

## 5. Rows and requests

Each module here follows requests step by step: a read, a check, a lock and a
write are steps of their own wherever another request may come between.

**`Accounts`** - one User row and what hangs on it. `status`, `suspension`,
`password`, `months`, `live`, `token`, `link`, `payment`, `report` are the
columns and rows; `request[r]` is one request with what it has read, `userLock` and
`profileLock` the rows its transaction has updated. `Starts`, `FirstLock`, `Commit`,
`Release` are the transactions over User and Profile: deactivate, reactivate, erase, suspend, ban,
restore, remove, edit; `ResetCommit`, `VerifyCommit` and the others write one row.
`RefreshStart`, `RefreshRotate`, `RefreshReplace` are the rotation, which keeps the lock of the old
token between its statements; `RefreshBlocked` the refresh of a blocked account, which
revokes all; `DeadlockAborts` the deadlock that PostgreSQL breaks, `Dies` the end of a process.
`SessionsDoNotFork`: a refresh token is replaced once, so that one login has at most one live token
(`auth.service.ts`). `NeverMoreThanPaid`: periods never exceed settled payments. `RequestsEnd`: no
request waits for another for ever. `BlockedSessionsEnd`: each token that is usable while its
account is banned or deleted stops being usable, or the block ends. It is said of each token and not of all
of them together, because `login` refuses a deleted account only (`auth.service.ts:46`): a banned
member may get another token at any time (section 8).

**`GuestBookings`** - `code`, `order`, `members` are rows, `guesses` counts the
comparisons (history), `caller[k]` is one request of `requestVerification`
(`AskStart`, `AskCommit`) or `confirmBooking` (`Guess`, `CountGuess`, `ConfirmLock`,
`ConfirmCommit`), `tierLock` the tier's FOR UPDATE. `MemberBooks` is `bookFreeEvent`; a
tier may get a price, an event may close, a process may end.
`OneBookingPerAddress`, `GuestsNeverOversell`, `GuessesAreBounded`.

**`Admissions`** - `ScanActor`, `ScanEvent`, `ScanStaff`, `ScanTicket`, `ScanAnswer` are the
statements of the one transaction of `scan`, with their locks FOR SHARE and FOR UPDATE
derived from how far a scan has come; `AssignStaff`, `RemoveStaff`, `AccountBlocked`,
`EventMoves` wait for them. `AdmittedOnce`, `NoScanAfterRevocation`.

**`Conversations`** - `match`, `blocker`, `liked`, `inbox`, `readUpTo` are the rows of two
members; `request[c]` is one request of either, query by query; `clear` and `live`
record whether since it began there was a moment without a block it has to respect, or with the
conversation open (history). Who unblocks respects the other's block only (`Lifted`).
`NoContactAcrossABlock`, `EndedStaysEnded`.

**`LiveThreads`** - `posted` and `handler` are the stored messages and the requests
that still have to broadcast them, `replica`, `bridge`, `outbox`, `transit` the
processes and Redis, `socket`, `asked`, `loads`, `shown` a reader's page.
Processes drain, are killed and start; bridges break unnoticed, are found lost (their
clients are disconnected) and come back. `missing` records the broadcasts that nobody will
publish, because their process died. There is one more excuse: a reload that is absorbed by a load
under way does not count as one that began after the join (`rooms-tab.tsx:164`, section 8). What a page is still to get is what other replicas have yet to
publish and what is on its way to its own, which shows it at once when it handles the message itself
(`UnderWay`). `LoadedThreadIsWhole`.

**`ProfilePhotos`** - `photos` are rows, `objects` what S3 has; `task[t]` is one of
`registerPhoto`, `deletePhoto`, the erasure of `users.service.ts`, the backfill,
`consolidate-profile-photos.ts` and the joining of a room, step by step;
only registration and consolidation take `rowLock`. Rows are a set: their sortOrder
matters for which is the first only (`First`). `PhotosAreStored`.

**`Support`** - `inquiry` is the row, `screen` and `call` the pages of the requester and
of the administrators, `known` what administrators were shown, `astray` what only a
lost answer carried (history). `NoMessageIsBuried`.

**`Alerts`** - `news` are the rows that alerts are derived from, `marked` the
NotificationSeen rows, `feedPage` and `marks` the page and its requests, `listed` what
it has shown (history). `NewsIsNotLost`: what is marked as seen was shown with what it says now, but for
the status of a payment, whose mark is its id alone (section 8).

**`DiscoveryWalk`** - `standing` is the ranking, `people` and `nextCursor` the page's list,
`search` and `more` its requests; `steady` are those who had no reason to be missed (history).
`NobodyIsSkipped`.

**`Events`** - `event`, `room`, `holding`, `delivery` are rows, `organiser[o]` an
`updateEvent` in progress, `worker[w]` a scan or a delivery in progress.
`OneMailPerDetails`, and under `EventsFairness` (workers go on, failures are bounded)
`HoldersAreTold`.

**`BrowserSession`** - `cookie`, `stored` and `mail` are what the tabs share: the refresh
cookie, the revision in localStorage, the channel; `tab[t]` what a tab keeps in memory;
`op[o]` a login, refresh, logout or load in progress. `OneAccountPerBrowser`.

**`CookieLock`** - `lease` are the items of localStorage, `pc`, `todo`, `highest` the
progress of a claim through `withCookieLock`; every read of an item is a
step, leases expire, whoever reads an expired one removes it, and tabs are closed.
`TabsExclude`: within their leases, one at a time. Listing the keys is one step,
which is what the code assumes of the browser too.

## 6. Pages

These modules keep, for each page: what the server has, what the page shows, and the
requests in flight with what they have read, so that answers arrive in any order, late, or not at all.
Timers without delay and renders belong to the step that causes them.

| Module | State | Property |
| --- | --- | --- |
| `AdminUsers` (`users-tab.tsx`, `getUsers`) | filters, debounce, the request that gives way to the next, pages that vanish | `ListAnswersTheQuery`: at rest the list answers the filters on the screen |
| `ReportDesk` (`reports-tab.tsx`, report handlers of `admin.service.ts`) | two administrators' pages, their loads (at each new access token, and by the button, whatever else is under way), their confirmed decisions | `DeskShowsItsDecision`: once a decision was answered its page shows the report as that left it or later, except from a load that was under way when the answer came |
| `EventEditor` (`admin-event-*.tsx`, `createEvent`, `updateEvent`) | list and form, cover upload, saves, the tiers they make, the reload at a new token | `SavedAsSubmitted`: what is sold is what was saved, and a ticket keeps its tier |
| `DoorPage` (`ticket-check-in-modal.tsx`, `ticket-camera-scanner.tsx`, `event-check-in-staff-modal.tsx`) | list of events, scanner, checks in flight, staff dialog | `DoorScreenIsTrue`: an answer is about the ticket in the box, and no red screen is the last word about a ticket its own check let in |
| `Inbox` (`matches-tab.tsx`) | conversations, open thread, cache, socket, a message being sent | `ScreenIsTheOpenThread` |
| `ProfileEditor` (`profile-tab.tsx`) | form, shared query and its cache, save, upload, place search, the load at a new token | `TypedWordsStay`: what is typed stays until a save, or the load of a new token, writes the form |
| `Checkout` (`app/page.tsx`, `pending-event-checkout.ts`, callback page) | choice kept in localStorage, orders, verification | `ChoiceIsOrderedOnce`: one order of a visit at a time, and the last choice is kept until an answer that forgets choices, of whichever order, or half an hour |
| `EventPages` (`member-events-tab.tsx`, `event-tickets-tab.tsx`, `ticket-checkout-modal.tsx`) | lists, dialog, caches, reads, bookings, viewers | `PagesKeepUp`: a cancelled event does not come back, tickets are those of who is logged in |

The first four are the conjuncts of `AdminPagesAgree`, the others of
`MemberPagesAgree`. Each conjunct has a mutant of its own.

## 7. The runs, their bounds and their fairness

| Run | Instance | States | Shows |
| --- | --- | --- | --- |
| `ticketing` | two purchases of one ticket, two buyers, two verify calls, capacity 1 or 2, free and paid; at a paid tier also edits of the capacity, at one that keeps its one seat also one fault | 842,000 | the safety properties of section 3 |
| `ticketing_liveness` | one purchase of two tickets, two calls, capacities 1 and 2 with edits between them, one fault, fairness | 53,000 | `PendingChargeSettles`, `ExpiredReservationEnds` |
| `ticketing_lost_payment`, `ticketing_oversold`, `ticketing_unsettled` | as those, with a fault, a reservation of two ticks, fairness | - | violated: findings 1, 2, 3 |
| `job_queue` | two processes with one slot each, one job, two attempts, one fault, three tokens; deadlock checked | 360,000 | the safety properties of section 4 |
| `job_queue_liveness` | one process with two slots, fairness | 125,000 | the liveness properties of section 4 |
| `accounts` | two requests at a time, three tokens, two links, two payments, four mixes of kinds, fairness | 151,000 | the properties of `Accounts` |
| `accounts_block` | the mix of moderation and the member's own changes | - | violated: finding 4, after eight steps |
| `members` | guest bookings, the door, two members, a chat, photos, support, alerts, discovery: one of them per behaviour | 1,282,000 | the properties of section 5 |
| `events_and_tabs` | an event with its e-mails, a browser, its cookie lock: one of them per behaviour, fairness of the worker | 460,000 | `OneMailPerDetails`, `HoldersAreTold`, `OneAccountPerBrowser`, `TabsExclude` |
| `pages` | eight pages, one of them per behaviour | 1,477,000 | `AdminPagesAgree`, `MemberPagesAgree` |

Modules in one run share no state, so nothing is lost when a behaviour is about one
of them: their states add up and do not multiply. The other modules stand still (`Still`).

*Ticketing.* Two purchases and two calls are enough for every pair of operations to
interleave: the code's conflicts are between two verifications of one payment,
between one purchase and another of the same tier, and between a purchase and a
job or an edit. Two ticks of the clock let a reservation be active, expire and be late.
`OneStory` keeps faults to where the last seat is at stake, and edits to a paid tier, whose capacity the
properties are about; the proofs have no such restriction, and `ticketing_liveness` edits both. A purchase of
two tickets finds a capacity of one too small and is the last that fits into two. Symmetry exchanges both purchases with their
tickets, buyers, and calls; it is not used with liveness.

*JobQueue.* One job is enough because no statement relates two rows; two attempts give a
retry and a last attempt; a lease of one tick expires under every later step;
two slots give a takeover, and three tokens let a third claim follow it.
Tokens, and processes with their slots, are symmetric in the first run.

*Accounts.* Every conflict is between two requests, so two are served at a time; each of the
four mixes holds the kinds that write the same rows (sessions and bans; resets and erasure;
moderation and the member's own changes; payments, edits and removal). Three tokens
let a session be rotated while another login is open, also after a ban; two payments overlap. Two of the
tokens belong to browsers that stay open (`Kept`). `BlockedSessionsEnd` speaks of each token, so that
it does not rest on their number.

*Members.* Guests: two callers, two codes, one seat, two wrong guesses. Door: two scans, two
tickets, an administrator and a member of the staff. Two members with two
requests in progress, four begun, two messages. Chat: two replicas, a reader, two messages, one fault
(a kill, a lost link or a dead socket). Photos: three tasks, two at a time, a key to upload and two photos
from before. Support: three letters,
two administrators; they are alike, so ad1 begins (`InTurn`), and one rare step (the end of a
guest's link, a lost answer, a change of status alone) happens (`OneRareStep`). Alerts:
two changes of one subject, since no alert is about two (`Subjects`); a payment may fail in one way and then in another. Discovery: three
people, pages of one, two moves, two searches.

*Events and tabs.* Two organisers, two workers, two venues and starting days, two edits, one crash. Two tabs,
two accounts, two requests in flight, three begun, two logins or logouts; tabs, accounts and requests are alike, so
the first is fixed (`OneOfAKind`). Two claims suffice for the lock's mutual exclusion; the
proof has any number.

*Pages.* Each page has two requests in flight, which is the least that can be answered out of order,
and one of each outside event. The reports have three loads together, or two and a
lost answer (`OneStoryOfReports`); of a new token, a change elsewhere and a failed request a profile meets
two, or one beside an upload (`OneStoryOfTheProfile`). `OneStoryOfMessages`, `OneStoryOfEvents` and
`OneStoryAtTheDoor` leave out behaviours in which several rare steps that do not meet
happen one after the other, and those that differ only by a name.

Deadlock is checked for `job_queue`. The others say CHECK_DEADLOCK FALSE because their
systems stop rightly: when the bounds are used up and all is settled, nothing is left to do.

Fairness.
- `Ticketing`: a call that is being served makes progress; faults are bounded;
  Paystack repeats its webhook and the reconciliation job retries PENDING
  payments, so verification of a purchase that can start again and again does
  start (strong fairness); the cleanup job is scheduled every five minutes; time
  passes. Finding 3 has the same fairness, so that its counterexample is not
  one of a system that stands still.
- `JobQueue`: slots and loops make progress because handlers return (mail and
  provider calls have timeouts) and processes are restarted; maintenance is due
  again every 15 seconds, so a loop that wakes again and again does it again and
  again (strong fairness); time passes. `JobEnds` and `ExpiredSecretsGo` assume
  that workers are not redeployed for ever: with a stop before every maintenance
  nobody could promise them.
- `Accounts`: PostgreSQL queues the transactions that wait for a row, so a request that can
  go on again and again does (strong fairness of `Proceeds`). A browser that stays open looks at its
  session every 30 seconds and refreshes it once the access token is about to expire
  (`session-provider.tsx:71`), hence weak fairness of `RefreshBlocked` for the tokens that such a
  browser has (`Kept`). Nothing is assumed of the others but that their time runs out (weak fairness of `TokenExpires`).
- `Events`: a worker goes on with what it has begun; the scan is scheduled again and again
  and a failed delivery is retried, so that either happens in the end (strong fairness);
  crashes are bounded.

Mutants. Variants named `X_Y` beside an operation `X` are plausible mistakes in it: with
one of them in X's place a property fails, which shows that the property depends on the
operation. Every property has one; each conjunct of `AdminPagesAgree` and
`MemberPagesAgree` has one of its own.

## 8. What the code does not keep

Found by a run, each against a sentence of the repository:

1. `ticketing_lost_payment`: the activation reads the tickets before it locks the tier. If a
   cleanup, a cancellation or another checkout of the buyer deletes the reservation in
   between, the payment becomes SUCCESS without tickets and without a refund
   flag, the sold count still grows and an e-mail job is queued
   (`payments.service.ts:615`, `:634`, `:745`; `deploy/paystack-live.md:57`).
2. `ticketing_oversold`: on a tier without a price, a payment for membership and ticket can be
   activated although its reservation expired during the activation and
   `bookFreeEvent` gave the seat away (`payments.service.ts:583`, `:712`;
   `release-4-background-jobs.md:111`).
3. `ticketing_unsettled`: a charge that succeeds after its payment was recorded as abandoned or
   failed is never settled or flagged (`payments.service.ts:501`;
   `deploy/paystack-live.md:57`).
4. `accounts_block`: `deactivateAccount` and `reactivateAccount` check the status, and then write it by
   id in a transaction that does not: a ban committed in between is lifted by its subject
   (`users.service.ts:74`, `:89`, `:138`).

Met while modelling, kept in the modules as they are, and without a run:

- Payments: `confirmReservedTickets` queues no e-mail (`payments.service.ts:827`;
  `ticket-email-queue.ts:4`). Two payments that extend a membership at once read the same end, so
  one month is lost (`payments.service.ts:430`).
- Events: two edits at once can leave a PUBLIC event with a paid tier; a PUBLISHED save that overlaps a
  cancellation revives the event. Clearing the end date in the editor sends nothing
  (`admin-event-model.ts:317`, `events.service.ts:181`); a save from an old page overwrites
  another's; a create that is retried after a lost answer makes a second event.
- Accounts: `login` refuses a deleted account only, so a banned member logs in and gets tokens for as long
  as the ban lasts; each is refused or revoked when it is presented (`auth.service.ts:46`, `:165`).
- Members: when both unblock at once, the conversation stays blocked
  (`discovery.service.ts:595`); an unblocking that crosses a block by the other member leaves the
  conversation ACTIVE under that block, where sends are still refused
  (`discovery.service.ts:566`); of two requests that cross, the first message is lost
  (`messages.service.ts:272`); lastReadAt may go back; the daily limit is counted
  before the request is created.
- Profiles: a photo can be registered twice; erasure leaves the objects of an upload in progress; two
  deletions at once leave a member without a photo. The reload after a save drops what was
  typed since; a location that arrives after a save shows a city that is not saved. Each new access token
  loads the profile with the form, from the cache or the server, and overwrites what the member is
  typing (`profile-tab.tsx:108`, `:134`, `:153`).
- Rooms: `markRoomRead` fails after the message was stored, which is then not broadcast; a forced load is
  absorbed by one in flight (`rooms-tab.tsx:164`; `release-6-multiple-api-instances.md:12`); a ban misses a socket
  that authenticated before it; leaving a room that is answered late sends the member to /events
  (`rooms-tab.tsx:345`).
- Sessions: a login whose cookie arrived and whose answer did not leaves its cookie behind
  (`stray`); the fallback lock relies on listing the keys of localStorage at one moment.
- Notifications: the feed takes its rows before the filter of those seen; an automatic mark that failed is
  not retried while the feed stays the same; the mark of a payment is its id alone, while the alert shows its status, which may
  change from ABANDONED to FAILED or REVERSED: the mark of the old status hides the new one
  (`notifications.service.ts:635`, `notifications-tab.tsx:655`, `payments.service.ts:978`); an older count overwrites a newer one until the next 30 seconds.
- Discovery: a search and a load-more are not exclusive; a list read before leaving the pool is
  still shown; a cursor whose person has vanished makes load-more fail until a new search.
- Support: a retry after a lost answer posts a reply, or creates a request, twice; a reply whose
  page was read before the closing reopens the request.
- Reports: a restoration from an old page lifts a ban that the page did not show; a dismissal overwrites
  ACTIONED (`admin.service.ts:217`); SUSPEND and BAN of a deleted account are not refused,
  and RESTORE beside a deletion revives it; a decision whose answer was lost leaves the page as it was. A load that has read the report before a decision and is
  answered after it brings the old report back; each new access token starts one, also while the
  decision is under way, and so does the button (`reports-tab.tsx:416`, `:473`, `:494`).
- Event form: each new access token loads the event again over what is typed (`admin-event-form.tsx:85`).
- Messages page: an older list overwrites a newer one; an older thread drops a read tick; what is
  typed during a send is cleared by its answer.
- Checkout: a change of the token while an order is in flight sends the home page on
  before the answer (`app/page.tsx:362`); an order that outlived its page, or an older payment, forgets
  a newer choice; leaving the provider and coming back orders the kept choice again; it survives
  a change of the account; the preview falls back to the first tier while the request sends
  the saved one.
- Event pages: a list read before a booking overwrites what the booking answered; a booking's answer
  brings back an event that a read has just found gone; `applyGuestBooking` subtracts seats
  that a read already counted; the dialog changes the tier silently when its own is gone; a
  guest whose dialog is unmounted never sees the confirmation; the restored public
  cache may be older than the page's own list; the answer of a paid order takes the
  browser to the provider from any page.
- Door: a retry after a check that was recorded says "already used" of a holder not yet let in;
  a retry after a revocation says red although the first try checked in; the staff dialog's first
  load may be answered after a change.

These are stated as limits of the properties: for example `DoorScreenIsTrue` is about a check that was
answered, `OneAccountPerBrowser` leaves out a stray cookie, `NeverMoreThanPaid` bounds
the months from above only, so that a month that is lost is not caught. Nor do the properties catch: the mail with the old venue itself (`HoldersAreTold` demands
the one with the new), a request accepted from the status it had before its end (`EndedStaysEnded`
allows what began while the conversation was open), live messages that vanish from an open thread, a choice
ordered again after the provider, a list of events that was read before a booking, and repeated
posts to support or a reply that reopens a closed request.

## 9. Proofs

Eight modules hold theorems for every value of the constants, each from the named assumptions of the
modules it is about. Each proof has an inductive invariant, one lemma per group of steps, and a theorem
per property. The assumptions ask for finite sets where cardinalities or extremes are compared, for positive
limits (`\in Nat \ {0}`), for values that stand for nothing to differ from the others, and in
`Conversations` for the two members; nothing else. `EventEditor` names its own beside the types it
speaks of: `NotCreatedIsNoEvent`, that the null of a missing event is not an event.

**`TicketingProofs`**

Assumptions: `TicketingAssumption` only (a finite set of ticket ids, positive
limits); the numbers of purchases, tickets, buyers, calls, ticks and faults are
arbitrary. None of the properties is inductive by itself. `IInv` adds

- `PaymentIsLast`: a purchase with a payment has finished its booking call;
- `RowsAreTogether`: the rows of a purchase exist together, with one status;
  this is what makes the code's checks on one ticket (`ticket.status`) speak for
  all of them;
- `CallsHoldTheirPayment`: two activations never hold one payment, and a
  payment being activated is not settled by anybody else;
- `MissingStaysMissing`: rows a call has seen missing never come back, so a
  call that deletes nothing leaves nothing behind;
- `PaidTierRowsFit`: on a tier with a price nothing is booked without paying, and
  all its rows, expired reservations too, fit into a capacity it has had;
  an activation that skips the count therefore cannot exceed it.

`Invariance` proves `Spec => []IInv` with one lemma per group of actions and
part of the invariant; the theorems then follow:

| Theorem | Property |
| --- | --- |
| `TypeCorrect` | `TypeOK` |
| `SoldCountIsExact` | `SoldCountCountsEachIssueOnce` |
| `SettlementIsConsistent` | `ConfirmedIsPaidFor`, `LostPaymentsKeepNoSeats` |
| `PaidTierIsNotOversold` | `PaidTierNeverOversold` |
| `PaidTierLimitIsKept` | `PaidTierPurchaseLimit` |
| `ConfirmedStays` | `ConfirmedForever` |
| `ImplementsSettlement` | `SettlesOnce`: every step is an `Issue`, a `Refund` or a stutter |

**`JobQueueProofs`**, from `JobQueueAssumption` only. `IInv` adds
`ClaimsAreComplete` (a working slot remembers its job, token and attempt),
`TokensAreUnique` (no token is remembered twice, the reason `OneOwner` holds),
`HoldersAreRight` (a slot that still owns its job has counted the row's attempts and is past a
side effect only if it happened), `FailedKeepsSecret` (a failed job that may be
retried has its payload) and `WorkIsInABatch`. The theorems are `TypeCorrect`,
`OneOwnerAtATime`, `JobsStayRunnable`, `SuccessMeansDone`, `StoppedIsDrained` and
`LeasesFence`, for any number of jobs, processes and slots.

**`EventsAndTabsProofs`**

- `CookieLock`: `TabsExcludeEachOther` proves `TabsExclude` for any number of claims. `LeaseHeld`
  says that within its lease a claim's item is the one it wrote, `ExpiredIsLate` that an item readers may
  remove belongs to a claim past its lease, `InsideHasLooked` that a claim inside has looked at every other, and
  `InTurn` that of two claims that know each other the smaller number goes first.
- `BrowserSession`: `TabsFollowTheLogin` (`OneAccountPerBrowser`). `BInv` adds `Heard` (no tab is ahead of
  localStorage), `TabsAreHonest` (a tab at the last revision has its account or none, and shows only its own data),
  `RequestsAreFine` (the same of what requests carry), `LockIsHeld` (who changes the cookie holds the
  lock) and `CookieIsKnown` (the cookie is that of the last revision, unless one is stray).
- `Events`: `DetailsAreMailedOnce` (`OneMailPerDetails`). `EventsInv` adds `VersionsAreCounted` (no version
  beyond the edits made), `OneRowEach` (the unique key of EventVenueEmail), `SlotsOK` (a slot that delivers
  has a running job of its own) and `MailsCounted`: the mails of a delivery exceed the
  lost attempts by one at most, and by none while its job may still start again unsent.

**`VisitorsProofs`**

- `Admissions`: `TicketsAdmitOnce` (`AdmittedOnce`) and `RevocationsHold` (`NoScanAfterRevocation`). `AInv`
  adds `ScansAreComplete` (a scan has the actor and the ticket of its progress),
  `OneScanPerTicket` (the FOR UPDATE of the ticket) and `LocksKeepWhatIsRead` (what a scan has read under a
  share lock is still so): the third is why a revocation waits.
- `GuestBookings`: `AddressBooksOnce`, `SeatsSuffice`, `GuessesBound`. `GInv` adds
  `CodesAreLeft` and `CodesAreComplete` (rows), `CallersKnowTheirCode`, `TiersAreHeld` (between
  ConfirmLock and the end the tier's counts stay) and `GuessesAreCounted`: guesses exceed the attempts
  stored by at most the callers that have yet to count theirs, and those that died.

**`MessagesProofs`**

- `Conversations`: `BlocksAreKept` (`NoContactAcrossABlock`) and `EndingsAreKept` (`EndedStaysEnded`). `ChatInv`
  says for each request how far it can be without having looked: the steps that make contact come after a look
  at the blocks (`PastBlocks`), those that revive a conversation after a look at its status (`PastStatus`). Each
  write then either makes no contact or ends a request that has looked (`Allowed`).
- `LiveThreads`: `NoMessageFallsThrough` (`LoadedThreadIsWhole`). `ThreadsInv` adds `Connected` (a socket is
  on a process that runs and has not closed it), `FreshSinceJoin` (a load counts only under the join
  it began after) and `NothingFallsThrough`: whatever a load that counts has not read is shown or under way, also while
  it is still being answered. Steps of the server lose nothing of a page that stays connected (`Carried`).
- `Support`: `NothingIsBuried`. `SInv` is `SupportTypeOK`, `InquiryOK` and `NoMessageIsBuried`, which
  is inductive as it stands: an answer under way carries how much of the thread it has seen.

**`ProfilesProofs`**

- `ProfilePhotos`: `ProfilesShowWhatIsStored` (`PhotosAreStored`). What a row may still come to refer to is
  `Coming`: the two objects of a key that no row has had, and the variants that a backfill is about to write.
  `PhotosInv` says that a key and its variants belong to one row for good (`KeysHaveOneOwner`), which
  keys are left (`FreshIsFresh`, `BareIsOld`, `BareIsBare`), what each task knows of the rows it read
  (`Knows`), and that no list of deletions holds what is coming (`DropsNothingComing`) or, once it is
  carried out, what is shown (`DropsNothingShown`).
- `DiscoveryWalk`: `TheWalkMeetsEverybody` (`NobodyIsSkipped`). `WalkInv` says that whoever stayed is listed or
  ranked after the cursor (`Reaches`), also for the page under way; a page that ends at the last of
  its people reaches that far (`PageReaches`). That some people have a first and a last is
  induction over a finite set, which the provers cannot do with the library's induction theorems; it is had from the well-foundedness
  of strict inclusion (`FS_StrictSubsetOrderingWellFounded`, `WFMin`), applied to the sets of those ranked before.
- `Alerts`: `MarksHideOnlyWhatWasShown` (`NewsIsNotLost`). `AlertsInv` says that what is marked, or in a mark under
  way, and what the open tab shows, has been listed; an entity id tells apart whatever its alert is about (`IdsAreAbout`).

**`AccountsProofs`**: `LoginsDoNotFork` (`SessionsDoNotFork`) and `MembershipsArePaidFor` (`NeverMoreThanPaid`). `SessionInv`
adds `LoginsAreKnown` (a login is named after its first token) and `RotationsHoldTheirToken` (from its
conditional update to its end a rotation alone holds its token); `MembershipInv` adds
`VerificationsHoldTheirPayment` (a verification alone holds a payment that does not count yet, and the months
it has read were paid for): the months written are then at most one more than the payments that count, and
the payment counts with the same commit. Deactivation, moderation, resets and expiries are covered by
`Writes`: whatever they do, tokens only fade and no payment comes to count.

**`PagesProofs`**. One invariant for each page, and a theorem for its conjunct:

| Page | Theorem | What the invariant adds |
| --- | --- | --- |
| `AdminUsers` | `TheListAnswers` | `OneIsHeeded`: of the requests at most one was not given up, and it asks for what the controls show; `IsSettled`: a list that answers something else is about to be asked for |
| `ReportDesk` | `DecisionIsShown` | `AtTheDesk`: a load that no decision has crossed (`IsFresh`), and the answer of a decision, are at least as late as the decision that the page remembers |
| `EventEditor` | `SavedIsSubmitted` | `IsSaved`: the event is what the form of its last undisturbed save asked for; what a page knows of the event is one that can be stored, so that a form made from it has every tier |
| `DoorPage` | `TheDoorIsTrusted` | `WaitsFor`: one check is waited for at most, by an open dialog with its ticket in the box; `ChecksAreSo`: what a check answered is what became of the ticket |
| `Inbox` | `ScreenIsOfTheThread` | `IsOf`: messages on the screen are of the open thread, and without one there are none; a request is answered while no thread is open |
| `ProfileEditor` | `TypingIsKept` | `UntilRewritten`: until a save, or the load after a save or a new token, writes the form, the form is what was typed |
| `Checkout` | `OrderedOnce` | `Flights`: an order on its way keeps the page of its visit busy, and that page starts nothing by itself again; `OneFlight`, `Keeps` |
| `EventPages` | `EventsKeepUp` | `PagesAre`: reads of an effect are of the viewer and the page of that effect (`ReadIs`), requests of a mount are of its viewer (`AskIs`), one read of an effect is open (`OneReadAnEffect`), and caches hold views of their own kind (`CacheIs`); `V` stands for the values that the argument does not look into |

`EachByItself` shows that a step of `MCPages` is a step of every page or leaves it as it is, and `SideBySide` that
its behaviours are behaviours of each; `AdminPagesAreTrue` (`AdminPagesAgree`) and
`MemberPagesAreTheirs` (`MemberPagesAgree`) follow. The restrictions of the run (`OneStoryOfMessages` and its
like) are not used: the theorems about the pages have none of them.

Only model-checked: all liveness (`PendingChargeSettles`, `ExpiredReservationEnds`, `JobEnds`,
`ExpiredSecretsGo`, `StopEnds`, `RequestsEnd`, `BlockedSessionsEnd`, `HoldersAreTold`), because fairness
and ENABLED are beyond the prover. Every invariant and every action property that a run
checks is proved. Induction over data and recursive operators would be out of reach too; no module needs them.
The violated properties are counterexamples of TLC.

## 10. Not modelled, and why

- Rate limits: one Redis script counts a hit atomically; nothing else reads its keys.
- Mail rendering and SMTP, formatting, wording, token and hash formats, amounts and signatures: data that no
  property tells apart. Sending a mail is the side effect of `JobQueue`.
- Traffic analytics, health, observability, configuration: no state that another part reads.
- Schema and migrations: the modules use the constraints they depend on (unique booking key, foreign keys).
- Deployment: procedures; their statements about the program are compared with the modules.
- Deadlocks between the row locks of reservations and activations (`payments.service.ts:634`):
  PostgreSQL aborts one transaction, which is a fault of `Ticketing`.
- Registration, which creates one row under a unique key; weights of the ranking; several tiers in one
  purchase, which share no lock.
- Overlapping loads of the discovery list (`discovery-tab.tsx:79`, `:133`): `DiscoveryWalk` has one at a time.
- The rest of the web pages: navigation of rooms, landing pages, the forms of support and
  settings. They send one request at a time, or show the modules' lists by the same hooks.

The status of each component in `PROJECT.json` says which of its operations are left out.

# A formal model of majubom

majubom is a reservation service for small shops: a Next.js application over one
PostgreSQL database (Drizzle), with cron-triggered batch jobs and no other shared
state. Everything that makes it correct happens in short transactions at READ
COMMITTED, in advisory locks, in values a handler read before its transaction
began, and in screens that hold what they were once answered. That is what these
modules model.

Paths below are relative to the repository root, without their `src/src/` or
`src/src/features/`; `booking/` is `src/src/features/booking/`, and so on.

## 1. Inventory

| Component | State | Operations | What must hold |
|---|---|---|---|
| Placing (`booking/create.ts`) | `reservations`, `reservation_logs` | create, change (cancel + create), walk-in | no seat sold twice, limits hold, a change is all or nothing |
| Transitions (`booking/transitions.ts`, `transition-rules.ts`, `console.ts`) | status, `canceled_at`, `no_show_source`, resource | approve, reject, cancel, complete, no-show, corrections, take-over, move | only the table's transitions, no decision lost, each one logged |
| Batch jobs (same file, `app/api/cron/*`) | the list of due ids | expire requests, automatic no-show | leave nothing due behind |
| Slots and context (`booking/slots.ts`, `context.ts`, `schedule/resolve.ts`) | none (pure over loaded rows) | compute the offered starts | same answer as the insertion's recount |
| Shop's settings (`business/settings.ts`, `hours*.ts`, `product/products.ts`, `schedule/work-schedules.ts`, holidays) | hours, product shape, pattern versions | edits while bookings run, with a question about reservations in the way | nothing booked falls outside unseen |
| Shift swaps (`schedule/swaps.ts`, `swap-rules.ts`) | `shift_swap_requests`, exceptions, moved reservations | request, accept, approve, deny, expire | approval is atomic, moves what both saw, nothing gets stuck |
| Work exceptions (`schedule/work-exceptions.ts`) | exceptions | register, decide, delete | the hours of a day follow the ranking |
| Sessions (`auth/session-store.ts`, `refresh.ts`, `proxy.ts`) | `sessions`, two cookies a browser | rotate, recheck, revoke, sign in and out, reset | nobody logged out by a duplicate, nobody in by what no longer holds |
| Sign-up and life of a business (`auth/business-signup.ts`, `tokens.ts`, `admin/businesses.ts`) | business, owner, codes | apply, resend, verify, decide, suspend, block, purge | one business an owner, attempts bounded, one decision, a block cancels |
| Members and resources (`auth/members*.ts`, `business/resources.ts`) | memberships, links, staff resources | invite, resend, accept, (de)activate, link | one resource a member, an acceptance is whole |
| Notices, reminders (`notification/*`, `booking/notify.ts`) | notification rows with channel states | send, retry, remind, purge | each reminder once, history tells the truth |
| Reviews (`review/reviews.ts`) | reviews, replies, reports | write, edit, delete, reply, report, decide | one a visit, edited once, what is removed stays removed |
| Address and public home (`business/settings.ts`, `site/*`) | slug, history, cached pages | change, resolve, redirect, publish | links recover, and none leads to somebody else |
| Screens (`booking/widget/*`, `booking/ui/*`, `schedule/ui/ScheduleGrid.tsx`, `product/ui/ProductForm.tsx`) | component state, browser history, requests in flight | choose, travel, log in, page, decide, edit | what is shown and sent is what was asked and confirmed |
| Login backoff, admin audit and metrics, storage, mail text, search | | | not modelled (section 6) |

How they interact. All handlers share the tables; there are no messages between
them. Two kinds of transaction-scoped advisory lock order the bookings: one per
customer (`'cust:' || id`), then one per resource. Swaps take two resource locks
in order of id. Decisions take none, and rely on conditional updates
(`where status = <the status as loaded>`). The owner's edits (capacity, activity,
product status) take none, so a handler may use a stale value. The database
adds row locks, deadlock detection (a booking retries once) and the `no_overlap`
EXCLUDE constraint over the rows that are `exclusive`. Browsers talk to the server
by requests whose answers come late, in another order or never.

What is hard: two handlers between each other's statements; values read before
the transaction; waits for row locks in the middle of lock-ordered code; batch
lists that age; a crash between two statements; answers that arrive after the
question has changed; and several of these at once. `PROJECT.json` lists each
hazard at its line, with the properties that watch it, and gives for every
definition of the modules the lines it models (`map`).

## 2. Modules

| Module | What it is |
|---|---|
| `ReservationRules` | pure: the transition table, `peakOccupancy`, the occupancy tests, what `no_overlap` excludes |
| `ReservationLedger` | the abstract specification: every request is one atomic step on the table |
| `Booking` | the handlers of reservations as they run: sessions, statements, locks, uncommitted rows, deadlocks, crashes, edits, time; it implements `ReservationLedger` |
| `WorkDay` | pure: the working hours of one person on one day, as `resolve.ts` computes them and as its ranking defines them |
| `Shifts` | shift swaps, work exceptions and the expiry of requests, beside customers who book and cancel |
| `Slots` | pure: the starts a product offers on a business day (hours, holidays, patterns, candidates, occupancy), beside a reference that decides unit by unit |
| `Shop` | the owner's edits of hours, product, patterns and holidays, each a read and a write, beside bookings that are verified, then inserted |
| `Sessions` | one account's sessions: rows, cookies of each browser, requests in flight, rotation and recheck, sign-ins, what ends sessions elsewhere |
| `Onboarding` | a business applied for, verified with a code, decided, suspended, blocked, purged |
| `Team` | invitations with single-use links, (de)activation, staff resources and their link to a member |
| `Visits` | reminders and notices with their mails and retries, the inbox's purge, reviews |
| `Site` | the address of a business, its history, the statements of a render, the answers that are kept, and the gate of publication |
| `Widget` | the customer's booking widget in a browser with a history, late answers, the login and an order |
| `Days` | pure: which business day each screen counts a reservation to |
| `Desk` | the console's list, a reservation's page, the calendar and the customer's own list |
| `Grid` | the roster's editor and the leave that waits for the owner |
| `Form` | the form of a product |
| `BookingProofs`, `RulesProofs`, `ShiftsProofs`, `SessionsProofs`, `BusinessProofs`, `PeopleProofs`, `ConsoleProofs`, `StorefrontProofs` | the theorems (section 5) |
| `MC*` | small instances for TLC |

The modules meet where the code does. `ReservationRules` is under every module that
counts people or compares rows; `WorkDay` is under `Slots` and `Shifts`, `Slots`
under `Shop`, `Days` under `Desk`. `MCPlace`, `MCStaff`, `MCPeople`, `MCBusiness`,
`MCStorefront` and `MCConsole` put several instances in one module. They extend the modules they put
together, so that what they check is what the proofs are about; the parts share no state,
and a variable `load` says which one a behaviour runs.

### Booking and the code

A *session* is one handler call. `pc[s]` names the statement it is about to run;
a statement is a step of its own when it can wait (a lock, a row) or when it reads
what another transaction may have committed meanwhile:
| `pc` | code |
|---|---|
| `cust` | `pg_advisory_xact_lock('cust:'...)`, create.ts:326 |
| `old` | a change's `select ... for update` and cancel, create.ts:330-344 |
| `limits` | the two counts, create.ts:346-369 |
| `slot` | resource lock, recount and insert, create.ts:371-430 |
| `validate` | `validateExisting` of an approval, transitions.ts:233 |
| `update` | the conditional update, transitions.ts:236-249 |
| `target`, `move`, `relocate` | `moveReservationResource`: read the target (177-193), lock and check (197-198), update (200-205) |
| `commit` | the end of `db.transaction` |

Adjacent statements that read nothing others can change, or that follow a lock
which excludes every writer of what they read, are one step (the recount and the
insert: every insert on a resource is under its lock; status changes of other rows
only free room). `req[s]` holds what the handler read before its transaction or
without a lock: its clock, the capacities, the row as loaded. `writes[s]` and
`entries[s]` are its uncommitted rows and log entries, visible to itself
(`View`) and published by `Commit`; a row somebody has written waits (`RowFree`),
and `held[s]` are its advisory locks. Rolling back (`Rollback`) drops all three.
Foreign keys appear where they decide something: an insert for a product that was
deleted meanwhile fails, and `removeProduct` waits for uncommitted inserts.

`no_overlap` is not a guard of the model. It is stated as `NoOverlapHolds`, of
the committed rows, of what each transaction sees, and between two uncommitted
versions, so its truth means that no INSERT or UPDATE of these handlers fails on
it or waits for it.

### Shifts and the code

The same scheme, for `schedule/swaps.ts`, `swap-rules.ts` and
`work-exceptions.ts`. `job[s]` is what the handler knows, `held[s]` its resource
locks, `moved[s]` its uncommitted reservations, `due[s]` the rest of a batch's list:

| `pc` | code |
|---|---|
| `insert` | the insert of `createSwap` (swaps.ts:420-436) after its look for an open request and its plan |
| `set` | the conditional update of every action but the approval |
| `preview` | `applyApproval`'s plan outside the transaction |
| `lock` | the two resource locks, by id, swaps.ts:503-505 |
| `apply` | the plan under the locks, the status, the exceptions, swaps.ts:507-518 |
| `moves` | one `update reservations` per move, then the commit, swaps.ts:521-557 |
| `enter`, `decide`, `delete` | the write of `createException`, `decideException`, `deleteException` after their reads |
| `book` | the insert of a booking that has computed its slots |

`Booking` has the inside of a booking; here it is two steps, read and insert under
the lock, and a cancellation is one. `no_overlap` is a guard here (`Refused`),
because swaps do run into it.
The working hours are the real ones: `WorkOn` is `ResolveWorkDay` of the weekly
pattern, the committed exceptions and the holidays, and `PlannedExceptions` builds
what `planSwap` builds.

### Abstractions and bounds of Booking

Named in the module: `Ids` (rows that can ever exist; `IdsLeft` stops requests
when none is left), `MaxTime`, `Traffic` (the entry points an instance uses),
`Targets` (the states its clients ask for), `Starts`. Further abstractions:

- Opening hours, work schedules and holidays are open at every start of the grid;
  what they change in the outcome of a placing is kept (`Unscheduled`).
- Policy, membership, links and the products' shape are constants; each row's
  `cancelDeadlineHours` snapshot is therefore the policy's.
- `created_at` is the handler's clock. All reservations fall in days of `DayLen`.
- Two lock keys never collide (the code hashes them to 32 bits: a collision would
  only make two handlers wait, or wait in another order).
- The batches' limit of 500 rows, reasons, mails and audit rows are left out.
- The load order of the candidates is left open: any candidate may be first.
- A walk-in is the owner's: nothing after the route looks at the role.

### Abstractions and bounds of Shifts

Named in the module: `Ids`, `SwapIds`, `XIds` (`NoSwapLeft`, `NoExceptionLeft`
stop a request when none is left), `Spans` (hours an exception is entered with),
`Answers` (what requests say of moving reservations), `Asked` (the actions on
swaps that clients ask for), `Traffic`, `Starts`, `MaxTime`.

- Opening hours do not cut, reservations lie within their day, all resources are
  active members of staff. A day is eight units long.
- The exceptions are a set; those of one swap share its id, so two with equal hours
  are one. Nothing counts them.
- The batch's limit and order, reasons, mails, audit and log rows are left out.
- A customer cancels in one step, and reservations change in no other way
  (`Booking` has the decisions).

### The other modules and the code

A call is a process, and its `pc` (or step) names the statement it is about to
send; a transaction whose first write locks the row it decides on is one step, one
that reads before it locks is two.

| Module | Process state | Steps and the code |
|---|---|---|
| `Sessions` | `request`: slot -> what it was sent with, what its handler has found out and the answer on the way | `Send` takes the browser's cookies; `Proxy` (refresh.ts:58-96), `Rotate` and `Select` (session-store.ts:56-101), `RecheckAlive`, `Principal` (refresh.ts:98-126); the handlers `EndOthers`, `SignOut`, `Verify`, `Rehash`, `Establish`, `CreateSession`; `Deliver` sets the cookies of one answer, `Lose` none. Elsewhere: `SetPermission`, `Deactivate`, `Reactivate`, `EndDevice`, `ResetPassword`, `CloseAccount` |
| `Onboarding` | `proc`: the ids and rows read so far | `ReadDup`, `ReadEmail`, `ReadMember`, `Create`, `Reapply` (business-signup.ts:64-203); `Retire`, `Insert`, `SelectLive`, `Claim` (tokens.ts:70-132); `CleanupList`, `CleanupPurge` (259-309); `DecideRead`, `Decide`, `StatusRead`, `List`, `Commit`, `CancelNext`, `Audit` (admin/businesses.ts:124-265) |
| `Team` | `proc` | `InviteChecks`, `InvitePick`, `InviteCommit`, `Resend`, `Peek`, `Context`, `Accept` (members.ts), `Retire`, `Insert` (tokens.ts:20-34), `Deactivate`, `Activate` (members-admin.ts), `CheckLinkable`, `WriteStaff`, `CountRefs`, `RemoveStaff`, `Switch` (resources.ts) |
| `Visits` | `job`: the list of a tick, in any order of equal starts and cut to its limit, or the recipients of a transition, each a send with its own step; `write`: a form | `Tick` (reminder.ts), `Decide`, `InsertNote`, `Mail`, `Mark` (notify.ts), `Purge` (inbox.ts), `Create`/`Reply` check and write, edit, delete, report (reviews.ts, reports.ts), `Crash` |
| `Site` | `call`, `visit`, `cache`, `old` | `Check`, `Write`, `Revalidate` of a change of address (settings.ts:184-214 and its route); a render's statements: `Visit` and `Look` (resolveSlug), `Again` (the moved address), `Load` and `Offer` (loadPublicHome), page.tsx; `Age` of a kept answer |
| `Shop` | `calls`: what the transaction has read | a check and a write for hours, product, limited edit, removal, pattern, holiday and booking |
| `Widget` | `page`, browser `entries`, `order` | the choices of `state.ts`, the effects and answers of `BookingWidget.tsx`, travels, the login, the order |
| `Desk`, `Grid`, `Form` | component state and requests under way | one action per control of the panel and per answer |

History variables (`used`, `told`, `hist`, `loose`, the counters of a request's
delay) never occur in a guard.

Abstractions of these modules: periods are a few ticks (`Grace`, `Access`, `Ttl`,
`Hour`, `Day`, `Keep`), a code's value is right or wrong by choice, hashes compare
as the secrets they are of, a permission set is a set of one right, and mails are
taken, refused or lost by choice. Rows are removed only where the code removes
them; ids are used once (`spent` in `Onboarding` and `Team`), as sequences and
UUIDs guarantee. Two browsers of two accounts share no row, so `Sessions` has one
account. Each bound (`Max*`, `Patience`, `Kinds`, `Edits`, `Events`) is a named
constant with its comment.

## 3. Runs

A run asks one or more questions of one instance; its bounds are in its `.cfg` or
`MC` module.

| Run | Instance | Properties |
|---|---|---|
| `place` | `PLACE`: 2 sessions, 3 ids, 2 customers with at most 2 live reservations each, 2 resources (capacity 1 and 2), a one-to-one and a shared product that overlap in part; place and change. `EDITS`: 2 ids; place, walk in, move and approve while the owner stores capacity 1 and switches resources off | `NoOverbooking`, `NoOverlapHolds`, `ReplacedOnce`, `ActiveLimit` |
| `decide` | 2 sessions, 2 ids, 2 managers, the owner, the customer; decisions, take-over, reassignment, change, crashes; fair | `AdvisoryLocksAcyclic`, `EveryChangeLogged`, `ImplementsLedger`, `RequestsFinish` |
| `batch` | a session and the cron, time 0 to 4, both batches against the owner and a product switched off; fair | `RequestsExpire` |
| `staff` | `MOVES`: 2 sessions, one request between people of capacity 2 and 1, a product whose staff the customer picks; bookings and cancellations at every statement. `LEAVE`: one person, two exceptions of every kind over two different spans, a holiday, crashes | `NoOverbooking`, `ApprovalKeepsWork`, `MovesAsAgreed`; `LeaveAsRanked` |
| `swap_calls` | 2 sessions and the cron, two requests of one pair in either direction, automatic approval, fair | `CallsFinish` |
| `sessions` | one browser, two requests in flight, three sent in all, two sessions, time 0 to 4, one event elsewhere | `AnsweredByWhatHolds`, `NoFalseReuse`, `ResetEndsSessions` |
| `people` | `Team`: 2 users, 2 members, 2 resources, 2 links, 3 calls of which 2 at once. `Visits`: 2 visits, 2 background calls, 2 forms, a crash | `OneResourcePerMember`, `AcceptanceWhole`; `RemindedOnce`, `HistoryTrue`, `ReviewSettles` |
| `business` | `SIGNUP`: 2 businesses, users, addresses, registration numbers, reservations; 2 calls, 2 codes of 2 attempts. `LINKS`: one caller, 3 changes among two addresses, 3 new ones a month (as the code), one other edit, two businesses; fair. `RACE`: 2 callers of one business, 4 changes to 4 addresses, one of them visited; fair | `OneBusinessPerOwner`, `AttemptsBounded`, `BlockCancelsListed`, `DecidedOnce`; `LinksRecover`, `LinksStay`; `AddressesLimited` |
| `storefront` | `SHOP`: days of 4 units, weeks of 2 days, a shop open past midnight, one with a break, one closed every other day; 2 callers, 3 calls, 2 bookings. `WIDGET`: three kinds of product, 2 resources, 2 dates of 2 starts, 5 moves, one act of others, one token, a new booking or a change | `KeptInHours`, `VerifiedIsFree`, `LoweringFits`, `PatternGoverns`; `ShownAnswersAsked`, `OrderAsPicked` |
| `console` | `Desk`: 5 reservations, of which 3 are past and one ends at midnight, pages of one, a past list of one, 3 moves, one change by others, four shapes of the opening hours. `Grid`: 2 cells, 2 exceptions. `Form`: 2 stored products and a new one, 3 strokes | `PagesComplete`, `DetailTrue`, `DaysAgree`; `ApprovedAsShown`; `ConfirmedAsAsked` |
| `change_abuse` | violation | `ChangeIsNoCancel` |
| `swap_exchange` | violation | `PlanApplies` |

Why these sizes. Two sessions are enough for every pair of statements to
interleave, and deadlocks of this lock scheme need only two. Two resources of
capacity one and two exercise the team unit and the head count, and give a move
somewhere to go. Two ids are a reservation and what competes with it; `place` has
a third so that a change competes with another booking, and a limit of two so
that the limit does not hide a reservation replaced twice. A swap needs one giver
and one taker with free time of their own; `staff` has two reservations, so
that one can be in the snapshot while the other comes or goes. Three requests of
one browser are two rotations and one that overtakes them; its periods keep the
order 0 < Grace < Access < Ttl of the code, and the theorems of section 5 hold for
every choice of them. Two codes of two attempts let a parallel pair exhaust one while the
other is issued. A crash and a second tick are enough to lose or double a reminder.
Pages of one let a reservation cross a page's border by a single change. Three changes
of address are from the temporary one to x, to y and back to x, so a kept move of
each address can name the other; four fill a month's three new addresses and let two requests meet
at the limit. Five moves take a customer through a step, back, and on under
another choice, or to a taken slot, another choice and one of the taken slot's alternatives. Symmetry
is used only in runs without liveness.

Restrictions a reader should know of:

- `MOVES` runs under `MovesNext`, the disjuncts of `Next` that swaps, bookings and
  cancellations take; exceptions and crashes are in `LEAVE`. `swap_calls` runs
  under `CallsNext`, the disjuncts of calls about swaps, the clock and the batch, with the fairness of `FairSpec`.
- `LINKS` and `RACE` are restrictions of `SiteNext` to some callers, addresses and visitors
  (`MCBusiness`), under the fairness of `SiteSpec`.
- `RemindedOnce` is checked, and proved, with `Overlap = FALSE`, that is, one tick at a time.
  With two the code sends twice, which is a finding (`notification/reminder.ts:51`). The run
  and the theorem also keep the list of a tick at least as long as there are visits.
- `KeptInHours` leaves out what was placed or moved out of the hours while they
  were being changed (`loose`): the question about future reservations is asked of
  what the transaction saw, and bookings hold no lock on the hours.
- `NoFalseReuse` leaves out three kinds of bad luck: an answer that was lost, a
  request slower than the grace window, and an older answer delivered after a
  rotation (`Overtaken`). The third is a finding (`auth/refresh.ts:116`).
- `NoOverbooking` of `Booking` measures a resource by the largest capacity it is ever given:
  a capacity stored below what was sold leaves what was sold, and a booking that read
  the larger one is still inserted by it (`booking/create.ts:312`, a finding). Where
  nobody edits capacities this is the capacity of the resource.
- `LinksRecover` is about what an address leads to in the end. On the way it may be a 404
  although the business is live (`site/public-home.ts:91`, a finding). An answer is fresh for a minute, then given once
  more while the next render is under way. A CDN and the instance's cache are one layer, which
  `revalidatePath` empties or does not reach.
- `LeaveAsRanked` is `WorkAsRanked` of `Shifts`, for `LEAVE`. It allows for two MODIFIED on one day,
  which two requests at once do leave behind (`work-exceptions.ts:181`, a finding): then it is
  the ranking with one of them.
- `OrderAsPicked` excuses a time from the alternatives to an order of another choice (`strayed`),
  which nobody computed for the choice it goes into (`BookingWidget.tsx:323`, a finding). Requests of slots that a new question drops are never
  answered, as the code aborts them and files an answer under its key.
- `VerifiedIsFree` compares what a request is given with the reference and with the month's
  listing. It excuses a person whose versions all lie outside the days the request loads
  (`Undrawn`), in the direction of being given (`booking/context.ts:82`, a finding); what is refused is never listed. The shops of
  `storefront` have no break after midnight, which blocks nothing (`resolve.ts:267`, a finding).
- `PagesComplete` also says of the customer's own two lists that together they are his reservations
  but for past ones beyond `PAST_LIMIT`, of which the latest are kept. The order of equal
  starts is the database's.
- Deadlock is not checked in `swap_calls` (a call that waits for ever is reported by
  `CallsFinish`) and in `console` (a page may be left as it is).

**Fairness.** In `Booking`, `SF` of each session's statement: PostgreSQL queues
waiters, so a session whose statement is possible again and again is served; a
weak fairness would let one starve on a lock others take in turn. `SF` of each
batch job: the scheduler calls it again and again (`app/api/cron`, every five
minutes, daily). `WF` of the clock and of a batch's next row. In `Shifts`, `SF` of each
session's statement; in `Site`, `WF` of a render's
steps, of a change that was asked for, of visitors who keep asking for each address, and of time, which makes
a kept answer old. Nothing else makes a client send a request, a colleague
answer, the owner edit, or a process crash.

**What the violations show.**

- `change_abuse`: `insertOne` cancels the old row before it counts the day's
  cancels and inserts the replacement after. `canceledTodayCount` leaves out only
  what some row replaces, so the change counts itself: at the limit, a booking
  passes and a change is refused.
- `swap_exchange`: two people exchange the same day and hand over reservations that
  overlap. `planSwap` counts the final table, as its comment explains, and finds
  no conflict; `applyApproval` updates row by row, and `no_overlap`, which is not
  deferrable, refuses the first. The approval can never go through.

## 4. Findings without a run

Met while modelling, each with the line it contradicts, in `PROJECT.json`. The models do what
the code does, so the properties above are those that hold beside them.

- Bookings: a person whose first pattern starts between the day a request asks for and the end of the
  listing is given by the one and not by the other, since placing loads no row of his and takes him for
  one who works whenever the shop is open (`context.ts:82`); capacity read before the transaction (`create.ts:312`); `autoNoShow` stops
  at a 403 (`transitions.ts:368`); alternatives of another day (`create.ts:109`).
- Schedules: two requests for one day both find no exception and both insert
  (`work-exceptions.ts:181`); a break after midnight is subtracted from the morning of the same date
  (`resolve.ts:267`); hours are not counted again under an approval's locks (`swaps.ts:502`); a
  pattern stored with no days frees the days it means to close (`work-schedules.ts:144`);
  an answer stored beside a draft that changed (`ScheduleGrid.tsx:125`); two readings of fixed starts (`products.ts:106`).
- Businesses: a block cannot be pressed again (`admin/businesses.ts:204`); a purge by id of
  what was verified meanwhile (`business-signup.ts:299`); an approval of an unverified
  re-application (`admin/businesses.ts:147`); two memberships of one invited user
  (`members.ts:36`); an address gone back to is not counted (`settings.ts:199`); a business that returns to an address
  between the two statements of `resolveSlug` is found by neither, and the 404 is kept (`public-home.ts:91`).
- Notices: an unparenthesised `or` counts the pushes of every business (`notify.ts:56`);
  overlapping ticks remind twice (`reminder.ts:51`).
- Widget: the alternatives to a taken slot stay when the choice changes, and one that is picked
  goes into a choice nobody computed it for (`BookingWidget.tsx:323`); an expired selection forgets the change (`BookingWidget.tsx:153`); a time in UTC
  compares unequal to the same slot (`steps.tsx:393`).
- Sessions: an older snapshot delivered after a rotation brings its expiry with it
  (`refresh.ts:116`).

## 5. Proofs

The proof modules hold theorems for every value of the constants: any number of handlers,
rows, people, periods. Each one assumes only the named assumptions on constants of
the module it extends (finite sets of ids, a table of transitions over known states, positive
capacities and day length, fresh names for "nothing"), which TLC evaluates in every run.
Three theorems about a specification have hypotheses of their own: `NeverOversold`
(`WithinDay`), `LedgerImplemented` (`Capacities = {}`) and `RemindersOnce` (three, below).
Types are proved, not run: `TypeOK` of `Booking`, `Shifts`, `Onboarding`, `Team` and
`Sessions` is the conclusion of a theorem each; elsewhere types are a part of the invariant.

No property is inductive as it stands. The reason is always the same: what a handler is
about to write depends on what it read statements ago. Every inductive invariant therefore
says, per statement, what a handler *knows* there, and that what others commit cannot
make it false.

### Booking (`BookingProofs`, `RulesProofs`)

Steps are first sorted into the kinds of step that matter to locks and writes
(`StepKinds`); the later proofs follow the kinds and open only the actions that bear on them.

| Theorem | Invariant, and the argument |
|---|---|
| `TypeCorrect` | `Typing` = `TypeOK` and `Knows(s)`: the fields of the request that a statement uses have been filled by then |
| `NoAdvisoryDeadlock` (`AdvisoryLocksAcyclic`) | `Locking`: the locks held at each statement, and no lock or uncommitted row in two hands. A session that waits for a customer's key holds nothing, one that waits for a resource's holds no other resource's, so no set of sessions waits in a circle |
| `TableFollowed`, `ChangesLogged` (`EveryChangeLogged`) | `Faithful`: a pending version differs from its committed row by a transition of the table and has its log entry; a row somebody has written does not change under him |
| `NoOverlap` (`NoOverlapHolds`) | `Covered`: a pending exclusive row keeps the seat it had, or is on a locked resource on which nothing conflicts |
| `NeverOverbooked` (`NoOverbooking`) | `Sold`: the committed table, the table each transaction sees and, between the check of a move and its UPDATE, the table that UPDATE will make are not oversold; what is pending has the room of its committed version or is under a lock. With `Timed` (intervals are not empty) and `Bounded` (a capacity anybody read is one the resource was given). It holds for every edit of capacities |
| `OrdersFollowed`, `ChangedOnce` (`ReplacedOnce`) | `Ordered`: a change has cancelled its old row, uncommitted, before it inserts, and inserts once. Hence two changes never replace one reservation |
| `LimitHolds` (`ActiveLimit`) | `Limited`: from the count to the commit, what the customer holds of the product stays below, then at most at, the policy's limit, because all who add to it hold the customer's lock |
| `LedgerImplemented` (`ImplementsLedger`) | `Planned`: what the ledger's step will ask for at the commit is in the handler's hands from the moment it is found out. A placing handler works on a linked resource, for a time still to come when it began, and the row it inserts found room in the table without it; one that decides or moves has the decision in its pending version, and room on the resource it has locked. What others commit takes none of it away: on a locked resource they can only free seats, and a row somebody has written is nobody else's |

`LedgerImplemented` is the refinement step by step: the initial states are the ledger's, a
commit is one of `Place`, `Change`, `Decide`, `Move` and `DecideAndMove`, and everything
else leaves the rows alone (`Wait`). It rests on the other invariants of the table:
`Ordered` for what a change writes, `Limited` for the customer's limit, `Sold` for the rows that
others leave on a locked resource. It assumes `Capacities = {}`: the ledger knows one
capacity per resource, and a handler decides with the capacity it read when it began, so
with an edit in between it accepts by a number that holds no longer. What is true
nevertheless is `NeverOverbooked`, which allows every edit. `decide` checks the
mapping under the same condition.

`RulesProofs` is about the occupancy test alone. `peakOccupancy` counts people where
intervals begin; `RoomSuffices` shows that if every row that is new in a table found room
*counting all that came with it*, and the rest was there before, nothing is oversold.
People are counted as elements of a set (`Heads`), so a sum is a cardinality, and no
induction is needed. `Booking` uses it for one row at a time, `Shifts` for all moves of
a swap at once.

### Shifts (`ShiftsProofs`)

| Theorem | Invariant, and the argument |
|---|---|
| `TypeCorrect` | `Typing`: types, the shape of jobs and exceptions, and what a handler knows |
| `RequestsSettled`, `AgreementKept` (`MovesAsAgreed`) | `Settled` adds `Apart` (no two approve one request or write one reservation) and `Agreed`: from the check under the locks to the commit the request is still `ACCEPTED`, and every move, written or to come, is of the snapshot, from a giver to the taker both agreed on, confirmed where the customer had picked the person |
| `NeverOversold` (`NoOverbooking`) | `Unsold` adds that locks are in one hand, that intervals lie in their day, and `Promised`: while an approval moves row by row, all of its plan is written or to come and the table *after all of it* is not oversold for either person. Others can only remove reservations there, since bookings need the lock. The commit then makes that table the committed one |

`NeverOversold` assumes `WithinDay`: no product starts so early or late that its buffers
leave the day. It is the code that needs it: `planSwap` reads for the target only
what starts on the day of the shift (`swaps.ts:336`), so a reservation of the day before that
runs past midnight is not counted. `staff` satisfies it, as does every shop whose
last appointment ends before midnight.

### Businesses and their addresses (`BusinessProofs`)

| Theorem | Invariant, and the argument |
|---|---|
| `OnboardingTypes`, `OneBusiness`, `Attempts`, `Block`, `Decided` | `Inductive` of `Onboarding`: types, `Rows` (what is there has what it refers to), `Counted` (the attempts of a code are the comparisons made with it), `Knows`, and `Cancels` (what a block has cancelled so far) |
| `LimitOnAddresses` (`AddressesLimited`) | `OneWriter` and `RoomToWrite`: one change of a business writes at a time, because its row is locked from the count to the commit, and what it counted is still true when it writes. Time only takes addresses out of the count, and what others write is of other businesses |
| `AddressesStay` (`AddressesKept`, which no run states) | `OneRow` (the history has one row an address, the unique key that decides who wins) and `AllRemembered`: an address a business has, or ever had, is in the history as its own. Hence no address is ever given to a second business |
| `LinksNeverStray` (`LinksStay`) | `Own`, beside `OneRow` and `AllRemembered`: every answer that is kept or carried by a render under way is of a business whose row the address has in the history, and a move leads to an address that business chose. A later change adds to history and choices only, so it keeps an old answer true (`ConsoleKeepsAnswers`), whatever the render reads in between |

### People and visits (`PeopleProofs`)

| Theorem | Invariant, and the argument |
|---|---|
| `TeamTypes`, `OneResource`, `Acceptances` | `Inductive` of `Team`: types, `Rows`, `Knows`, where `Of(s, b)` says that a resource somebody has read is still of that business or is gone |
| `ReviewsSettled` (`ReviewSettles`) | `Reviewed`: a form past its check holds the row of its visit locked, so no two forms of one visit are past it, and the review is still absent when it inserts; an edit leaves its mark on the review, and no later step takes the mark away |
| `HistoryIsTrue` (`HistoryTrue`) | `Noticed`: a mail under way has its row, by number, and no two mails have the same (`OnItsWay`, `Alone`, `Numbered`); a row says what its mail has met so far, and one that says sent of a mail that was refused has a send about to mark it (`Settling`) |
| `RemindersOnce` (`RemindedOnce`) | `Once` = `Noticed` with `Recorded` (types), `Scheduled` (one tick at a time, whose pending sends are of visits not yet reminded of), `Counted` (a visit was reminded of at most once, and its row outlives the window in which a tick could list it again) and `Covered` (a visit confirmed in time is reminded of, or is in a tick's hands, as soon as the tick of its hour has begun) |

`RemindersOnce` has three hypotheses: one tick at a time (`~Overlap`; with two the code
sends twice), a list as long as the visits there are (`Cardinality(Resv) <= ListLimit`; a shop with
more than the limit in one hour does not remind of the rest), and a clock that starts in the
first hour, so that no window has passed before the first tick. The
run has all three.

### Screens of the console (`ConsoleProofs`)

| Theorem | Invariant, and the argument |
|---|---|
| `OverridesWarned` (`ApprovedAsShown`) | `RosterInv`: the request under way that overrides a conflict is about a leave whose conflicts were shown, and so is every button that would send one |
| `ConfirmationsAsked` (`ConfirmedAsAsked`) | `SubmissionInv`: the question on the screen is about the body that was sent, whatever was typed since |
| `PageIsTrue` (`DetailTrue`) | `DeskInv`: each reservation's history has the state it is in (`Logged`); what the first statement has read is in the history from then on, since histories only grow, and what is shown is in the one that is shown (`LookKnown`). The buttons are compared with the eleven rules of the table, state by state |

### The booking widget and the shop (`StorefrontProofs`)

| Theorem | Invariant, and the argument |
|---|---|
| `AnswersAsked` (`ShownAnswersAsked`) | `FetchInv`: the key is the question of the address the browser is at (`Follows`), what is on its way was asked by the present key, and an answer is filed under the key that asked it. Every step that changes the address, the month or the staff shown goes through the same effect (`Refetch`) |
| `OrdersArePicked` (`OrderAsPicked`) | `PickInv`: of every place where a choice may be (an address of the history, a token of the login, an order under way) that its time, and the person or space that goes with it, was picked under its product, duration and party (`FromLists`), where `Memory` is what was picked, times that strayed with an alternative included. What is read back from it, with a smaller staff or fewer products, keeps that. While an order is under way the page is busy and shows no result (`Sending`), hence one life of the page confirms once |

The sequences of the history and of the tokens are bound to a set of good elements (`\E S : list \in Seq(S)`),
so that nothing has to be said of positions.

| Theorem | Invariant, and the argument |
|---|---|
| `LoweringHeld` (`LoweringFits`) | `ShopInv`: of every update between its count and its write, that the lower capacity holds at each moment on each resource (`Holds`), counting teams when it is one and people otherwise. When it counts, `PeakBounds`: the start of the last of those present at a moment is one of the points the peak is taken over, and finds the others still there. Afterwards bookings of that product can only go: an insertion waits for the row that the update has locked. The row itself stays as counted against, since one call at a time holds it (`Apart`), and a product is created only where there is none (`Standing`) |

A greatest element of a finite set of integers is found without induction: it is the one with
the fewest elements above it, which the order of the natural numbers provides (`GreatestOf`).

### Sessions (`SessionsProofs`)

Every JWT and refresh token anywhere (cookie, request, answer) has
been issued, and when at the latest (`Cookies`, `Carries`); what a handler has found out by
its statement (`Calls`). Reuse needs to know where the newest token of a session is: in
one browser only (`OneHolder`), not seen by anybody while on its way (`Unseen`), and, as long
as nothing unlucky happened, at most one rotation ahead of what requests carry (`Luck`). From
it `Answers`, `NoFalseTheft`, `ResetEnds`, for all periods with the order the code gives them.

### Only model-checked

- Liveness, which the prover does not do: `RequestsFinish`, `RequestsExpire`, `CallsFinish`,
  `LinksRecover`.
- `WorkAsRanked` and `ApprovalKeepsWork`, which fold over lists of exceptions: what
  they compute for every list is an induction over data.
- `PagesComplete`, a page cut out of a sorted sequence, and `DaysAgree`, a comparison of
  several computations of `Days` over its small table of opening hours.
- `KeptInHours`, `VerifiedIsFree` and `PatternGoverns` (`Shop`), which cut hours, breaks and
  reservations out of one another with folds: induction over data as well.

`Slots` and `WorkDay` are pure and are checked against reference definitions through `Shop` and `Shifts`.

## 6. Not modelled

- Login backoff: its counter is the audit log, read before an attempt and written after;
  no document says what parallel attempts may do.
- Admin audit and metrics, the dashboard's other counters, search: reads and single inserts.
- Storage, mail delivery, texts, push transport, OAuth providers, password hashing, tokens'
  cryptography: input, output and libraries. Mails count as taken, refused or lost.
- Time-zone arithmetic: times are instants of a grid; `Days` models how each screen counts
  a business day that ends after midnight.
- Components of the user interface that only show what they are given, the
  profile pages, calendar files.
- Within modelled parts: names, colours, photos, prices, reasons, audit rows, the
  batches' limit of 500, the widths of integers (PostgreSQL raises an error where a value
  would not fit, which is a rollback).

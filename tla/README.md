# Verification of the Aoun back end

Aoun lets the students of a university give things to each other.  A donor
publishes an item, another student books it, others wait in a queue, donor and
recipient confirm the hand-over.  Students may also post a *request*, to which
donors answer with *offers*.  Moderators ban users and delete items.  The server
is a set of stateless Node processes (HTTP and socket), a worker process running
scheduled jobs and a durable outbox, and one MongoDB.  All coordination goes
through the database: conditional single-document updates, snapshot
transactions, and "operation locks", writes to a user document whose only
purpose is to make two transactions conflict.

This directory holds TLA+ models of that coordination, the TLC runs that check
them on small instances, and theorems that hold for instances of any size.

## The system's components

| component | state it keeps | operations | hard behaviour | what makes it correct |
|---|---|---|---|---|
| Booking lifecycle (`services/itemService.ts`) | item document: status, bookedBy, confirmations, waitlist, cancelledBy | publish, book, join/leave waitlist, cancel, confirm, delete, edit | checks before a transaction, snapshots, promotions from an old waitlist | quotas, sound waitlist, nobody regains a lost booking, one credit per hand-over |
| Booking expiry (`jobs/cronJobs.ts`) | none | scan, expire one booking with promotion | the scanned booking is gone when its transaction starts; a confirmation races the deadline | an overdue booking ends |
| Ban consequences (`adminService.ts`, `banConsequencesService.ts`) | isBanned | ban, unban, promote, demote, delete | the sweep over many items in one transaction | a ban leaves nothing active behind |
| Transactions and user locks (`utils/mongoTransaction.ts`, `utils/userOperationLock.ts`) | operationVersion of a user | lock, run, retry | retried callbacks, write conflicts | two transactions on one user never both commit on one snapshot |
| Outbox (`jobs/outboxWorker.ts`, `repositories/outboxRepository.ts`) | events: status, attempts, lock | enqueue, claim, deliver, complete, fail, recover | crashes, stale locks, lost answers, several workers | each owed effect is done or given up, never both, never forgotten |
| Donation requests and offers (`donationRequestService.ts`) | request and offer documents, linked item | create, cancel, submit, accept, reject, withdraw, expire | acceptance against expiry, withdrawal, ban, hub deactivation | one accepted offer, no pending offer on a closed request |
| Hubs (`hubService.ts`) | active flag, hours | create, update, deactivate | deactivation against offers | no open offer at a closed hub |
| Sessions (`authService.ts`, `userRepository.ts`, `authController.ts`) | sessionVersion, refresh token and its predecessor, one-time code, cookie | register, verify, login, refresh, logout, change/forget/reset password | reads and conditional updates of overlapping handlers, tabs that share a cookie, answers that are lost | one live session, an ended one never returns, racing tabs are no thieves, guesses are bounded |
| Session cache and admission (`utils/sessionCache.ts`, `utils/runtimeBus.ts`, `middlewares/auth.ts`, `socket/`) | an entry per process, open sockets | check, fill, invalidate, publish, disconnect, re-check | a fill after the invalidation, lost messages, a socket admitted before a ban | an outdated entry has a reason and an end; a banned user is gone |
| Job runner, lock, reminders (`cronJobs.ts`, `utils/distributedLock.ts`) | lease, health record, `reminderSent` | acquire, extend, release, run; claim, notify, undo | a lease that lapses during a run, a claim whose booking is gone | one process at a time, one reminder per booking |
| Settings (`settingsService.ts`, `models/SystemSettings.ts`) | one document, a cache and a shared promise per process, the job's schedule | load, fill, update, invalidate, reschedule | a load overtaken by an update | a cache is not older than the last update it was told of |
| Ratings (`ratingService.ts`) | ratings, trustScore | rate | the same rating twice at once | each rating counts once |
| Reports and appeals (`reportService.ts`, `adminService.ts`) | reports, isBanned | report, decide, appeal, automatic ban | counts on a snapshot, appeals checked before a decision | a decision is final, the threshold bans |
| Trust levels (`utils/trustPolicy.ts`, `phoneService.ts`, `authService.ts`) | trustLevel, trustLevelOverride, phone | compute, store, decide by hand | a level computed from an older read | a decision stands, a level has grounds |
| Chat and support (`socket/chatHandlers.ts`, `supportService.ts`) | conversation, messages, room | join, leave, send, retry, mark read, claim, resolve | permission checked before the write, a hand-over while sockets are in the room | messages arrive once, the room is for participants |
| Images (`utils/uploadToCloudinary.ts` and its callers) | photos in an external store | upload, save, replace, remove | two stores and no common transaction | what is shown is stored, what is stored is shown or going |
| Notifications, HTTP surface, operations | - | - | calls to external services | not modelled: I/O, formatting, configuration |

## What is modelled

### `Booking`: public items

`Booking.tla` models the life of items that are not tied to a request.  State:

- `booking[i]`: status, `bookedBy` (holder), the two confirmations and
  `cancelledBy` of an item document; `waitlist[i]` its queue; `overdue` the
  booked items whose `bookedAt` is older than `bookingExpiryHours`.
- `banned`, `demoted`, `donations`: the parts of a user document that matter
  (isBanned, trustLevel below 2, totalDonations).
- `req[p]`, `seen[p]`, `tx[p]`: what handler `p` remembers between two steps,
  the waitlist it read, and its open transaction.

A handler that opens no transaction is a read step followed by one conditional
update.  A transaction is three steps: *begin* takes the snapshot and computes
what the callback will write (`Writes`, `LocksOnly`, `Treated`); while it is open
every other write adds to its `missI`, `missU`; it then *commits* if it writes no
document somebody else wrote since the snapshot, and otherwise *retries* from a
fresh snapshot, as `runMongoTransaction` does.  A ban goes through its items in
steps of its own (`BanBegin`, `BanItem`).  MongoDB reports some conflicts when the
update is issued and not at commit; both ways nothing is written and the
callback runs again, so the states between transactions are the same.

| code | definitions |
|---|---|
| `createItemLogic` | `CreateRead`, `CreateBegin` |
| `bookItemLogic` | `BookRead`, `BookBegin`, `JoinWrite` |
| `leaveWaitlistLogic` | `Leave` |
| `cancelBookingLogic`, `findNextEligibleWaitlistCandidate` | `CancelRead`, `CancelBegin`, `CancelRelease`, `Promotable` |
| `completeDeliveryLogic` | `RecipientConfirm`, `DonorConfirm` |
| `deleteItemLogic`, moderator's `deleteItem` | `OwnerDelete`, `AdminDelete` |
| `expireOldBookings`, `processExpiredItem` | `BookingAges`, `ExpireScan`, `ExpireBegin` |
| `banUser`, `applyBanConsequences` | `BanStart`, `BanBegin`, `BanItem` |
| `unbanUser`, `promoteToLevel2`, `demoteToLevel1` | `Unban`, `Promote`, `Demote` |
| `runMongoTransaction`, `acquireUserOperationLocks` | `CommitTx`, `RetryTx`, `Writes`, `Conflicts` |

Abstractions: reads issued together by `Promise.all` are one step; the cut of a
candidate list at 50 is above any modelled waitlist; settings do not change while
the server runs; `isFrozen` is left out, since no code sets it; moderators are
not users of the model; notifications, images and conversations change no state
modelled here; the equality of `bookedAt` in the job's filter is "same holder and
still overdue", because a new booking by the same holder is impossible after
`cancelledBy`; an item document is removed from `overdue` whenever its booking
changes.  In `BanItem` the waitlist is read as it is and not as it was in the
snapshot: if it changed, the transaction writes a changed document and cannot
commit.  A confirmation or deletion whose filter repeats everything its read
checked is a single step.

`ItemLife.tla` is the promise, with no snapshot, waitlist, deadline or race in it: what
may become of an item document (published, booked, passed on, released, withdrawn, received,
deleted, handed over) and when its donor is credited.  `Booking` implements it with its
own documents and credits (`booking`, `donations`); what it adds is *when* a transaction may
do these things.

Not in `Booking`: items linked to a request (they are in `Requests`, with the
limits both kinds share) and `updateItemLogic`, which changes the text and the photo
of an item and not its place in the life cycle (the photo is in `Images`).

### `Requests`: donation requests, offers, linked items, hubs

`Requests.tla` models the exchange that starts with a request.  State:

- `request[r]`, `past`: the status of a request, and those whose `expiresAt` is
  past; `offer[r][u]`, `hubOf[r][u]`: status and safe hub of u's offer for r;
  `item[r]`: status, donor and first confirmation of the item with
  `linkedRequestId` r.
- `banned`, `demoted`, `inactive`: users and hubs.  `booked[u]`, `offered[u]`: how
  many *public* items u holds and has on offer; `Booking` has their life, here
  they only use up the limits they share with linked items (`PublicBook`,
  `PublicOffer` and their ends).
- `handler[p]`: the call a handler serves and its transaction: the documents it
  will write (`docs`) and whether somebody wrote one of them since (`stale`).

Every handler arrives (the middleware's ban check and the checks before the
transaction), begins (snapshot, the callback's checks, the write set) and commits;
a write by anybody else makes it stale, and a stale handler goes through
`Conflict`.  As in the code, create, submit, accept, ban and deactivate run in
`runMongoTransaction` and begin again; reject, withdraw, cancel and the expiry job
manage a session of their own and end with an error.  A write a transaction makes
only to provoke conflicts (the operation lock of a user, the touched request, the
acquired hub) is in the write set like any other.

| code | definitions |
|---|---|
| `createRequestLogic` | `CreateRead`, `CreateBegin`, `CreateCommit` |
| `submitOfferLogic` | `SubmitRead`, `SubmitBegin`, `SubmitCommit`, `CanSubmit` |
| `rejectOfferLogic`, `withdrawOfferLogic` | `RejectRead`, `WithdrawRead`, `AnswerBegin`, `AnswerCommit` |
| `acceptOfferLogic` | `AcceptRead`, `CanAccept`, `AcceptBegin`, `AcceptCommit` |
| `cancelRequestLogic`, `expireSingleRequest` | `CancelRead`, `ExpireScan`, `CloseBegin`, `CloseCommit` |
| `completeDeliveryLogic`, moderator's `deleteItem` on a linked item | `RecipientConfirm`, `DonorConfirm`, `AdminDelete` |
| `banUser`, `applyBanConsequences` on linked items | `BanStart`, `BanBegin`, `BanCommit`, `UndoneBy` |
| `deactivateHub`, `reactivateHub` | `DeactivateStart`, `DeactivateBegin`, `DeactivateCommit`, `Reactivate` |
| `unbanUser`, `promoteToLevel2`, `demoteToLevel1` | `Unban`, `Promote`, `Demote` |

Abstractions: the model is one calendar month, so all of a student's requests
count; settings are constants, `minTrustLevelForDonating` and the phone check have
their default values; the expiry job is modelled request by request, each request
it scans being a transaction of its own; the time that passes between a
handler's read and its transaction is that between `Arrives` and `Begins`; public
items that name a hub, images, notifications and conversations are left out.
`assertGenericLifecycleAllowed` keeps linked items out of the booking, cancelling
and deletion handlers and the booking expiry job skips them, hence the few ways
out of `item[r]`.

### `Outbox` and `Delivery`

`Outbox.tla` models events (`status`, `attempts`, `lockedBy`), the passing of
time as two sets (`ripe`: `availableAt` is past; `stale`: `lockedAt` is older than
`OUTBOX_LOCK_TIMEOUT_MS`), `acted[e]`, the attempts in which the provider really
acted, and `worker[w]`, the state of each worker process.  `Claim`, `Complete`,
`Fail`, `RecoverExhausted` are the repository's updates; each may fail with or
without having been applied; a worker may be slow for ever, be asked to stop,
crash and start again.  `Delivery.tla` is the promise: an event is owed once it
is enqueued, is tried at most `maxAttempts` times, acted on at most once per
try, and ends as done (then somebody acted) or given up (then all tries are
spent).  `Outbox` implements `Delivery` under the mapping `Outcomes` of `status`.
The order in which claims sort events is left open, the deletion of old
completed events and the heartbeat are left out.

### `Sessions` and `OneSession`: one account

`Sessions.tla` follows every handler of `authService.ts` that touches a session or
a one-time code, read by read and update by update.  `account` is the user
document: its stage (registered, verified), `sessionVersion`, the refresh token
and the previous one with its grace period, the code with its age and its
attempts, the reset link.  A session is the number of its `sessionVersion`, a token
its place in `tokens`, a code its place in `guesses`.  `op[r]` is what request r
read and does next, `cookie` the refresh cookie of a browser whose tabs share it.
The updates of `userRepository.ts` (`EndSessions`, `Rotated`, `StillTheSession`,
`StillTheCode`, `MayGuess`) keep their filters: whether a handler that lost a race
is harmless depends on nothing else.  `Vanish` ends a request at any step: a crash or a
connection that is gone.

| code | definitions |
|---|---|
| `registerLogic`, `resendOtpLogic`, `_issueVerificationOtp` | `RegisterRead`, `Register`, `ResendRead`, `Reissue` |
| `verifyEmailLogic` | `Submit`, `Complete` |
| `loginLogic` | `LoginUnverified`, `LoginRead`, `Begin`, `Store` |
| `refreshLogic`, `refreshAccessToken` | `RefreshCurrent`, `RefreshRecovered`, `RefreshReused`, `RefreshRefused`, `Rotate`, `Conflict`, `Reread`, `EndForReuse`, `SetCookie`, `ClearCookie` |
| `logoutLogic`, passwords | `Logout`, `ChangeRead`, `ChangePassword`, `ForgotRead`, `Forgot`, `ResetPassword` |
| `banUser`, `unbanUser` | `Ban`, `Unban` |

`OneSession.tla` is the promise, with no token, cookie or race in it: at most one
session is live, an ended one never lives again, and an access token is handed
out for the live session.  `Sessions` implements it with the live session read off
the stored refresh token.

### `Admission`: who is let in

`account` is the state the token is compared with; `cache[n]` the entry of
process n with its age; `bus` the invalidations under way; `writer[n]` what a process
has still to do after a commit (store the refresh token, invalidate, publish, disconnect);
`conn[k]` an HTTP request or a socket.  A check that finds nothing in the cache loads the
account and fills the cache later (`CheckMisses`, `CheckLoaded`).  A login is two commits,
`BeginSession` (`beginUserSession`, or `atomicVerifyAndComplete`) and `StoreSession`
(`storeRefreshToken`); it invalidates only after the second, and if that finds the session
replaced it answers with a conflict and invalidates nothing.  A handler may end with an error
before it announces what it committed, or what was committed although the database reported a
failure (`GivesUp`); `missed` then holds every process with an entry.  A message may be lost
(`Lose`), a process may die at any step (`Crash`), and the timer of a socket closes it when
its token expires (`TimerFires`, `TokenExpires`).  Time is counted in ticks of a fraction of the
cache's life.  An entry may be dropped at any time (`Prune`): the cache evicts when it is full.

### `Chat`: one conversation

A booking conversation or a support thread.  `join`, `page`, `marking`, `send`, `claim` are the
handlers of `chatHandlers.ts` and `supportService.ts` between their awaited calls.
`join_room` checks (`JoinCheck`), enters the room (`Enter`), reads the page (`Page`) and then
marks as read whatever is stored *by then* (`MarkJoined`); `mark_read` checks the room
(`MarkCheck`) and marks later (`MarkRead`), also when the socket has left since.
`claimSupport` reads the ticket (`ClaimRead`), looks at its owner (`ClaimLook`), commits over
the owner and status it read (`ClaimCommit`) and evicts the former owner (`ClaimEvict`); a ban
of the owner may come and go at any of these points (`Retire`, `Return`).  An attempt
is one `send_message` event; the client sends a message again, with the same
`clientMessageId`, when it got no answer.  `saw` is which messages were sent to whose socket,
in a page or live; marking a message adds nothing to it.  `noted` is who was notified, `lost`
which message never reached whom because his handler failed or his socket was gone.

### `Settings`, `Jobs`, `Trust`, `Reports`, `Ratings`, `Images`

Six components whose documents nobody else writes:

- `Settings`: every call of `getInstance` is a `load` under way; callers share one by
  `promise`; an invalidation moves `generation` on; the quota job of a process is
  rescheduled by `settingsInvalidatedHandler` (`JobLoads`) when a load ends.  `FillDoc` is
  the default fill of `getInstance`, which overwrites an update made since it read.  A load may
  be rejected (`LoadFails`): the handler keeps its schedule.  A process dies (`Dies`) and starts
  again: `initCronJobs` loads (`Boots`), and until that load has arrived and the process is
  `up` its handler ignores invalidations (`ReceiveStarting`), serves nobody and runs no job.  An
  update may be reported as failed although it was committed (`EditFails`): nobody is told.
- `Jobs`: `lease` with the thirds of its time that are left, `job[s]` the run of a
  process and its reminder tasks, `health` the record `runSafe` reads and saves.  A
  booking is a number that grows with each new holder.  `Tick` lets time pass, with or
  without an extension that comes through.  Each call of a task may be applied and rejected all
  the same: the claim (`ClaimFails`, which nothing undoes), the notification (`NotifyFails`, which
  then counts as stored in `sent` and as `doubted`) and the undoing (`Undo`).
- `Trust`: the account as a handler read it (`call[c].saw`) and the update computed from
  it; `Decided` is the administrator's.  `universityEmailDomains` and `studentDefaultTrustLevel`
  are not kept: administrators edit them at run time and every process has its own cached copy,
  so each request sees any value (`Policy`).  What the environment fixes is in `rules`.
- `Reports`: the reports against one user; a decision is a snapshot transaction,
  `missed` when something it read was written since, `clash` when something it writes.
- `Ratings`: the transaction of `submitRating` and its unique index.
- `Images`: `store` is the photos that exist, `listing` the item and `offer` the offers
  that name them, `doomed` those with a `cloudinary_delete` event, `cleaning` the
  background tasks of `cleanupOfferImages`; each request uploads, saves, and removes the
  new or the old photo.  `Shown` is what anybody is shown: the item's photo, and those of the
  offers in *every* status, since `getOffersLogic` lists them all; `Current` is the part of it
  that is still to be had.

## What the runs check

Deadlock is not checked where the system may stop: all items deleted or
delivered, all reports decided, nobody asking for anything.  `outbox` checks it.

| run | instance | properties |
|---|---|---|
| `board` | 3 users + donor, 1 item yet to be published, 2 handlers, quota 1, waitlist 2, a moderator acting on b | `QueueSound`, `NothingTwice`, `CancelsWhatItSaw`, `HandoverProtected`, `PromotedIsEligible`, `ImplementsItemLife` |
| `supply` | 2 users + donor; 2 posted items, or 3 to be published under the limits 1 and 2 | `BookingQuota`, `DonorQuota`, `BanSweeps` |
| `progress` | 1 item with a waitlist of 1, 1 request with 2 donors, fairness | `OverdueResolved`, `OverdueRequestsClose` |
| `banned_holder` | | refutes `BannedHoldsNothing` |
| `left_waiter` | | refutes `PromotedWasWaiting` |
| `outbox` | 1 event, 2 workers, batches of 2, fairness | `ClaimsAreFenced`, `ActsBeforeCompleting`, `ImplementsDelivery`, `EventsSettle` |
| `exchange` | 1 request, its asker and 2 donors, 1 hub, 2 handlers, every limit 1 | `ExchangeSound`, `DeliveredKeepsHistory` |
| `limits` | 3 requests of one asker, 1 donor, public items, limits 1 and 2 | `WithinLimits` |
| `moderated_exchange` | | refutes `ModeratedIsCancelled` |
| `accounts` | 1 account, 2 requests, 3 sessions, 3 tokens, 2 codes, 2 guesses; or 1 booking conversation, 1 message, 2 attempts, 1 failure; or 1 support thread, 2 members of staff of whom one at a time is away, 1 failure | `TokensAreCurrent`, `GuessesBounded`, `RacersAreNotThieves`, `OnlyTheLastCodeVerifies`, `ImplementsOneSession`; `MessagesArrive`; `RoomIsForParticipants`, `NobodyIsRobbed` |
| `admission` | 2 processes, 2 connections, 2 sessions, a cache life of 2 ticks, fairness | `StaleHasAReason`, `CachesConverge`, `BannedAreGone` |
| `services` | 2 processes, 2 loads, 3 versions; 2 bookings of an item; 2 calls; 3 reports, threshold 2; 2 submissions; 2 requests, 2 offers, 3 photos | `NoStaleFill`, `ScheduleFollows`; `LeaseHeld`, `RemindersSound`, `FailuresCounted`; `DecisionStands`, `LevelHasGrounds`; `BannedAtThreshold`, `DecisionsAreFinal`; `RatingsCountOnce`; `ImagesSound` |

What some of the properties say.  `NothingTwice`: nobody holds an item again whose booking
he lost, and the donor is credited once for a hand-over.  `ExchangeSound`: only an active
request has pending offers, a fulfilled one has exactly one accepted offer, that of its
item's donor; no exchange under way has a banned user; no hub in use is closed.
`WithinLimits`: bookings, donations, pending offers and requests of the month.
`RacersAreNotThieves`: `refreshLogic` takes a token for a stolen one only when its grace
period is over or its session was over anyway, and no tab clears the cookie of a session
that lives.  `StaleHasAReason`: an entry that disagrees with the account is explained by
a write still being announced, by a lost message, by a write that was never announced because its
handler ended with an error or a crash, or by a load that read before the write.
`MessagesArrive`: a message is heard at most once; it is sent to the other party, in a page or
live, or he is notified of it; and it is marked read only when it was sent to a reader, is on
the page he is about to get, or is about to be broadcast to a room he is in; the exceptions are
the messages in `lost` and `cut`.  `NobodyIsRobbed`: a thread is taken only from an owner who is
away, or who was when the claim looked and came back before its transaction.  `ScheduleFollows`: a
running process that is not excused runs the quota job on the day the settings say as soon as nothing
under way would tell it; an excuse ends when it loads the day that holds.  `RemindersSound`:
a booking is reminded once, and once more for each reminder that was stored but reported as
failed; a claim stands only for a reminder that was sent or is being worked on, unless a crash,
or a claim or undoing reported as failed, lost it.  `LevelHasGrounds`: whatever the settings were
at each registration and login, level 2 has grounds that hold now, but for `crossed` and `struck`.
`ImagesSound`: the photos of the item and the offers that are still to be had are in the store; so
is every other photo that is shown, but for the named exceptions; and what is in the store is
current or going to be removed.

Composition.  A behaviour of `accounts`, `services`, `progress` or `supply` is about one
of the components or scenes that the module names; `part` (or `limit`) says which, and
the others rest in an initial state.  They share no document, so that interleaving them
would multiply the states and show nothing more: every property speaks of one of them.

Why the bounds are enough to be interesting.  A race needs two handlers; every
instance has two, and whatever is one update (leave, confirm, delete, unban, trust
levels, logout, a ban) happens beside them at any moment.  Three students make a
holder, a waiter to promote and a waiter to pass over; two donors make an
accepted offer and one to be rejected with it.  Requests and events do not touch
each other except through users and hubs, so one request, one event and the
three requests of `limits` show each kind of conflict.  A quota of one is
exceeded by a second booking, a waitlist bound of two by one join too many.  Three
sessions are the one before a race, the one it is about and the one that replaces it;
three tokens are a rotation and the rotation of a tab that lost; two codes are the
one in the mail and the one that replaced it.  Three versions of the settings are an
update that overtakes a load of an older one; two bookings of an item are the one a
reminder was claimed for and its successor; three reports are the two of the threshold
and one that is appealed; three photos are the one an item has and those of two edits
that overlap.  `Max...` bounds of a model limit only how often something happens: new
sessions, tokens, codes, versions, failures; each is named with its constant.  What is
hidden in larger instances is what the theorems are for.

The two parts of `accounts` that are about `Chat` are a conversation with messages and no
claims, and a thread with claims and no messages: no property relates the two, and the proofs cover both.

Constraints and symmetry.  `Scene` of `MCSupply` keeps the two scenes apart.  `Hands` keeps messages and
the requester, who always is a participant, out of the support thread of `accounts`, and lets one member of staff at a time be
in its room or on the way there.  `OneAppeal` lets one
of the three reports be appealed or pass its deadline; `SomeoneFollows` stops where every
process has missed an update of the settings and nothing is promised any more.  Requests,
processes, handlers, offers, members of staff and the users no moderator acts on are symmetric where no liveness is
checked; `accounts` uses symmetry with action properties and a refinement, which the permutation
of requests does not affect.  `progress`, `outbox` and `admission` use none.

Fairness.  `Booking` and `Requests`: a handler that started runs on (Node runs every
callback, MongoDB transactions are retried), and the hourly job keeps looking at every item
(`node-cron`).  Nothing is assumed of users: they may never confirm or cancel.  The job does not wait for a
free handler, so that it looks at an overdue request is strongly fair.  An expiry that
meets a conflict fails, and is tried again by a later run of the job.
`Outbox`: time passes, a worker process is restarted and ticks, a call returns;
and since a process may die or the database fail again and again, claims and
recoveries are strongly fair: they are not failed *every* time.
`Admission`: time passes, a check that began ends, an admitted socket joins its room, and the
token of an open one expires (`scheduleTokenLifecycle`); neither the delivery of a message nor
anything a writer does after its commit is assumed.

### Disagreements the runs show

- `banned_holder`.  `bookItemLogic` relies on the middleware for the ban.  Its
  transaction locks the user but rechecks neither the ban nor the level, so when a
  ban commits first the booking conflicts, is run again and succeeds: the banned
  user holds an item, which `test/review-integration.test.js:197` says a ban
  prevents.  What does hold is `BanSweeps`: when the ban commits, it leaves nothing
  behind.
- `left_waiter`.  A cancellation promotes from the waitlist it read before its
  transaction; a waiter who left in between is promoted all the same, though told
  that the registration is withdrawn.  `PromotedIsEligible` holds: whoever is
  promoted is not banned or demoted.
- `moderated_exchange`.  A moderator who deletes the item of an accepted offer
  (`adminService.ts:206`) leaves the request fulfilled and the offer accepted;
  `docs/FULL-REVIEW-FIXES.md:21` says that a moderated exchange is cancelled and
  archived.  A ban does cancel it (`BanCommit`).

### Limits of what holds

Some properties name an exception, kept in a history variable, because the code has it and no
document denies it:

- `missed`, `late` (`Admission`): a login whose second update fails, or any write whose commit is
  reported as failed, ends without invalidating (`authService.ts:522-537`); a lost message and a
  check that was loading at the time have the same effect.  The entry lives on for its time to live.
- `excused` (`Settings`): the quota job of a process stays on the day of before when a message is
  lost or the update is reported as failed though it was committed; when the handler's load is
  rejected, which is only logged (`cronJobs.ts:540`); when the invalidation comes while the
  process is starting and its handler ignores it (`cronJobs.ts:528`); when an older load of the
  handler ends after a newer one; and when the fill of defaults (`FillDoc`) writes back a
  document read before an update.  The cached copy expires, but nothing reschedules the job until the
  next invalidation or start.
- `lapsed`, `blurred`, `doubted`, `forgotten` (`Jobs`): after three extensions that did not come
  through two processes run the job at once; their claims exclude each other, but their health
  records overwrite each other.  A notification that was stored but reported as failed
  (`notifyUser.ts:171`) has its claim undone and is sent again by the next run: the recipient is
  reminded twice.  A claim that was applied but reported as failed (`cronJobs.ts:609`, outside the
  `try`), an undoing that failed, and a crash leave `reminderSent` set with nothing sent.
- `cut`, `lost`, `late` (`Chat`): when the handler stops between storing a message and
  broadcasting it, the retry is taken for a duplicate and nobody hears of it until the page
  is loaded.  What is stored between the page and the marking of a `join_room`, or between the
  check and the update of a `mark_read`, is marked read all the same; while the socket stays in
  the room it is about to be broadcast to it, but a join that fails after entering the room, or
  a socket that leaves it in between, never gets what was marked (`lost`).  A former owner
  whose `join_room` overlaps the hand-over, or whose eviction was lost with the process, stays
  in the room.
- `back` (`Chat`): `claimSupport` looks at the owner before its transaction, which compares
  the owner but not whether he is still away; an administrator whose ban is lifted in
  between loses his thread.
- `crossed`, `struck` (`Trust`): a phone verified between the read and the write of a profile change is
  replaced, and the level it gave stays.  When the settings stop counting an address as a
  university's, registering it again takes the student mark off and keeps the second level
  (`authService.ts:271-275`).
- `pardoned` (`Reports`): two approvals at once, or one that overlaps a lifted ban, do not
  count each other; the next approval does.
- `mistaken`, `strays` (`Images`): a save that committed but was reported as failed (a lost
  answer, or `populate` failing after it) makes the handler remove the photo now shown; of
  two edits that overlap, or an edit and the owner's deletion, one photo is removed by nobody.
- `LeftBehind` (`Images`): the photo of an accepted offer is also that of the item made from it.
  When a moderator deletes the item, or the item is given another photo, that photo is removed
  and its name cleared in the item only (`outboxWorker.ts:111-114`); the requester, who is shown the
  offers of every status, is shown a name without a photo.

Some things no property speaks of, or that the models simplify in a way to be known:

- The page of a `join_room` holds the last 50 messages and marks all unread ones as read; the
  models' page holds every message.  One `join_room` and one `mark_read` are under way for a user at a
  time, over one socket.  `saw` says that a message was sent to a socket, not that a person read it.
  The HTTP route that marks a conversation read marks messages its caller has not been sent, and
  `lastMessage` may go back to an earlier message.
- A deployment of a single process (`RUNTIME_TOPOLOGY` not distributed) runs its jobs without the
  lock of `Jobs`, in one process.  A lock that cannot be acquired because Redis is away counts a
  failure in the job's health record outside the lock (`cronJobs.ts:176-181`), which overwrites the record
  like the overlapping runs of `blurred`; the model skips such a round.
- `NEW_USER_DEFAULT_TRUST_LEVEL_2` and `PHONE_VERIFICATION_PROMOTES_TRUST` are constants of a deployment: a
  level given under one value has grounds under that value only.

## What is proved

The eight `*Proofs` modules are checked by TLAPS, for every set of users, items,
requests, hubs, handlers, processes, connections, events, workers, members of staff, messages,
reports, submissions and offers and every limit, from
`BookingAssumption` (finitely many items; the two publication limits are ordered),
`PostedAssumption` (no donor starts with more items on offer than the higher limit),
`RequestsAssumption` (finitely many users and requests, each with its requester;
the null values are no user, request or hub), `OutboxAssumption` (`maxAttempts`
between 1 and 20, as the schema has it), `SessionsAssumption`, `AdmissionAssumption`, `ChatAssumption`,
`SettingsAssumption`, `JobsAssumption`, `ThresholdAssumption` and `ImagesAssumption` (the limits
and bounds are natural numbers, a null value is no process and no user; there are finitely many reports).

- `BookingProofs!TypeCorrect`: `TypeOK` is inductive as it stands; one lemma per
  action.
- `BookingProofs!QuotaHolds`.  The quota alone is not inductive: a commit writes
  what was computed on an old snapshot.  The invariant adds `SnapshotsSound`: a
  transaction locks whoever its documents make a holder, and for a locked user
  that nobody else wrote since the snapshot, the count *after* its writes against
  the collection as it is *now* is within the quota.  Any other transaction that
  gives that user a booking writes the user document too, hence puts the user
  in `missU`; updates outside a transaction never give anybody a booking.  While
  a ban is computed its own view must also be up to date for such users
  (`ViewCurrent`).  `SnapshotsStaySound` is that strengthening as a theorem.
- `BookingLifeProofs`.  Everything here rests on one invariant, `LInv`, proved action by action from `QInv`, the
  invariant of the quota.  Its heart is `TxOk`: for every document a transaction will write and nobody else wrote since
  its snapshot, what it writes is what it would write had it read the document as it is *now* (`WriteOk`), the
  waiters it promotes are eligible *now*, and a ban overlooks no item its user owns *now*.  A step
  of another handler either leaves all of that alone or writes a document or user the transaction has in its write set, and so
  makes it miss a write.  `ReadsSound` says the same of what a handler
  remembers from before its transaction: the booking is still the one it read, or its holder
  will never hold that item again.  From it follow
  - `LifeImplemented`: the step that each action takes in `ItemLife`.  A commit writes several documents at once, by moves
    that `WriteOk` lists; `AtOnce` steps are single moves;
  - the action properties `CancelsOnlyThat`, `HandoverIsProtected`, `PromotesTheEligible`, `BanSweepsAll` and `DeliveryIsFinal`,
    each from `LInv` in one step: whatever an action property says of a commit, `TxOk` says of the transaction before it
    (`DeliveredIsFinal` has no run of its own: `ItemLife` has no move but `Delete` for a delivered item);
  - `NothingComesTwice`: the donations a user is credited with are the items of theirs that were handed over;
  - `DonorQuotaHolds`: a publication that can commit found room that is still there (`TxOk`), and `PostedAssumption` starts it;
  - `QueuesSound`: a waitlist loses users by `Pull`, which takes any set of them out, and gains them
    by `JoinWrite` only.  That what is left is a sequence of exactly the other users, each of them once, is an induction over
    the length of the waitlist (`PullFacts`), done by the least counterexample (`Induction`, `WFMin`), since the provers cannot
    instantiate an induction rule; `LInv` then says that whom a commit makes the holder or bars it pulls as well.
- `OutboxProofs!FencingHolds`, `ActsFirst`: by an invariant that ties each worker's
  attempt number to the event's; `Refinement`: every step of `Outbox` is a step
  of `Delivery` or a stutter.
- `RequestsProofs!TypeCorrect`: `TypeOK` of `Requests`, one lemma per action.
- `RequestsProofs!ExchangeStaysSound`.  That request, offers, item, users and hub agree
  is not inductive, for the same reason as the quota.  What makes it inductive is
  `SnapshotsCurrent`: a transaction that is not stale would decide the same and
  write the same documents if it began now.  To show that it is preserved, every
  step is shown to change only documents in a set D it declares written (`Covered(D)`);
  a transaction D does not touch keeps what it saw, one that D touches becomes
  stale.  This is where the writes made for conflicts only are needed: a new offer
  is a document no closing request has in its write set, the touched request is.
  `DeliveredHistory` then follows: no transaction that can commit writes a
  document of a delivered exchange.
- `RequestsProofs!LimitsHold`: the four limits.  A step that makes a count of a user grow
  writes that user's document (`Counted`), and a transaction locks the users it
  counted for, so the room it found is still there when it commits (`RoomKept`);
  it then adds one.  This is where the operation locks are needed, and why it
  does not matter that public and linked items are counted by different services.
- `SessionsProofs`.  The invariant adds to the types that tokens were handed out for
  sessions in order, none later than the current `sessionVersion` (`TokensOrdered`); that
  what a request carries between two updates is of a session that is current or over, and
  that two logins between their updates carry different ones (`Sound`, `Apart`); and that
  the counter stored with a code is what that code was guessed (`CodeCounted`).
  `TokensStayCurrent` and `GuessesStayBounded` follow.  `SessionsImplementOne`: `Store` is `Begin`,
  an access token handed out by a refresh is `Renew`, whatever clears the stored tokens is `End`, all else a stutter.
  `RacersKeepTheirSession` adds that a token of the current session is the stored one, the one in its grace period, or one
  whose grace period ended (`Worn`), and that a handler about to end the sessions or to clear a cookie met one that began or is
  over (`Past`); `LastCodeVerifies`, that the code in force of an unverified account is the last one sent (`LastCode`).
- `AdmissionProofs!StaleEntriesExplained`.  The property is inductive entry by entry once the types are known (`OfProcesses`):
  a write to the account makes its writer announce it (`Announcing`), which is a reason for every entry at once; the
  announcement becomes a message to each process, the message an empty cache or a loss; a handler or a process that ends
  before it announced leaves all of them in `missed`; and a load that read before the write fills an entry that is `late`.
  A login is announcing from its first commit on, while its session is the current one; if it is replaced, whoever replaced it
  announces, which is why the conflict of `storeRefreshToken` may end without a word.
- `ChatProofs`.  `ThreadInv`: a claim about to commit is of a thread that was free, the claimer's own, that of somebody away,
  or of somebody who came back since the claim looked (`Takeable`), and it commits only over the owner it read; who is about to
  join is a participant or `late` (`MayJoin`).  `ThreadsAreNotTaken` and `RoomKeepsOthersOut` follow.  `MessageInv`, for
  `MessagesDoArrive`: of the attempts at one message only one is past the store (`Alone`), so that it is broadcast once; whoever is
  in the room lacks only what is due to him on a page or about to be broadcast (`SeenInRoom`), which is what makes it safe to mark
  more than was read as long as the socket stays; and what was marked for a socket that left is recorded with it (`ReadSeen`).
- `ServicesProofs`.  `RatingsCounted`: the equation of score and ratings is inductive once the types
  are known.  `DecisionsStand`: what every handler stores keeps the override it finds and the level with it
  (`Follows`), whatever it read.  `LeaseIsHeld`: when time runs out on a lease its run is
  recorded as lapsed, and `Freed` frees a process's own lease only.  `ThresholdBans`: an open decision that missed
  nothing has the count and the ban of now (`SnapshotHolds`).  `DecisionsFinal`: the report a decision writes was
  pending when it was read, and the decision fails if it is no longer what was read.  `NoStaleSettings`: a load of the current
  generation that has read carries at least the version of the last invalidation, and no
  invalidation is ahead of the document (`LoadSound`, `NothingAhead`).  `JobsFollowSettings`: whichever load of the job's handler
  ends last brings the day that holds then, unless the process is yet to hear of an update or is excused (`Heard`, `Behind`); a
  process that starts is not `up` until a load brought it a day, so that it owes nothing before.
  `RemindersStaySound`: a reminder is claimed by one task of one run or was sent, and as long as its booking lasts the item
  says so (`Reminder`), which is what the claim's filter looks at; while a task holds the claim, everything stored before is
  `doubted` (`ClaimSound`); a claim nobody holds was lost (`LiveClaim`).
  `FailuresAreCounted`: while nothing is `blurred` the record and the process whose run is not over both have the streak
  (`CountSound`).  `LevelsHaveGrounds`: what a handler read had grounds, and until an administrator decides, the registration
  policy it read still holds (`SawGrounds`); the settings are any at every step, and a login, which only adds the mark and the level
  together, keeps the grounds under all of them.  What can take a ground away is a profile change, hence `crossed`, and a
  registration made again, hence `struck`.
  `PhotosStaySound`: the photo of a request whose save is open, or is known to have failed, is named by nothing else
  (`Fresh`), so that it may be removed; what an edit is about to remove is no longer the item's (`Uploaded`); and an
  offer being cleaned up shares its photo with no other offer and not with the item (`OfferSound`).  What is current
  and what is kept is then followed photo by photo (`IsCurrent`, `IsKept`).  For what else is shown, `NamesSound` says that a
  deleted item or an ended offer names no photo whose removal is not under way or known to have failed.

Every invariant, action property and refinement that a passing run checks is proved.  Only model-checked are the
five properties under fairness, `OverdueResolved`, `OverdueRequestsClose`, `EventsSettle`, `CachesConverge` and `BannedAreGone`:
the prover has no rules for `ENABLED`, on which fairness rests, so that progress is shown on the instances of
the table alone.  The disagreements are counterexamples on one instance, which is all they need to be.  The invariants above
(`LInv`, `QueueInv`, `RaceInv`, `ThreadInv`, ...) were checked by TLC on the instances of the runs before they were proved.

## Not modelled

- Notifications and e-mails beyond the outbox: no state of a component depends on them.
- Routing, validation, formatting, search, rate limits of HTTP, metrics, health checks, the
  maintenance scripts and configuration: pure functions and I/O.
- `createHub`, `updateHub`, and public items that name a hub: they change nothing a property of `Requests` tells
  apart.
- Statistics, leaderboards, the monthly quota counters and the deletion of old documents.
- The avatar of a user, which is replaced as the photo of an item is, without a transaction.
- MongoDB, Redis, the socket adapter and the photo store themselves: what they promise is in the actions
  (snapshots and conflicts, an expiring key, messages that may be lost, calls that may fail), and the
  index of definitions marks it as external.

## Files

`Booking`, `Requests`, `Outbox`, `Sessions`, `Admission`, `Chat`, `Settings`, `Jobs`, `Trust`, `Reports`, `Ratings`, `Images` are the
models, `ItemLife`, `Delivery` and `OneSession` the abstract specifications.  `MCBooking`, `MCRequests`, `MCOutbox`, `MCAdmission` give TLC one
model's instances; `MCSupply`, `MCProgress`, `MCAccounts`, `MCServices` put scenes or components side by side; `*Proofs` hold the theorems.
A run is a module and the `.cfg` that ends in its name:
`tlc -config MCBooking_board.cfg MCBooking.tla` runs `board`, `tlc -config MCServices_services.cfg MCServices.tla` runs `services`;
`tlapm BookingLifeProofs.tla` checks one proof module.  Definitions named
after another one with a suffix and marked "Mutant" are broken variants of it:
each property is known to fail when the variant takes its place.  `PROJECT.json` maps
every definition to the lines it models and every hazard to its properties.

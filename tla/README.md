# Formal models of Englishom

Englishom is a NestJS server of an English course: customers buy a level (a
course) through the payment provider Paymob, work through its fifty days, and get
a certificate. All state is in MongoDB (a replica set, with transactions where the
code asks for them) and GridFS; several instances of the server run under PM2.
This directory models the parts of it that are hard to test, checks them with TLC
and proves what matters most with TLAPS.

Source paths below are relative to the repository; TypeScript lives in `src/`.

## 1. Inventory

| Component | State | Operations | Talks to | Hard behaviour | What makes it correct |
|---|---|---|---|---|---|
| **Orders and payments** `src/payment/` | `orders` documents | `processOrder`, `createIntention`, callback with retries, refund, reports | Paymob (HTTP), users, courses, mail | duplicated, reordered, late callbacks; snapshot transactions; two handlers and two jobs on one document | one payment settles one order of its own user, for ever; an acknowledged payment left an order |
| **Manual assignment** `src/dashboard/dashboard.service.ts` | `orders` | `assignCourseToUser` | orders, courses, mail | races with a purchase of the same level | an assigned level behaves like a bought one |
| **Order cron jobs** `src/cron/` | `orders` | mark expired access, delete old pending orders | orders | run between the two halves of any transaction | access ends with its window; nothing settled is deleted |
| **Courses** `src/course/` | `courses` | create, `updateCourse` | orders read the price | the price changes between checkout and payment | (data for Orders) |
| **Transactions** `src/common/database/transaction.service.ts` | session | `withTransaction` | every transactional handler | write conflicts abort and are not retried; write skew | (semantics of Orders) |
| **Learner progress** `src/user/` | `userprogresses`, `usertasks`, `certifications`, `days`, `tasks` | complete-day, complete-task, complete-level | orders (ownership) | read, check, write without a transaction; partial failure after the last day | days in sequence, one certificate, earned and not lost |
| **Level access** `src/common/services/level-access.service.ts` | none (reads orders) | `getLatestAccessInfo` | orders; uploads, results | most recent order of any status decides; pages, job and purchases compute access differently | the views of one order agree |
| **User authentication** `src/user-auth/` | `users.activeSessionId`, `status`, `otps` | signup, login, OTP, reset, OAuth | mail, JWT | two devices, two codes, TTL index, restart between two writes | one valid session, the newest; a used code is gone, and served its purpose |
| **Inactive-user job** `src/cron/inactive-user-cron.service.ts` | `users.status` | warn, suspend | mail, users | pages a filter it shrinks; writes from a stale read | only the inactive are suspended, and all of them in the end; status and reason agree |
| **Administrators** `src/admin/`, `src/admin-auth/` | `admins` | create, update, delete, seed | JWT | two deletions of the last two SUPER admins; a demoted one whose request goes on; instances that boot at once | the last SUPER is kept (it is not: section 3); a boot provides one |
| **Lesson files** `src/file-upload/` | GridFS files | upload, replace, combine, lesson JSON edits | GridFS | replace is delete and upload; read-modify-write of a document; recordings found in one loop and fetched in another | without overlaps and failures the document is what was answered; a combination leaves out no day with a wav recording |
| **Transcription client** `src/common/services/transformers-audio-transcribe.service.ts` | `inFlight` | `transcribe` | AI service | counter at its limit, waiting requests, failing calls | the counter is the number of calls in flight; nobody waits for ever |
| **Speech results** `src/file-upload/services/user-results.service.ts` | none | similarity score | transcription client, level access | boundaries and weights of a score | a percentage; letters alone do not pass a sentence of less than 60 words |
| **Figures and reports** `src/dashboard/`, `paymob.service.ts` | none (reads orders, certificates) | statistics, reports by period, pages of users | orders, certificates | orders change while they are read; calendar boundaries | a figure is never taken back; periods partition time |
| Mail, seeder, configuration, filters, IP and redirect helpers, nginx | none that matters here | | | | |

`PROJECT.json` lists the hazards of these components at the lines where they bite,
with the properties that cover them.

How they interact: customers' orders are the only source of ownership. The
assignment, the purchase and the callback write them in transactions, the cron jobs
without; progress and level access only read them (`getUserCompletedOrders`,
`findMostRecentOrder`). Users are read by every handler and written by
authentication, administrators and the inactivity job.

## 2. Modules

| Module | Role |
|---|---|
| `PaymentLedger` | abstract specification: what the order book promises, no requests, transactions or jobs |
| `Orders` | purchase, callback, assignment, cron jobs, price changes, clock; instantiates `PaymentLedger` |
| `LevelAccess` | what readers of the orders conclude about access; extends `Orders` |
| `Reports` | figures and reports of the dashboard; extends `Orders` |
| `MCOrders` | `LevelAccess`, `Reports` and symmetry for TLC |
| `OrdersProofs` | theorems about `Orders` and `LevelAccess`, with the refinement |
| `ReportsProofs` | theorems about `Reports`: the calendar, the figures; extends `OrdersProofs` |
| `Progress` | days, tasks and certificates of learners |
| `LearnerPage` | what pages conclude from progress and certificates; extends `Progress` |
| `MCProgress` | `LearnerPage` and symmetry for TLC |
| `ProgressProofs` | theorems about `Progress` and `LearnerPage` |
| `InactiveUsers` | the inactivity job beside requests, resets, sign-ups and administrators |
| `InactiveUsersProofs` | theorems about `InactiveUsers` |
| `UserAccounts` | accounts, one-time passwords and sessions |
| `MCUserAccounts` | symmetry for TLC |
| `UserAccountsProofs` | theorems about types and sessions of `UserAccounts` |
| `UserOtpProofs` | theorems about its one-time passwords |
| `Admins` | administrators and the seeding at boot |
| `MCAdmins` | symmetry for TLC |
| `AdminsProofs` | theorems about `Admins` |
| `GridFS` | files with versions, and the steps all requests on them share |
| `LessonFiles`, `UserAudios` | requests on the lesson document, and on recordings; extend `GridFS` |
| `SpeechResults` | the limit on transcriptions and the similarity; extends `GridFS` for its requests |
| `FileUpload` | composes the three, which share the requests and the process |
| `FileUploadProofs` | theorems about `FileUpload`, and about the grade of `SpeechResults` |

Operators whose comment begins "A slip, for comparison" are not part of a
specification. Each is what a small mistake would turn the next operator into
(a filter without one of its conditions, `<=` for `<`); with it in place of that
operator TLC finds the property named in `PROJECT.json` ("mutants") violated, which
shows that the property depends on the code.

### Orders

State. `orders` is the collection, by `_id`. `price` is `Course.price`, `intents`
and `attempts` are the provider's books (external: the intentions a customer can
pay, and the transactions made for them), `reqs` and `cbs` the open requests and
callbacks, `acked` the intentions of which a callback was answered `true`, `now`
the day.

Actions and code:

| Action | Code |
|---|---|
| `processOrder`, `CommitOrder` | `PaymobController.processPayment`, `PaymobService.processOrder`, `OrderRepo.upsertOrder` |
| `assignCourseToUser`, `CommitAssign` | `DashboardService.assignCourseToUser` |
| `AbortRequest`, `AbortCallback` | the `catch` of `withTransaction`; provider timeout, write conflict, duplicate key, failing database |
| `Pay`, `Decline` | external: Paymob |
| `StartSettling`, `IgnoreDeclined`, `AnswerFromExisting`, `RetryNotFound` (together `callbackPost`) | the reads and early returns of `handlePaymobCallback` and the retry loop around it |
| `CommitCallback` | `OrderRepo.updateOrderStatus` and the commit |
| `LoseCallback` | restart while the retry waits in `setTimeout` |
| `markExpiredOrders`, `deletePendingOrders` | the two cron jobs, with `markExpiredOrdersCutoff`, `deletePendingOrdersOlderThan` |
| `updateCourse` | a new price |
| `Tick` | a day passes |

Transactions. A transaction reads from one snapshot and writes one order. Its reads
are one step, which keeps the document it will write in `seen`; its write and commit
are another, enabled only if the document is still equal to `seen`. MongoDB aborts
on any write since the snapshot, the model on any *different* document: a rewrite
with equal contents is let through, which changes nothing. Inserts do not conflict,
so two transactions that each saw "no order" may both insert. A write in a
transaction is invisible until the commit, so the two are merged; an abort after the
write is `AbortRequest` or `AbortCallback`. Nothing retries an abort: the retry loop
knows the message "No matching pending order" only.

Abstractions, all of them deliberate:

- The price is read before the transaction starts; the model reads it in the same
  step. `updateCourse` may run before and after, and the amount is kept in the request.
- Amounts are in hundredths, so that `Math.round(amount_cents / 100)` is what it is:
  `WholeAmount` rounds to the whole unit, and a price of 1.50 never matches itself.
- `updatedAt` is read only to sort pending orders, and the only writer of a pending
  order sets `paymentDate` at the same time; `paymentDate` stands for both.
- The provider makes at most one declined and one captured attempt per intention,
  and delivers the callback of each any number of times, in any order, at any time.
  A callback with `pending: true` or `success: false` takes the path of a declined one.
- Users exist and keep their e-mail, so "User not found" does not occur; the status
  check of `assignCourseToUser` only refuses and is left to the choice not to call it.
- `Failed to update order status` needs the order to vanish inside the transaction
  that read it; a snapshot does not allow that.
- `REFUNDED` is declared and unreachable: `POST payment/refund` reads `req.user`
  (paymob.controller.ts:348-353) but no guard sets it, so the handler always throws
  before it calls the service.
- Mail is not modelled. It matters in one place, the receipt that is mailed before the
  commit (listed as a hazard).
- Time is in days; `AccessDays` is 60 and `PendingDays` 1 in the code. The cron jobs
  are actions that are always enabled: they may run more often than their schedule.

### Progress

State: `owned` (levels of which the user has a COMPLETED order, which by
`SettledIsFinal` of `Orders` is never taken back), `progress`, `userTasks`,
`certificates`, and `reqs`, the requests between two of their database calls.
`complete-day`, `complete-task` and `complete-level` run without a transaction. Each
is a check step (`markDayAsCompleted`, `markTaskAsCompleted`, `markLevelAsCompleted`)
and one step for each write or certificate lookup after it; `FailRequest` ends a
request at any of them with what it wrote in place.

The two reads of a check (orders, then progress) are one step: both only grow, and
the first result is still true when the second is read. The document of a day or a
task is found or created under a unique key, so the key stands for it. A day is in
`1 .. LastDay` because `UserFinishDayDto` says so (`@Min(1)`, `@Max(50)`).

### InactiveUsers

State: `users` (status, date and reason of a suspension, `lastActivity`), `signups`,
`entered` (users with a request between its two calls), `job` (the run of the job:
the day it started, the page, what the two queries of the page returned), `now`,
and the counters `failures` and `changes`.

| Action | Code |
|---|---|
| `signup`, `verifyOtp` | `UserService.create`, `UserAuthService.verifyOtp` |
| `validateAndGetUser`, `updateLastActivity` | the two database calls of a request or login, in `GlobalAuthenticationService` |
| `resetPasswordWithToken` | a password reset; an OAuth login touches `lastActivity` in the same way |
| `updateUserStatus`, `deleteUser` | what administrators do to accounts (`UserService`) |
| `StartJob` | `handleInactiveUsers` on the primary instance |
| `FindPage`, `CountPages` | the two queries of `findWithPagination`, in either order |
| `SuspendUser`, `MailUser`, `FailToSuspend` (`processSingleUser`) | one user of the page, from his copy |
| `EndPage` | the end of the loop's body |
| `AbortJob` | the outer `catch`, or a restart |

Abstractions:

- Users are numbered in the order of sign-up, which is the order in which an unsorted
  query returns them; a number is not used again after a deletion. An OAuth sign-up is
  `signup` and `verifyOtp`.
- Time is in days, so `lastActivity < sevenDaysAgo` and `Math.floor` of the difference
  agree at the limits. The filter `role != ADMIN` holds for every user.
- Mails change nothing; whether a user who is not due gets one is left out. A mail that
  fails after the update leaves the same state as one that is sent.
- The job may run again at once, more often than daily. A run is not overlapped by
  another: it would have to take a day.
- `displaced` is history, kept by `Watch` beside each `Step`: the users whom a run need not
  find, because something changed the filter before them while the run went on (`Displaces`
  lists what). No action reads it.
- The activity of a request may be stored at any later time, although in the code it
  follows its check. The clock is read one call earlier than the date is stored
  (authentication.service.ts:59-65) and both are one step here: the call takes moments, and
  time is in days. A call that straddles the second in which the job starts could leave a
  suspended account with an activity just before that start, which `SuspendedWereInactive`
  does not show.

### LevelAccess, Reports and LearnerPage

These extend `Orders` and `Progress` by operators and add no state: the code they model
only reads. `findMostRecentOrder` and `latestByLevel` are sets, because orders of one day
sort in any order. `AccessViewsAgree` relates three views of one order: what
`calculateAccessInfo` computes at each read, what `updateOrderStatus` stored as the end, and
what the daily job made of it. That the most recent order need not be a paid one (a pending
order opens its level) is in the operators; it contradicts a message of the controller and is
listed in section 3.

`Reports` has JavaScript's calendar as far as `getPeriodRange` uses it (external), from
Monday, 1 January 2024, on. A period from midnight to the last millisecond of a day is a
range of days. TLC checks each day of a leap cycle; that the periods follow one another
for ever is proved. The revenue is the number of pairs of a completed order and a
hundredth of its amount, which is the sum of the amounts without a recursion.
`FiguresStand` is an action property: it compares figures before and after each step.

A page of `LearnerPage` reads everything at one moment; the code asks for progress
and certificate in two calls, and an error shows day 1.

### UserAccounts

State: `users` and `otps` (the collections), `requests` (one per process, each with the set
of calls it has to make next), `tokens`, the counters behind the ids of accounts, one-time
passwords and sessions; `mailed`, `used` and `resettable` are history: the codes that
reached a mailbox, those whose verification completed, the addresses for which a reset
token was signed. No action but the choice of what people type reads them.

| Action | Code |
|---|---|
| `signup`, `login`, `findOrCreateOAuthUser`, `verifyOtp`, `resendOtp` | the first query of each handler of `UserAuthService`, with its checks |
| `createUser` | `UserService.create`, and the unique index on the address |
| `deleteOtp`, `createOtp`, `sendEmail` | `generateAndSendOtp`; the unique index on address and cause |
| `touchOAuthUser`, `createSessionAndGenerateToken` | the end of a login: one or two updates, and the token |
| `findOtp`, `verifyUser`, `deleteUsedOtp`, `generateTokenWithJti` | the rest of `verifyOtp`; two of them run at the same time (`Promise.all`) |
| `Fail` | a call that fails, the unique index, a restart |
| `expire` | external: MongoDB's TTL index |
| `updateUserStatus`, `deleteUser` | what administrators do to an account |

`createSessionAndGenerateToken` is one step: what other requests see of it is its one update,
and the token names the session whatever happens next. Sessions are numbered as they are
stored; the code draws a random one just before. A wrong password, an account of another
strategy and every other request that is refused after its first query changes nothing
and is no step. BLOCKED is told apart from SUSPENDED only in messages here. `forgetPassword`
is `resendOtp` with its cause. `POST users` (an account without code and session) is left out.

### Admins

State: `admins`, `requests` (between their checks and their write), `boots` (one per
instance), `tokens`. The history variable `changed` of a request says that the collection
was written after the request last read it.

| Action | Code |
|---|---|
| `createAdmin`, `updateAdmin`, `deleteAdmin`, `deactivateAdmin` | guards (`Guarded`) and checks of `AdminService` |
| `login`, `storeLogin` | `AdminAuthService.login` around the comparison of the password |
| `countAdminsByRole` | the count before a SUPER is deleted |
| `storeCreated`, `storeUpdate`, `storeDeactivation`, `storeDeletion` | the write |
| `BootStarts`, `BootFinds`, `BootCreates`, `BootFails` | `AdminSeederService.onModuleInit` |
| `Fail`, `BootDies` | a failing call, a restart |

The guard's read and the handler's first read of its target are one step. OPERATOR and VIEW
have no more rights here than MANAGER and are left out. The id is the order of creation.
`createAdmin` carries what it creates in `update`, as an `UpdateAdminDto` has the fields of a
`CreateAdminDto`: an update may change the address too, and the unique index refuses one that
somebody else has. Names and passwords are left out.

### GridFS, LessonFiles, UserAudios, SpeechResults, FileUpload

State: `files` (of each name its versions, oldest first), `requests`, `inFlight`. History:
`disturbed` (names on which requests overlapped, or, for the document, a call failed),
`promised`, `current` and `lasting`, explained where they are declared.

| Action | Code |
|---|---|
| `insertIntoJsonDataArray`, `deleteFromJsonDataArray`, `deleteFile`, `getContentByName` | arrival of a request on a lesson document |
| `FindDocument`, `DownloadDocument`, `ReadFails` | `getOrInitializeJsonData`, whose `catch` answers every error with an empty document |
| `FindExisting`, `Delete`, `Upload` | `saveJsonToGridFS`, `saveBufferToGridFS`, `uploadToGridFS` |
| `uploadUserAudio`, `deleteUserAudio`, `FindToDelete` | recordings of a day |
| `combineUserLevelAudios`, `SearchDay`, `EndSearch`, `FetchDay`, `DownloadDay` | the two loops of `combineUserLevelAudios` |
| `compareSpeakTranscript`, `LookAgain`, `FinishTranscription` | `withConcurrencyLimit` around a transcription |
| `Fail`, `Restart` | a failing call of one request; all requests and the counter are lost |

Abstractions:

- One lesson document, and one user and level of recordings: requests on other names share
  nothing with them. Each request does one operation, once.
- A version is named by the request that uploaded it, an object of a document by the one
  that inserted it (the code draws a uuid). `uploadDate` orders versions by milliseconds;
  ties are ignored. A deletion of chunks and file is one step.
- The combination looks for `wav` recordings only (`DaysWithWav`); a day recorded as `mp3` has
  none (section 3).
- The ten seconds a request waits for a place are `MaxPolls` looks. The counter is per
  process; one process is modelled.
- The similarity is computed in whole numbers from the lengths, distance and matches it
  takes from the texts. Rounding is `Math.round` of the exact value.

## 3. What is checked

| Run | Instance | Shows |
|---|---|---|
| `orders_safety` | 2 users, 1 level, prices 1.50 and 2.00, 2 orders, 2 intentions, 1 request, 2 callbacks, 1 retry, 2 days; 586,040 distinct states | the safety properties, the refinement of `PaymentLedger`, and the views of `LevelAccess` |
| `orders_liveness` | 1 user, 2 orders, 1 callback, 3 days; 31,091 states, no symmetry | callbacks are answered, abandoned orders removed, paid access expires; figures stand and periods partition time (`Reports`) |
| `orders_assigned_access_runs_out` | violation | an assigned order never expires |
| `orders_payment_buys_its_level` | violation | with equal prices, a payment completes the order of the other level |
| `orders_acknowledged_is_recorded` | violation | a payment is answered "true" and recorded nowhere |
| `orders_no_duplicate_access` | violation | concurrent purchases give one user two active orders of a level |
| `progress_safety` | 2 learners, 1 level of 3 days, 1 task per day, 2 requests; 54,916 states | all properties of `Progress` and `LearnerPage` |
| `inactive_users` | 2 users, pages of 1, limits of 1 and 2 days, 3 days, 1 failure, 1 change by an administrator; 135,694 states, no symmetry | all properties of `InactiveUsers`, with fairness |
| `user_accounts` | 1 address, 2 processes, 2 accounts, 2 codes, 2 sessions; 1,783,000 states | all properties of `UserAccounts` |
| `admins` | 2 addresses (one is the seeded one), 2 processes, 2 instances, 2 administrators; 603,067 states | the types and the seeding of `Admins` |
| `admins_last_super_is_kept` | violation | the last SUPER is deleted by a request that had counted two |
| `file_upload` | 3 requests, 2 days, 1 place, 1 look; 60,914 states, no symmetry | all properties of `FileUpload`, with fairness |

Properties of `Orders`: `OnePaymentOneOrder`, `SettledByItsUser`,
`AcknowledgedUserOwns`, `AccessWindow`, `InFlight` (what an open transaction relies on),
`SettledIsFinal` (an action property), `ImplementsLedger`; under fairness
`CallbackAnswered`, `AbandonedIsRemoved`, `PaidAccessRunsOut`. Of `Progress`:
`NoDaySkipped`, `TasksWithinReach`, `OneCertificate`, `CertificateEarned`,
`CertificateNotLost`. Of `InactiveUsers`: `SuspensionRecorded`, `SuspendedWereInactive`, the
action property `LeftOutWereDisplaced`; under fairness `JobEnds`, `NobodyStaysDue`. Of
`LevelAccess`: `AccessViewsAgree`; of `Reports`: `FiguresStand` (action property), `PeriodsPartitionTime`; of `LearnerPage`:
`PageLeadsOn`. Of `UserAccounts`: `UsedCodesAreGone`, `CodesServeTheirPurpose`,
`TokensWereCurrent`, and the action property `NewestSessionWins`. Of `Admins` the action
property `SeededAtBoot`. Of `FileUpload`: `CombinedHasEveryWav`, `PlacesAreTranscriptions`, the
action property `DocumentAsPromised`, and under fairness `RequestsEnd`. The comment above
each says what it is about.

Four of them say what holds although the code has races or leaves things out.
`LeftOutWereDisplaced` does not say that a run suspends everybody who is due, because it need
not: it says who can be left out. `UsedCodesAreGone` does not say that a code serves once: two
verifications that both found it before one of them deleted it both succeed.
`DocumentAsPromised` excludes documents on which requests overlapped or a call failed,
because the code loses edits then, so it speaks for the undisturbed case only.
`CombinedHasEveryWav` is about wav recordings, as the code is: of each day that has one all
the time the combination takes a version that was the latest at some time of the request
(a version that was replaced is the latest again once its successor is deleted), and it
asks for one combined recording only where no two combinations ran at once. The models
contain these races; the properties say how far the damage goes.

Why the bounds are enough. Two callbacks and two orders of two users are what it takes
for a payment to be settled twice, for the wrong order or for the wrong user; two
intentions give a late callback a second pending order to find; one retry reaches both
sides of the retry limit; one fractional price forces the fallback to the most recent
order. One day beyond `AccessDays` and `PendingDays` makes both jobs act (in
`orders_safety` `PendingDays` is 0). A level of three days has a first, a middle and a last
one; two requests are what a race on a certificate needs. Two users on pages of one are
the smallest case in which a suspension moves a user to a page that was read; the clock
reaches both limits of the job, and one failure and one change of an administrator can
fall between any two of its steps. Two
requests on one address, and a second account after a deletion, are what it takes to mix
up codes and sessions; two of each let an older one come back. There is one address, because
requests on different addresses share no document; that a code for one address does not
serve for another is proved (section 4), not run. With two accounts on one address the
unique index refuses one. Two instances that boot at once beside two requests, with two
addresses, let the seeded one be free, the other instance's or somebody else's; two SUPERs
and two requests reach each way to lose the last one. Three requests on
files are a writer, a second writer and a reader, or a combination beside an upload and a
deletion; two days are the least with an order among them; one place with three requests
has one inside and two that look for it. Every
safety invariant and action property of the runs is also proved, and the theorems have
none of these bounds; what rests on them is the liveness. Symmetry is used in the safety runs
only, and the symmetric sets occur in no property in a distinguishing way.

Deadlock is checked in every run but `file_upload`, whose requests do one operation each:
when all have been answered nothing is left to do.

Fairness of `Orders` (`FairSpec`, `orders_liveness` and the first violation run). Weak fairness of
`FinishRequest` and `FinishCallback`: a handler that has begun gets to its end, since
the event loop is fair, every `await` is on a database call or on a fetch with a
timeout, and an error path counts as an end. Weak fairness of the two cron jobs:
`@Cron` fires for ever on the primary instance. None for `Pay`, `Tick`, new requests or
deliveries: nothing obliges the customer, and the clock's bound is not a promise.
`AbandonedIsRemoved` and `PaidAccessRunsOut` therefore start from a day that has come.

Fairness of `InactiveUsers`. Weak fairness of `StartJob`, because `@Cron` fires for ever,
and of each step of a run: its queries, its users, the end of its pages. A restart or an
error is not excluded by that; `MaxFailures` is the promise that they stop, without which
no run need end well. In the same way `MaxChanges` bounds how often administrators
reactivate accounts, and `NumUsers` the sign-ups: a user is left out of a run only when the
filter changed before him while it ran (`LeftOutWereDisplaced`), so an endless supply of
users who are suspended, or come and go, before him could leave him out for ever. None for requests, sign-ups, resets or
the clock.

Fairness of `FileUpload`. Weak fairness of `NextCall`: a call to GridFS returns, if only
with an error. Weak fairness of `LookAgain`: timers fire. None for new requests, and none
for `FinishTranscription`: that a waiting request ends is not owed to those inside.

### Where code and comments disagree

The five violation runs each check one sentence of the repository's comments and docs;
`PROJECT.json` ("findings") quotes them and says what the code does:

1. `dashboard.service.ts:137`: reassignment "if the previous order has expired", but an
   assigned order has no `accessExpiresAt` and never does.
2. `paymob.service.ts:314`: the lookup "handles equal-amount collisions", but the first
   lookup takes any pending order of the user with that amount.
3. `paymob.service.ts:346`: "treat as idempotent", but the completed order found need not be
   the one this payment bought.
4. `order.repo.ts:98`: "prevents duplicate purchases", but check and insert of two
   transactions do not conflict.
5. `docs/ADMIN_SYSTEM.md:19`: "Protection against deleting the last SUPER admin" (also :38,
   :86 and the comments in `admin.service.ts`), but the SUPERs are counted in one call and one is
   deleted in another. `LastSuperIsKept` is that promise as it stands; besides races, an update
   may demote the last SUPER, which the documents do not speak of.

Others are in the models without a run of their own:

- `docs/USER_SUSPENSION_SYSTEM.md:21`: "65+ days inactive: Automatically suspend accounts", but
  the users suspended on a page leave the filter, so the next page skips as many others.
  `LeftOutWereDisplaced` says which users a run can leave out, `NobodyStaysDue` that a later
  run finds them.
- `user-results.controller.ts:38`: "User has not purchased this level or access has expired",
  but an unpaid pending order is enough to pass this check (`getLatestAccessInfo` takes the
  most recent order of any status).
- `file-upload.service.ts:157-159`: "Assumes daily audios stored at: .../today_audio.mp3", but
  only `today_audio.wav` is looked for, and `uploadUserAudio` stores every other format as
  `today_audio.mp3`: such a day is left out.
- `docs/SPEAK_ASSESSMENT_IMPLEMENTATION.md:102-126`: the score is the share of matched words,
  less half a point per extra word, and 70 percent pass. In the code it is 0.4 of the likeness
  of the letters and 0.6 of the matched words, less a tenth per extra word. Two of three
  words, the long ones among them, can pass in the code and fail there; ten of ten words and four
  more pass there and never here (`GradesOfAnyText`).

## 4. What is proved

For every set of users, levels, orders, intentions, requests and callbacks, every
set of prices and every value of the windows and limits, from `OrdersAssumption`
(prices, windows and limits are natural numbers; `None` is none of the records):

- `TypeCorrect`: `Spec => []TypeOK`.
- `Invariant`: `Spec => []IInv`, where `IInv` is `TypeOK`, `InFlight`,
  `OnePaymentOneOrder`, `SettledByItsUser`, `AcknowledgedUserOwns` and `AccessWindow`.
- one theorem for each of these conjuncts, `SettledOrdersAreFinal` for the action
  property and `OrdersImplementLedger` for the refinement.

Why the strengthening is needed: a commit writes a document derived from `seen`, so
without `InFlight` nothing says it belonged to the payer and was pending, and an
order of somebody else could be completed. The argument has three writers
(`CommitOrder`, `CommitAssign`, `CommitCallback`), each of which replaces one order by
another that satisfies the per-order facts (`WriteOrder`), two jobs that only expire
or delete (`CronSafe`), and steps that leave `orders` alone, which can disturb `InFlight`
only. `SettledIsFinal` follows because a commit's document equals `seen`, which was
pending. The refinement maps a missing order to "ABSENT"; each writer is one action of
the ledger (`LedgerWrite` gives the two functions that change), each job is `Expire` or
`Drop`, every other step stutters.

`ReadersAgreeOnAccess` (`LevelAccess`) needs no more than `IInv`: `AccessWindow` says where the
end of an access comes from, and the rest is arithmetic on the clock.

For `Reports`, from the same assumption. The calendar first, for every day from 2024 on: years
and months are found, and only one of each (`FullYear`, `YearIsUnique`, `DateOfDay`,
`MonthIsUnique`), each month starts where the one before it ends (`NextMonthStarts`), and with
that `PeriodsFollowForEver`, for days, weeks, months and years, through leap days and the
centuries that have none. `ReportsPartitionTime` adds to `IInv` that no payment date lies in the
future (`DatesPast`). `DashboardFiguresStand` adds that finitely many orders are completed
(`FiniteSales`), without which a figure would be no number: it holds although the set of
orders may be infinite, because a step completes one order (`OneMoreSale`). A completed order
stays and keeps its user, level and amount (`CompletedStay`), so the sets that are counted
only grow (`FiguresGrow`).

For `Progress`, from `ProgressAssumption` (`LastDay` is positive, `None` is no request), every
invariant of the run: `ProgressTypeCorrect`, `DaysInSequence`, `TasksInReach`,
`CertificatesAreUnique`, `CertificatesAreEarned`, `CertificatesAreNotLost`. The
strengthening has `InFlight`, that what a request was checked against is still
true when it writes (days and orders are never taken back), and `ProgressIsOwned`.
`PagesLeadOn` is about the pages of `LearnerPage`. It follows from the same invariant, which
is enough: the greatest completed day of a level (`GreatestCompletedDay`) has all days before
it, so the day offered next is one the learner may complete. To compare the completions of a
level with its owners it counts learners, hence `LearnerPageAssumption`, that there are
finitely many; the collection of users is finite.

For `InactiveUsers`, from `InactiveUsersAssumption` (bounds and limits are natural numbers,
pages are not empty, `None` is none of the values it stands beside):
`InactiveUsersTypeCorrect`, `SuspensionsAreRecorded`, `SuspendedHadBeenAway`,
`OnlyDisplacedAreLeftOut`. `SuspendedWereInactive`
is not inductive: the job writes from a copy, and nothing says that the copy is still
what the collection holds. The strengthening (`IInv`) adds that no date lies in the
future (`AllSound`), and that a user the run has a copy of still has the activity the copy
says, or has been active since the run started (`JobSound`).

The paging has an invariant of its own (`PagingSound`): a user who is not displaced is in the
filter and, if due, still to come (`ToCome`), which means on the page at hand, or at a place
beyond the pages that were read and, once these are counted, within the count. It rests on
what skip and limit do: the places of the users of the filter are the numbers from 1 to their
count, none left out (`EveryPlaceIsTaken`, a least user without the place before him would be
a contradiction), so a page that is empty is beyond everybody (`PageNotEmpty`), and
a change behind a user moves him nowhere (`StaysInFilter`). A user who is due is not mailed
instead, because his copy cannot be newer than what is stored (`DueStaysDue`). Beyond the
bounds the proof needs that the mails start no later than the suspensions
(`MailDays <= SuspendDays`, 7 and 65 in the code), or the filter would lack users who are due.

For `UserAccounts`, from `UserAccountsAssumption` (bounds are natural numbers, `None` is no
account, request or number), every property of its run. `UserAccountsProofs` has the
types, `TokensStayCurrent` and `NewestSessionStays`. Types alone are not inductive: a login
stores a session for the account it found, so the invariant says which requests have
one (`RequestSound`). `TokensWereCurrent` needs that the session a request has seen is at
most the session its account has, that accounts are numbered up to `created`, so that
nothing refers to the next one, and that stored sessions were drawn before. Steps which
store no session go through one lemma (`QuietStep`); `createUser`, `verifyUser`,
`createSessionAndGenerateToken` and `generateTokenWithJti` have one each. `UserOtpProofs` has
`CodesServeOnce` and `CodesProveTheAddress`. The code compares what was typed with the
document of the address and cause, so the argument goes by numbers: among the codes that
are stored, mailed or about to be mailed, a number stands for one address and cause
(`NumbersIdentify`), a typed number was mailed, hence the document it equals was mailed for
this address and cause; and because the index keeps one document of each
(`OneCodeEach`), deleting by address and cause removes the accepted code or the one that
replaced it. Both inductive invariants were checked by TLC on the instance of the run,
with one session, before they were proved.

For `Admins`, from `AdminsAssumption` (the seeded address is an address, `None` is none of the
values it stands beside): `AdminsTypeCorrect`, `LastSuperIsLostByRaceOrDemotion`,
`SeederLeavesASuper`. The promise itself, `LastSuperIsKept`, is refuted by a run; the second
theorem says in which ways it can fail and that there is no other. It is about the step that
writes, and what makes the write harmless was checked steps before. So the invariant says, of a request whose
`changed` is FALSE, that what it checked still holds (`CheckStands`): its target is no SUPER, or
there are two active ones. `PlacesUnused` says that nothing is stored beyond `created`, so an
insert replaces nobody.

For `FileUpload`, from the assumptions of its modules (bounds are natural numbers, at least
one day and one place, `None` is no request and no name), for any number of requests, days
and places: `FilesTypeCorrect`, `PlacesAreCounted`, `EveryWavIsCombined`,
`DocumentsAreAsPromised`. None of them is inductive. The invariant (`IInv`, checked by TLC on
the instance of the run before it was proved) has these parts:

- `RequestsSound`: a running request is at a step its operation has, on a name it may be
  about, and knows what that step needs.
- `UploadsAnswered`: a version is the last thing its request did, so an answered request and
  its history do not change under the version.
- `PlacesCounted`: `Transcribing` is finite and `inFlight` its cardinality. A step of one
  request adds it, removes it or leaves it (`Counts`), a restart empties it.
- `CombinationsOnTrack`: what a combination has fetched was the latest of its day meanwhile,
  and what it has fetched or still has to fetch leaves out no day that had a wav version all
  the time. It is the loop invariant of both loops, kept while the recordings change under
  them: a deletion takes the day from `lasting`, an upload adds to `current`. `CombinedVersions`
  says the same of what was stored.
- `Undisturbed`: on a name without overlaps or failures there is one version at most, all
  running requests are readers unless there is only one, the version that was found is the
  one that is there, and an upload finds none.
- `DocumentKept`: under these conditions what an edit is about to save is what the answers
  promised and its own change, and the document holds the promise unless somebody has
  taken it away to upload the next.

`GradesOfAnyText` is about `Similarity` alone, for every text: a percentage, no pass with more
than three words too many, and none with less than half of the words in a sentence of
fewer than 60. The limit is real: 70 is reached at 69.5, and from 60 words on one word less
than half is within that half percent. It is a statement about the function, not about
behaviours, and no run checks it.

Induction over data occurs nowhere; where a proof needs a greatest or least number
(`LeastNumber`), it is that of well-founded orders in the library.

Only model-checked, because liveness under fairness and ENABLED are outside what TLAPS proves
here: `CallbackAnswered`, `AbandonedIsRemoved`, `PaidAccessRunsOut`, `JobEnds`,
`NobodyStaysDue`, `RequestsEnd`. Every other property of a passing run is stated by a theorem.
The five violations are counterexamples and need no proof.

## 5. Plan

The components that are worth modelling are modelled, and their safety properties proved.
What is left:

1. Step lemmas towards the liveness properties, which need no fairness: that a number
   decreases with each retry of a callback, each look of a waiting request and each step of a
   request on files, so that only the fairness itself is left to TLC.
2. An abstract specification of the lesson document (insert, delete, read as single steps)
   that `FileUpload` implements as long as the document is not disturbed, with
   `DocumentKept` as the refinement's invariant.
3. How many runs of the inactivity job can leave out one user: no more than there are
   users before him, for any page size; TLC checks only that it is finitely many.

## 6. Not modelled

Searches, lists and the streaming of files only read, and no property is about them. Mail,
templates, receipts, OAuth redirects, IP lookup, interceptors, filters, HMAC comparison,
configuration, nginx and containers keep no state of a protocol; that mail does not fail
its callers is a step of `UserAccounts`. Updates of profiles write names. The validators of
lesson contents (`lesson-upload.dto.ts`) are one check of shape each. The seeders create
development data. `POST payment/refund` never reaches its service (see `Orders`). Several
instances of the server share MongoDB, which is modelled, and nothing else but the
files of PM2; the counter of transcriptions is per instance. `VerifiedGuard` and
`UserStatusGuard` are declared and used by no controller; what keeps a suspended account out
is `validateAndGetUser`, in `InactiveUsers`.

------------------------------- MODULE Orders -------------------------------
(***************************************************************************)
(* The purchase of a level: order documents, the two handlers that write   *)
(* them (process-payment and the provider's callback), the administrator's *)
(* manual assignment and the two cron jobs.                                *)
(*                                                                         *)
(* MongoDB runs each handler in a snapshot transaction                     *)
(* (TransactionService.withTransaction).  A handler is therefore two       *)
(* steps: Begin* evaluates every read on the snapshot and remembers the    *)
(* document it will write; Commit* succeeds only if that document is still *)
(* as the snapshot saw it (else the server aborts with a WriteConflict)    *)
(* and the unique index on paymentId accepts it.  Documents that are       *)
(* inserted do not conflict, so write skew is possible.  A transaction may *)
(* also abort for any reason (provider timeout, network, primary           *)
(* step-down); no handler retries an abort.                                *)
(*                                                                         *)
(* Amounts are in hundredths.  Time is counted in days.                    *)
(***************************************************************************)
EXTENDS Integers

CONSTANTS Users, Levels,
          Prices,       \* the prices a course may have, in hundredths
          OrderIds,     \* ObjectIds of order documents
          Intents,      \* payment intentions of the provider
          Requests,     \* concurrent process-payment and assign requests
          Callbacks,    \* concurrent callback requests
          AccessDays,   \* 60 in the code
          PendingDays,  \* 1 in the code
          MaxRetries,   \* 3 in the code
          MaxDay,       \* bound on the clock
          None          \* an absent document, field or request

VARIABLES orders,    \* the orders collection, by _id
          price,     \* Course.price, by level
          intents,   \* provider: the intentions that can be paid
          attempts,  \* provider: payment transactions, each with its result
          reqs,      \* open process-payment and assign transactions
          cbs,       \* callbacks being handled
          acked,     \* intentions whose success callback was answered true
          now        \* the day

vars == <<orders, price, intents, attempts, reqs, cbs, acked, now>>

-----------------------------------------------------------------------------
(* Data.                                                                   *)

\* A transaction of the provider: an attempt to pay an intention.
Attempt == [kind : {"captured", "declined"}, of : Intents]

\* ADMIN_ASSIGNED_<ms>: milliseconds differ between two assigned orders.
AssignedId == [kind : {"assigned"}, of : OrderIds]

PaymentIds == Attempt \cup AssignedId

\* REFUNDED is declared but not reachable, see the README.
PaymentStatus == {"PENDING", "COMPLETED", "FAILED"}

OrderAccessStatus == {"ACTIVE", "EXPIRED"}

\* updatedAt is read only to sort pending orders, which upsertOrder writes
\* together with paymentDate: paymentDate stands for both.
Order == [userId : Users, levelName : Levels, amount : Prices,
          paymentStatus : PaymentStatus,
          paymentId : PaymentIds \cup {None},
          accessStatus : OrderAccessStatus,
          createdAt : Nat, paymentDate : Nat,
          accessExpiresAt : Nat \cup {None}]

Intention == [userId : Users, levelName : Levels, amount : Prices]

Request == [op : {"order", "assign"},
            userId : Users, levelName : Levels, amount : Prices,
            target : OrderIds, seen : Order \cup {None}]

Callback ==
  [stage : {"delay"}, pay : Attempt, retryCount : 0 .. MaxRetries]
    \cup
  [stage : {"tx"}, pay : Attempt, target : OrderIds, seen : Order]

ASSUME OrdersAssumption ==
  /\ Prices \subseteq Nat
  /\ {AccessDays, PendingDays, MaxRetries, MaxDay} \subseteq Nat
  /\ None \notin Order \cup PaymentIds \cup Intention \cup Request
                   \cup Callback \cup Nat

TypeOK ==
  /\ orders \in [OrderIds -> Order \cup {None}]
  /\ price \in [Levels -> Prices]
  /\ intents \in [Intents -> Intention \cup {None}]
  /\ attempts \subseteq Attempt
  /\ reqs \in [Requests -> Request \cup {None}]
  /\ cbs \in [Callbacks -> Callback \cup {None}]
  /\ acked \subseteq Intents
  /\ now \in Nat

Init ==
  /\ orders = [o \in OrderIds |-> None]
  /\ price \in [Levels -> Prices]
  /\ intents = [i \in Intents |-> None]
  /\ attempts = {}
  /\ reqs = [r \in Requests |-> None]
  /\ cbs = [s \in Callbacks |-> None]
  /\ acked = {}
  /\ now = 0

-----------------------------------------------------------------------------
(* Queries on the orders collection.                                       *)

OrdersOf(u, status) ==
  {o \in OrderIds : /\ orders[o] # None
                    /\ orders[o].userId = u
                    /\ orders[o].paymentStatus = status}

\* A slip, for comparison: without the status in the filter.
AnyOrderOfLevel(u, l) ==
  {o \in OrderIds : /\ orders[o] # None
                    /\ orders[o].userId = u
                    /\ orders[o].levelName = l}

findPendingOrder(u, l) ==
  {o \in OrdersOf(u, "PENDING") : orders[o].levelName = l}

findActiveCompletedOrder(u, l) ==
  {o \in OrdersOf(u, "COMPLETED") : /\ orders[o].levelName = l
                                    /\ orders[o].accessStatus = "ACTIVE"}

\* Orders updated on the same day sort in some order.
findMostRecentPendingOrder(u) ==
  {o \in OrdersOf(u, "PENDING") :
     \A p \in OrdersOf(u, "PENDING") :
       orders[p].paymentDate <= orders[o].paymentDate}

\* Math.round(amount_cents / 100): callbacks look for whole amounts.
WholeAmount(amount) == 100 * ((amount + 50) \div 100)

\* A slip, for comparison: without the user in the filter.
PendingAtEveryUsersAmount(u, amount) ==
  {o \in OrderIds : /\ orders[o] # None
                    /\ orders[o].paymentStatus = "PENDING"
                    /\ orders[o].amount = WholeAmount(amount)}

findPendingByAmount(u, amount) ==
  {o \in OrdersOf(u, "PENDING") : orders[o].amount = WholeAmount(amount)}

findByAmount(u, amount) ==
  {o \in OrderIds : /\ orders[o] # None
                    /\ orders[o].userId = u
                    /\ orders[o].amount = WholeAmount(amount)}

\* A slip, for comparison: paymentId without its index.
NoUniqueIndex(o, p) == TRUE

\* The unique sparse index on paymentId admits p on order o.
UniquePaymentId(o, p) ==
  \A q \in OrderIds \ {o} : orders[q] # None => orders[q].paymentId # p

\* A slip, for comparison: a lost update, as outside a transaction.
StillExists(t, seen) == (orders[t] = None) = (seen = None)

\* No write has touched document t since the snapshot that saw it.
NoWriteConflict(t, seen) == orders[t] = seen

\* ObjectIds that no document has and no open request will use.
FreshIds ==
  {o \in OrderIds : /\ orders[o] = None
                    /\ \A r \in Requests : reqs[r] # None => reqs[r].target # o}

-----------------------------------------------------------------------------
(* The documents written.                                                  *)

newOrder(q, status, p) ==
  [userId |-> q.userId, levelName |-> q.levelName, amount |-> q.amount,
   paymentStatus |-> status, paymentId |-> p, accessStatus |-> "ACTIVE",
   createdAt |-> now, paymentDate |-> now, accessExpiresAt |-> None]

upsertOrder(q) ==
  IF q.seen = None
  THEN newOrder(q, "PENDING", None)
  ELSE [q.seen EXCEPT !.amount = q.amount, !.paymentDate = now]

\* A slip, for comparison: accessExpiresAt forgotten.
NoExpiryDate(d, status, p) ==
  [d EXCEPT !.paymentStatus = status, !.paymentId = p,
            !.paymentDate = IF status = "COMPLETED" THEN now ELSE @,
            !.accessStatus = "ACTIVE"]

updateOrderStatus(d, status, p) ==
  IF status = "COMPLETED"
  THEN [d EXCEPT !.paymentStatus = status, !.paymentId = p,
                 !.paymentDate = now, !.accessStatus = "ACTIVE",
                 !.accessExpiresAt = now + AccessDays]
  ELSE [d EXCEPT !.paymentStatus = status, !.paymentId = p]

-----------------------------------------------------------------------------
(* POST payment/process-payment and POST dashboard/assign-course.          *)

\* The controller reads the price; the transaction then checks for active
\* access, asks the provider for an intention and finds the pending order.
processOrder(r, u, l) ==
  /\ reqs[r] = None
  /\ findActiveCompletedOrder(u, l) = {}
  /\ \E o \in IF findPendingOrder(u, l) # {}
              THEN findPendingOrder(u, l) ELSE FreshIds :
       reqs' = [reqs EXCEPT ![r] =
                  [op |-> "order", userId |-> u, levelName |-> l,
                   amount |-> price[l], target |-> o, seen |-> orders[o]]]
  /\ UNCHANGED <<orders, price, intents, attempts, cbs, acked, now>>

\* The upsert commits and the checkout URL is returned: only now can the
\* user pay the intention i.
CommitOrder(r, i) ==
  /\ reqs[r] # None
  /\ reqs[r].op = "order"
  /\ NoWriteConflict(reqs[r].target, reqs[r].seen)
  /\ intents[i] = None
  /\ orders' = [orders EXCEPT ![reqs[r].target] = upsertOrder(reqs[r])]
  /\ intents' = [intents EXCEPT ![i] = [userId |-> reqs[r].userId,
                                        levelName |-> reqs[r].levelName,
                                        amount |-> reqs[r].amount]]
  /\ reqs' = [reqs EXCEPT ![r] = None]
  /\ UNCHANGED <<price, attempts, cbs, acked, now>>

assignCourseToUser(r, u, l) ==
  /\ reqs[r] = None
  /\ findActiveCompletedOrder(u, l) = {}
  /\ \E o \in FreshIds :
       reqs' = [reqs EXCEPT ![r] =
                  [op |-> "assign", userId |-> u, levelName |-> l,
                   amount |-> price[l], target |-> o, seen |-> None]]
  /\ UNCHANGED <<orders, price, intents, attempts, cbs, acked, now>>

CommitAssign(r) ==
  /\ reqs[r] # None
  /\ reqs[r].op = "assign"
  /\ orders[reqs[r].target] = None
  /\ orders' = [orders EXCEPT ![reqs[r].target] =
                  newOrder(reqs[r], "COMPLETED",
                           [kind |-> "assigned", of |-> reqs[r].target])]
  /\ reqs' = [reqs EXCEPT ![r] = None]
  /\ UNCHANGED <<price, intents, attempts, cbs, acked, now>>

\* withTransaction aborts and rethrows; the client gets an error.
AbortRequest(r) ==
  /\ reqs[r] # None
  /\ reqs' = [reqs EXCEPT ![r] = None]
  /\ UNCHANGED <<orders, price, intents, attempts, cbs, acked, now>>

FinishRequest(r) ==
  (\E i \in Intents : CommitOrder(r, i)) \/ CommitAssign(r) \/ AbortRequest(r)

-----------------------------------------------------------------------------
(* The provider: an intention is captured at most once, after at most one  *)
(* attempt that is declined; the callback of an attempt is delivered any   *)
(* number of times, at any time, in any order.                             *)

Pay(i) ==
  /\ intents[i] # None
  /\ [kind |-> "captured", of |-> i] \notin attempts
  /\ attempts' = attempts \cup {[kind |-> "captured", of |-> i]}
  /\ UNCHANGED <<orders, price, intents, reqs, cbs, acked, now>>

Decline(i) ==
  /\ intents[i] # None
  /\ [kind |-> "captured", of |-> i] \notin attempts
  /\ [kind |-> "declined", of |-> i] \notin attempts
  /\ attempts' = attempts \cup {[kind |-> "declined", of |-> i]}
  /\ UNCHANGED <<orders, price, intents, reqs, cbs, acked, now>>

-----------------------------------------------------------------------------
(* POST payment/callback: handlePaymobCallbackWithRetry, handlePaymobCallback *)

\* Slot s starts the transaction for attempt a after n retries: the callback
\* is delivered, or its delay before the retry is over.
Turn(s, a, n) ==
  \/ cbs[s] = None /\ a \in attempts /\ n = 0
  \/ cbs[s] = [stage |-> "delay", pay |-> a, retryCount |-> n]

Success(a) == a.kind = "captured"
Payer(a)   == intents[a.of].userId
Paid(a)    == intents[a.of].amount

\* The order a callback settles: one that waits for this amount, else, for
\* a successful payment, the pending order that was touched last.
Target(a) ==
  IF findPendingByAmount(Payer(a), Paid(a)) # {} \/ ~ Success(a)
  THEN findPendingByAmount(Payer(a), Paid(a))
  ELSE findMostRecentPendingOrder(Payer(a))

StartSettling(s, a, n) ==
  /\ Turn(s, a, n)
  /\ \E o \in Target(a) :
       cbs' = [cbs EXCEPT ![s] = [stage |-> "tx", pay |-> a,
                                  target |-> o, seen |-> orders[o]]]
  /\ UNCHANGED <<orders, price, intents, attempts, reqs, acked, now>>

\* Nothing to fail: the declined callback is answered false.
IgnoreDeclined(s, a, n) ==
  /\ Turn(s, a, n)
  /\ ~ Success(a)
  /\ Target(a) = {}
  /\ cbs' = [cbs EXCEPT ![s] = None]
  /\ UNCHANGED <<orders, price, intents, attempts, reqs, acked, now>>

\* A slip, for comparison: the status of the order not looked at.
AnyStatusIsIdempotent(o) == TRUE

AlreadyCompleted(o) == orders[o].paymentStatus = "COMPLETED"

\* No pending order: some order of the same amount decides.  A completed
\* one makes the callback a repetition, any other status is an error.
AnswerFromExisting(s, a, n) ==
  /\ Turn(s, a, n)
  /\ Success(a)
  /\ Target(a) = {}
  /\ \E o \in findByAmount(Payer(a), Paid(a)) :
       acked' = IF AlreadyCompleted(o) THEN acked \cup {a.of} ELSE acked
  /\ cbs' = [cbs EXCEPT ![s] = None]
  /\ UNCHANGED <<orders, price, intents, attempts, reqs, now>>

\* A slip, for comparison: <= for <.
OneRetryTooMany(n) == n <= MaxRetries

MayRetry(n) == n < MaxRetries

\* A slip, for comparison: retryCount not handed on.
ForgetsTheCount(n) == n

NextRetryCount(n) == n + 1

\* "No matching pending order found" is retried after a second.
RetryNotFound(s, a, n) ==
  /\ Turn(s, a, n)
  /\ Success(a)
  /\ Target(a) = {}
  /\ findByAmount(Payer(a), Paid(a)) = {}
  /\ cbs' = [cbs EXCEPT ![s] =
               IF MayRetry(n)
               THEN [stage |-> "delay", pay |-> a, retryCount |-> NextRetryCount(n)]
               ELSE None]
  /\ UNCHANGED <<orders, price, intents, attempts, reqs, acked, now>>

callbackPost(s, a, n) ==
  \/ StartSettling(s, a, n)
  \/ IgnoreDeclined(s, a, n)
  \/ AnswerFromExisting(s, a, n)
  \/ RetryNotFound(s, a, n)

\* The process is restarted during the delay before a retry.
LoseCallback(s) ==
  /\ cbs[s] # None
  /\ cbs[s].stage = "delay"
  /\ cbs' = [cbs EXCEPT ![s] = None]
  /\ UNCHANGED <<orders, price, intents, attempts, reqs, acked, now>>

InTx(s) == cbs[s] # None /\ cbs[s].stage = "tx"

CommitCallback(s) ==
  /\ InTx(s)
  /\ NoWriteConflict(cbs[s].target, cbs[s].seen)
  /\ UniquePaymentId(cbs[s].target, cbs[s].pay)
  /\ orders' = [orders EXCEPT ![cbs[s].target] =
                  updateOrderStatus(@, IF Success(cbs[s].pay)
                                       THEN "COMPLETED" ELSE "FAILED",
                                    cbs[s].pay)]
  /\ acked' = IF Success(cbs[s].pay) THEN acked \cup {cbs[s].pay.of} ELSE acked
  /\ cbs' = [cbs EXCEPT ![s] = None]
  /\ UNCHANGED <<price, intents, attempts, reqs, now>>

\* A WriteConflict, a duplicate paymentId or any failure of the server: the
\* retry loop does not know the message, the provider gets a 500.
AbortCallback(s) ==
  /\ InTx(s)
  /\ cbs' = [cbs EXCEPT ![s] = None]
  /\ UNCHANGED <<orders, price, intents, attempts, reqs, acked, now>>

\* What an accepted callback does next.
FinishCallback(s) ==
  \/ cbs[s] # None /\ \E a \in Attempt, n \in 0 .. MaxRetries : callbackPost(s, a, n)
  \/ CommitCallback(s)
  \/ AbortCallback(s)

-----------------------------------------------------------------------------
(* Cron jobs (on the primary instance only), price changes and the clock.  *)

\* A slip, for comparison: the window counted from createdAt.
WindowFromCreation(o) == orders[o].createdAt + AccessDays <= now

AccessRanOut(o) ==
  /\ orders[o].accessExpiresAt # None
  /\ orders[o].accessExpiresAt <= now

markExpiredOrders ==
  /\ orders' = [o \in OrderIds |->
       IF /\ orders[o] # None
          /\ orders[o].paymentStatus = "COMPLETED"
          /\ AccessRanOut(o)
       THEN [orders[o] EXCEPT !.accessStatus = "EXPIRED"]
       ELSE orders[o]]
  /\ UNCHANGED <<price, intents, attempts, reqs, cbs, acked, now>>

\* A slip, for comparison: without the status in the filter.
StaleOfAnyStatus(o) ==
  /\ orders[o] # None
  /\ orders[o].createdAt + PendingDays < now

\* A slip, for comparison: compares the last upsert.
StaleSinceLastUpsert(o) ==
  /\ orders[o] # None
  /\ orders[o].paymentStatus = "PENDING"
  /\ orders[o].paymentDate + PendingDays < now

StalePending(o) ==
  /\ orders[o] # None
  /\ orders[o].paymentStatus = "PENDING"
  /\ orders[o].createdAt + PendingDays < now

deletePendingOrders ==
  /\ orders' = [o \in OrderIds |-> IF StalePending(o) THEN None ELSE orders[o]]
  /\ UNCHANGED <<price, intents, attempts, reqs, cbs, acked, now>>

updateCourse(l, p) ==
  /\ price' = [price EXCEPT ![l] = p]
  /\ UNCHANGED <<orders, intents, attempts, reqs, cbs, acked, now>>

Tick ==
  /\ now < MaxDay
  /\ now' = now + 1
  /\ UNCHANGED <<orders, price, intents, attempts, reqs, cbs, acked>>

-----------------------------------------------------------------------------

Next ==
  \/ \E r \in Requests :
       \/ \E u \in Users, l \in Levels :
            processOrder(r, u, l) \/ assignCourseToUser(r, u, l)
       \/ FinishRequest(r)
  \/ \E i \in Intents : Pay(i) \/ Decline(i)
  \/ \E s \in Callbacks :
       \/ \E a \in Attempt, n \in 0 .. MaxRetries : callbackPost(s, a, n)
       \/ CommitCallback(s)
       \/ AbortCallback(s)
       \/ LoseCallback(s)
  \/ \E l \in Levels, p \in Prices : updateCourse(l, p)
  \/ markExpiredOrders
  \/ deletePendingOrders
  \/ Tick

Spec == Init /\ [][Next]_vars

\* Requests that were accepted run to their end (the fetch to the provider
\* has a timeout), and the scheduler fires both cron jobs for ever.
Fairness ==
  /\ \A r \in Requests : WF_vars(FinishRequest(r))
  /\ \A s \in Callbacks : WF_vars(FinishCallback(s))
  /\ WF_vars(markExpiredOrders)
  /\ WF_vars(deletePendingOrders)

FairSpec == Spec /\ Fairness

-----------------------------------------------------------------------------
(* Safety.                                                                 *)

\* One payment never buys two orders: duplicated and concurrent callbacks of
\* a transaction settle at most one order between them, whichever pending
\* order each of them found (handlePaymobCallback, unique index on paymentId).
OnePaymentOneOrder ==
  \A o, p \in OrderIds :
    /\ orders[o] # None
    /\ orders[p] # None
    /\ orders[o].paymentId # None
    /\ orders[o].paymentId = orders[p].paymentId
    => o = p

\* How document d of order o came to its status.
Unpaid(d) == d.paymentStatus = "PENDING" /\ d.paymentId = None

Assigned(o, d) ==
  d.paymentStatus = "COMPLETED" /\ d.paymentId = [kind |-> "assigned", of |-> o]

PaidOrDeclined(d) ==
  \E a \in attempts :
    /\ d.paymentId = a
    /\ d.paymentStatus = IF Success(a) THEN "COMPLETED" ELSE "FAILED"
    /\ d.userId = Payer(a)

\* Nobody's money settles somebody else's order: a completed order was paid
\* by a captured attempt of its own user or assigned, a failed one carries a
\* declined attempt of its own user, and a pending one carries no payment.
SettledByItsUser ==
  \A o \in OrderIds : orders[o] # None =>
    Unpaid(orders[o]) \/ Assigned(o, orders[o]) \/ PaidOrDeclined(orders[o])

\* A customer whose payment was acknowledged to the provider does own a
\* completed order, however late, repeated or raced by the cron jobs the
\* callback was (the answer "true" of handlePaymobCallback).
AcknowledgedUserOwns ==
  \A i \in acked :
    /\ [kind |-> "captured", of |-> i] \in attempts
    /\ \E o \in OrderIds : /\ orders[o] # None
                          /\ orders[o].paymentStatus = "COMPLETED"
                          /\ orders[o].userId = intents[i].userId

\* Access is taken away only when the window the payment opened is over; the
\* window is that of the payment, not of the order's creation, and only a
\* completed order has one (updateOrderStatus, markExpiredOrdersCutoff).
AccessWindow ==
  \A o \in OrderIds : orders[o] # None =>
    /\ orders[o].accessStatus = "EXPIRED" =>
         /\ orders[o].paymentStatus = "COMPLETED"
         /\ orders[o].paymentDate + AccessDays <= now
    /\ orders[o].accessExpiresAt # None =>
         /\ orders[o].paymentStatus = "COMPLETED"
         /\ orders[o].accessExpiresAt = orders[o].paymentDate + AccessDays

\* What an open transaction relies on stays true until it ends, whoever runs
\* in between: a callback works for a payment that was attempted and holds a
\* pending order of the payer, a purchase holds its own user's pending order
\* of the level or none, and an assignment none.
InFlight ==
  /\ \A a \in attempts : intents[a.of] # None
  /\ \A s \in Callbacks : cbs[s] # None =>
       /\ cbs[s].pay \in attempts
       /\ cbs[s].stage = "tx" =>
            /\ cbs[s].seen.paymentStatus = "PENDING"
            /\ cbs[s].seen.userId = Payer(cbs[s].pay)
  /\ \A r \in Requests : reqs[r] # None /\ reqs[r].seen # None =>
       /\ reqs[r].op = "order"
       /\ reqs[r].seen.paymentStatus = "PENDING"
       /\ reqs[r].seen.userId = reqs[r].userId
       /\ reqs[r].seen.levelName = reqs[r].levelName

\* A settled order is never settled again, moved or deleted: a late callback
\* that read the order while it was pending, the cleanup job and a new
\* purchase all leave it as it is, and its access can only run out.
SettledIsFinal ==
  [][\A o \in OrderIds :
       /\ orders[o] # None
       /\ orders[o].paymentStatus # "PENDING"
       => /\ orders'[o] # None
          /\ \/ orders'[o] = orders[o]
             \/ orders'[o] = [orders[o] EXCEPT !.accessStatus = "EXPIRED"]]_orders

-----------------------------------------------------------------------------
(* The ledger this implements.                                             *)

statusBar == [o \in OrderIds |->
                IF orders[o] = None THEN "ABSENT" ELSE orders[o].paymentStatus]

paidByBar == [o \in OrderIds |->
                IF orders[o] = None THEN None ELSE orders[o].paymentId]

accessBar == [o \in OrderIds |->
                IF orders[o] = None THEN "ACTIVE" ELSE orders[o].accessStatus]

Ledger == INSTANCE PaymentLedger
            WITH status <- statusBar, paidBy <- paidByBar, access <- accessBar

\* Every step of the handlers and jobs is a step of the payment ledger or
\* leaves the ledger as it is.
ImplementsLedger == Ledger!Spec

-----------------------------------------------------------------------------
(* Liveness, under Fairness.                                               *)

\* Every callback is answered: the retry loop of
\* handlePaymobCallbackWithRetry ends.
CallbackAnswered == \A s \in Callbacks : cbs[s] # None ~> cbs[s] = None

\* A purchase that was never paid does not linger as a pending order for more
\* than PendingDays, even if the user keeps coming back to the checkout
\* (deletePendingOrders compares createdAt, which the upsert leaves alone).
AbandonedIsRemoved ==
  \A o \in OrderIds : \A day \in 0 .. MaxDay :
    (/\ orders[o] # None
     /\ orders[o].paymentStatus = "PENDING"
     /\ orders[o].createdAt = day
     /\ day + PendingDays < now)
    ~> (orders[o] # None =>
          orders[o].paymentStatus # "PENDING" \/ orders[o].createdAt > day)

\* Access bought from the provider runs out in the order's own record too.
PaidAccessRunsOut ==
  \A o \in OrderIds :
    (/\ orders[o] # None
     /\ orders[o].paymentStatus = "COMPLETED"
     /\ orders[o].paymentId \in Attempt
     /\ orders[o].paymentDate + AccessDays <= now)
    ~> (orders[o] # None /\ orders[o].accessStatus = "EXPIRED")

-----------------------------------------------------------------------------
(* What comments of the repository say, and the code does not do.          *)

\* "Check if user already has this course with ACTIVE access.  Allow
\* reassignment if the previous order has expired" (dashboard.service.ts):
\* an assigned order would have to expire like any other.
AccessRunsOut ==
  \A o \in OrderIds :
    (/\ orders[o] # None
     /\ orders[o].paymentStatus = "COMPLETED"
     /\ orders[o].paymentDate + AccessDays <= now)
    ~> (orders[o] # None /\ orders[o].accessStatus = "EXPIRED")

\* "handles equal-amount collisions" (paymob.service.ts): a payment completes
\* an order of the level that was paid.
PaymentBuysItsLevel ==
  \A o \in OrderIds, i \in Intents :
    /\ orders[o] # None
    /\ orders[o].paymentId = [kind |-> "captured", of |-> i]
    => orders[o].levelName = intents[i].levelName

\* "If already completed with same amount, treat as idempotent"
\* (paymob.service.ts): a callback is answered true only for a payment that
\* some order records.
AcknowledgedIsRecorded ==
  \A i \in acked : \E o \in OrderIds :
    orders[o] # None /\ orders[o].paymentId = [kind |-> "captured", of |-> i]

\* "This prevents duplicate purchases only if the user has an active
\* subscription" (order.repo.ts): no user owns a level twice at a time.
NoDuplicateAccess ==
  \A o, p \in OrderIds :
    /\ orders[o] # None
    /\ p \in findActiveCompletedOrder(orders[o].userId, orders[o].levelName)
    /\ o \in findActiveCompletedOrder(orders[o].userId, orders[o].levelName)
    => o = p

=============================================================================

---------------------------- MODULE OrdersProofs ----------------------------
(***************************************************************************)
(* Proofs about Orders and what LevelAccess reads of them, for every       *)
(* number of users, levels, orders, payments and concurrent requests,      *)
(* every set of prices and every length of the access window.              *)
(***************************************************************************)
EXTENDS LevelAccess, TLAPS

-----------------------------------------------------------------------------
(* The documents the handlers write are documents.                         *)

LEMMA NewOrderType ==
  ASSUME TypeOK, NEW q \in Request, NEW status \in PaymentStatus,
         NEW p \in PaymentIds \cup {None}
  PROVE  newOrder(q, status, p) \in Order
BY DEF newOrder, Order, Request, OrderAccessStatus, TypeOK

LEMMA UpsertOrderType ==
  ASSUME TypeOK, NEW q \in Request
  PROVE  upsertOrder(q) \in Order
<1>1. CASE q.seen = None
  BY <1>1, NewOrderType DEF upsertOrder, PaymentStatus
<1>2. CASE q.seen # None
  BY <1>2 DEF upsertOrder, Order, Request, TypeOK
<1> QED
  BY <1>1, <1>2

LEMMA UpdateOrderStatusType ==
  ASSUME TypeOK, NEW d \in Order, NEW status \in PaymentStatus,
         NEW p \in PaymentIds
  PROVE  updateOrderStatus(d, status, p) \in Order
<1>1. now + AccessDays \in Nat
  BY OrdersAssumption DEF TypeOK
<1> QED
  BY <1>1 DEF updateOrderStatus, Order, OrderAccessStatus, TypeOK

-----------------------------------------------------------------------------

LEMMA InitTypeOK == Init => TypeOK
BY DEF Init, TypeOK

LEMMA ProcessOrderTypeOK ==
  ASSUME TypeOK, NEW r \in Requests, NEW u \in Users, NEW l \in Levels,
         processOrder(r, u, l)
  PROVE  TypeOK'
<1>1. PICK o \in OrderIds :
        reqs' = [reqs EXCEPT ![r] =
                   [op |-> "order", userId |-> u, levelName |-> l,
                    amount |-> price[l], target |-> o, seen |-> orders[o]]]
  BY DEF processOrder, findPendingOrder, OrdersOf, FreshIds
<1>2. [op |-> "order", userId |-> u, levelName |-> l, amount |-> price[l],
       target |-> o, seen |-> orders[o]] \in Request
  BY DEF TypeOK, Request
<1> QED
  BY <1>1, <1>2 DEF TypeOK, processOrder

LEMMA CommitOrderTypeOK ==
  ASSUME TypeOK, NEW r \in Requests, NEW i \in Intents, CommitOrder(r, i)
  PROVE  TypeOK'
<1>1. reqs[r] \in Request
  BY DEF TypeOK, CommitOrder
<1>2. upsertOrder(reqs[r]) \in Order
  BY <1>1, UpsertOrderType
<1>3. [userId |-> reqs[r].userId, levelName |-> reqs[r].levelName,
       amount |-> reqs[r].amount] \in Intention
  BY <1>1 DEF Request, Intention
<1> QED
  BY <1>1, <1>2, <1>3 DEF TypeOK, CommitOrder

LEMMA AssignTypeOK ==
  ASSUME TypeOK, NEW r \in Requests, NEW u \in Users, NEW l \in Levels,
         assignCourseToUser(r, u, l)
  PROVE  TypeOK'
<1>1. PICK o \in OrderIds :
        reqs' = [reqs EXCEPT ![r] =
                   [op |-> "assign", userId |-> u, levelName |-> l,
                    amount |-> price[l], target |-> o, seen |-> None]]
  BY DEF assignCourseToUser, FreshIds
<1>2. [op |-> "assign", userId |-> u, levelName |-> l, amount |-> price[l],
       target |-> o, seen |-> None] \in Request
  BY DEF TypeOK, Request
<1> QED
  BY <1>1, <1>2 DEF TypeOK, assignCourseToUser

LEMMA CommitAssignTypeOK ==
  ASSUME TypeOK, NEW r \in Requests, CommitAssign(r)
  PROVE  TypeOK'
<1>1. reqs[r] \in Request
  BY DEF TypeOK, CommitAssign
<1>2. [kind |-> "assigned", of |-> reqs[r].target] \in PaymentIds
  BY <1>1 DEF PaymentIds, AssignedId, Request
<1>3. newOrder(reqs[r], "COMPLETED", [kind |-> "assigned", of |-> reqs[r].target])
        \in Order
  BY <1>1, <1>2, NewOrderType DEF PaymentStatus
<1> QED
  BY <1>1, <1>3 DEF TypeOK, CommitAssign

LEMMA CallbackPostTypeOK ==
  ASSUME TypeOK, NEW s \in Callbacks, NEW a \in Attempt,
         NEW n \in 0 .. MaxRetries, callbackPost(s, a, n)
  PROVE  TypeOK'
<1>1. CASE StartSettling(s, a, n)
  <2>1. PICK o \in OrderIds :
          /\ orders[o] # None
          /\ cbs' = [cbs EXCEPT ![s] = [stage |-> "tx", pay |-> a,
                                        target |-> o, seen |-> orders[o]]]
    BY <1>1 DEF StartSettling, Target, findPendingByAmount,
                findMostRecentPendingOrder, OrdersOf
  <2>2. [stage |-> "tx", pay |-> a, target |-> o, seen |-> orders[o]] \in Callback
    BY <2>1 DEF TypeOK, Callback
  <2> QED
    BY <1>1, <2>1, <2>2 DEF TypeOK, StartSettling
<1>2. CASE IgnoreDeclined(s, a, n)
  BY <1>2 DEF TypeOK, IgnoreDeclined
<1>3. CASE AnswerFromExisting(s, a, n)
  <2>1. a.of \in Intents
    BY DEF Attempt
  <2> QED
    BY <1>3, <2>1 DEF TypeOK, AnswerFromExisting
<1>4. CASE RetryNotFound(s, a, n)
  <2>1. n < MaxRetries =>
          [stage |-> "delay", pay |-> a, retryCount |-> n + 1] \in Callback
    BY OrdersAssumption DEF Callback
  <2> QED
    BY <1>4, <2>1 DEF TypeOK, RetryNotFound, MayRetry, NextRetryCount
<1> QED
  BY <1>1, <1>2, <1>3, <1>4 DEF callbackPost

LEMMA CommitCallbackTypeOK ==
  ASSUME TypeOK, NEW s \in Callbacks, CommitCallback(s)
  PROVE  TypeOK'
<1>1. /\ cbs[s].pay \in Attempt
      /\ cbs[s].target \in OrderIds
      /\ cbs[s].seen \in Order
      /\ orders[cbs[s].target] = cbs[s].seen
  BY DEF TypeOK, CommitCallback, InTx, Callback, NoWriteConflict
<1>2. \A status \in PaymentStatus :
        updateOrderStatus(orders[cbs[s].target], status, cbs[s].pay) \in Order
  BY <1>1, UpdateOrderStatusType DEF PaymentIds
<1>3. cbs[s].pay.of \in Intents
  BY <1>1 DEF Attempt
<1> QED
  BY <1>1, <1>2, <1>3 DEF TypeOK, CommitCallback, PaymentStatus

LEMMA CronTypeOK ==
  ASSUME TypeOK, markExpiredOrders \/ deletePendingOrders
  PROVE  TypeOK'
<1>1. \A o \in OrderIds : orders[o] # None =>
        [orders[o] EXCEPT !.accessStatus = "EXPIRED"] \in Order
  BY DEF TypeOK, Order, OrderAccessStatus
<1>2. CASE markExpiredOrders
  BY <1>1, <1>2 DEF TypeOK, markExpiredOrders
<1>3. CASE deletePendingOrders
  BY <1>3 DEF TypeOK, deletePendingOrders
<1> QED
  BY <1>2, <1>3

LEMMA NextTypeOK == TypeOK /\ [Next]_vars => TypeOK'
<1> SUFFICES ASSUME TypeOK, [Next]_vars
             PROVE  TypeOK'
  OBVIOUS
<1>1. ASSUME NEW r \in Requests, NEW u \in Users, NEW l \in Levels,
             processOrder(r, u, l) \/ assignCourseToUser(r, u, l)
      PROVE  TypeOK'
  BY <1>1, ProcessOrderTypeOK, AssignTypeOK
<1>2. ASSUME NEW r \in Requests, FinishRequest(r)
      PROVE  TypeOK'
  <2>1. CASE AbortRequest(r)
    BY <2>1 DEF TypeOK, AbortRequest
  <2> QED
    BY <1>2, <2>1, CommitOrderTypeOK, CommitAssignTypeOK DEF FinishRequest
<1>3. ASSUME NEW i \in Intents, Pay(i) \/ Decline(i)
      PROVE  TypeOK'
  BY <1>3 DEF TypeOK, Pay, Decline, Attempt
<1>4. ASSUME NEW s \in Callbacks, NEW a \in Attempt, NEW n \in 0 .. MaxRetries,
             callbackPost(s, a, n)
      PROVE  TypeOK'
  BY <1>4, CallbackPostTypeOK
<1>5. ASSUME NEW s \in Callbacks,
             CommitCallback(s) \/ AbortCallback(s) \/ LoseCallback(s)
      PROVE  TypeOK'
  <2>1. CASE AbortCallback(s) \/ LoseCallback(s)
    BY <2>1 DEF TypeOK, AbortCallback, LoseCallback
  <2> QED
    BY <1>5, <2>1, CommitCallbackTypeOK
<1>6. ASSUME NEW l \in Levels, NEW p \in Prices, updateCourse(l, p)
      PROVE  TypeOK'
  BY <1>6 DEF TypeOK, updateCourse
<1>7. CASE markExpiredOrders \/ deletePendingOrders
  BY <1>7, CronTypeOK
<1>8. CASE Tick
  BY <1>8 DEF TypeOK, Tick
<1>9. CASE UNCHANGED vars
  BY <1>9 DEF TypeOK, vars
<1> QED
  BY <1>1, <1>2, <1>3, <1>4, <1>5, <1>6, <1>7, <1>8, <1>9 DEF Next

\* Every document the handlers and jobs write, and every document a handler
\* holds from its snapshot, is well formed.
THEOREM TypeCorrect == Spec => []TypeOK
<1> QED
  BY InitTypeOK, NextTypeOK, PTL DEF Spec

-----------------------------------------------------------------------------
(* The inductive invariant: the safety properties together with InFlight.  *)
(* A commit is safe because the document still is what the snapshot saw    *)
(* (NoWriteConflict), and InFlight says what that was.                     *)

Safe == SettledByItsUser /\ OnePaymentOneOrder /\ AcknowledgedUserOwns
          /\ AccessWindow

IInv == TypeOK /\ InFlight /\ Safe

LEMMA InitIInv == Init => IInv
BY InitTypeOK DEF Init, IInv, Safe, InFlight, SettledByItsUser,
                  OnePaymentOneOrder, AcknowledgedUserOwns, AccessWindow

\* A step that touches neither the orders nor the acknowledgements, and
\* only adds to what the provider knows, preserves Safe.
LEMMA Frame ==
  ASSUME IInv, UNCHANGED <<orders, acked>>,
         attempts \subseteq attempts',
         \A i \in Intents : intents[i] # None => intents'[i] = intents[i],
         now \in Nat, now' \in Nat, now <= now'
  PROVE  Safe'
<1> USE DEF IInv, Safe
<1>0. \A a \in attempts : Payer(a)' = Payer(a)
  BY DEF InFlight, Payer, TypeOK, Attempt
<1>1. SettledByItsUser'
  BY <1>0 DEF SettledByItsUser, Unpaid, Assigned, PaidOrDeclined, Success
<1>2. OnePaymentOneOrder'
  BY DEF OnePaymentOneOrder
<1>3. AcknowledgedUserOwns'
  <2>1. \A i \in acked : intents'[i] = intents[i]
    BY DEF AcknowledgedUserOwns, InFlight, TypeOK
  <2>2. AcknowledgedUserOwns
    OBVIOUS
  <2>3. acked' = acked /\ orders' = orders
    OBVIOUS
  <2> HIDE DEF IInv, Safe
  <2> QED
    BY <2>1, <2>2, <2>3 DEF AcknowledgedUserOwns
<1>4. AccessWindow'
  <2>1. \A o \in OrderIds : orders[o] # None =>
           orders[o].paymentDate + AccessDays \in Nat
    BY OrdersAssumption DEF TypeOK, Order
  <2> QED
    BY <2>1 DEF AccessWindow
<1> QED
  BY <1>1, <1>2, <1>3, <1>4

\* Writing document d over an absent or pending order preserves Safe when d
\* itself is settled properly.
LEMMA WriteOrder ==
  ASSUME IInv, NEW t \in OrderIds, NEW d \in Order,
         orders' = [orders EXCEPT ![t] = d],
         orders[t] = None \/ orders[t].paymentStatus = "PENDING",
         Unpaid(d) \/ Assigned(t, d) \/ PaidOrDeclined(d),
         d.paymentId = None \/ UniquePaymentId(t, d.paymentId),
         d.accessStatus = "ACTIVE",
         d.accessExpiresAt # None =>
           /\ d.paymentStatus = "COMPLETED"
           /\ d.accessExpiresAt = d.paymentDate + AccessDays,
         UNCHANGED <<attempts, now>>,
         \A i \in Intents : intents[i] # None => intents'[i] = intents[i],
         \A i \in acked' \ acked :
           /\ [kind |-> "captured", of |-> i] \in attempts
           /\ d.paymentStatus = "COMPLETED"
           /\ d.userId = intents[i].userId
  PROVE  Safe'
<1> USE DEF IInv, Safe
<1>0. d # None /\ orders'[t] = d /\ \A o \in OrderIds \ {t} : orders'[o] = orders[o]
  BY OrdersAssumption DEF TypeOK
<1>1. \A a \in attempts : Payer(a)' = Payer(a)
  BY DEF InFlight, Payer, TypeOK, Attempt
<1>2. SettledByItsUser'
  <2> SUFFICES ASSUME NEW o \in OrderIds, orders'[o] # None
               PROVE  (Unpaid(orders[o]) \/ Assigned(o, orders[o])
                        \/ PaidOrDeclined(orders[o]))'
    BY DEF SettledByItsUser
  <2>1. CASE o = t
    BY <1>0, <1>1, <2>1 DEF Unpaid, Assigned, PaidOrDeclined, Success
  <2>2. CASE o # t
    BY <1>0, <1>1, <2>2
       DEF SettledByItsUser, Unpaid, Assigned, PaidOrDeclined, Success
  <2> QED
    BY <2>1, <2>2
<1>3. OnePaymentOneOrder'
  BY <1>0 DEF OnePaymentOneOrder, UniquePaymentId
<1>4. AcknowledgedUserOwns'
  <2> SUFFICES ASSUME NEW i \in acked'
               PROVE  /\ [kind |-> "captured", of |-> i] \in attempts
                      /\ \E o \in OrderIds :
                           /\ orders'[o] # None
                           /\ orders'[o].paymentStatus = "COMPLETED"
                           /\ orders'[o].userId = intents'[i].userId
    BY DEF AcknowledgedUserOwns
  <2>1. [kind |-> "captured", of |-> i] \in attempts
    BY DEF AcknowledgedUserOwns
  <2>2. intents'[i] = intents[i]
    BY <2>1 DEF InFlight, TypeOK, Attempt
  <2>3. CASE i \in acked
    BY <1>0, <2>1, <2>2, <2>3 DEF AcknowledgedUserOwns
  <2>4. CASE i \notin acked
    BY <1>0, <2>1, <2>2, <2>4
  <2> QED
    BY <2>3, <2>4
<1>5. AccessWindow'
  BY <1>0 DEF AccessWindow
<1> QED
  BY <1>2, <1>3, <1>4, <1>5

\* What a commit writes: a purchase opens or refreshes a pending order, ...
LEMMA CommitOrderWrites ==
  ASSUME IInv, NEW r \in Requests, NEW i \in Intents, CommitOrder(r, i)
  PROVE  \E t \in OrderIds, d \in Order :
           /\ orders' = [orders EXCEPT ![t] = d]
           /\ orders[t] = None \/ Unpaid(orders[t])
           /\ Unpaid(d)
           /\ d.accessStatus = "ACTIVE"
           /\ d.accessExpiresAt = None
<1> USE DEF IInv, Safe
<1> DEFINE t == reqs[r].target
           d == upsertOrder(reqs[r])
<1>1. reqs[r] \in Request /\ t \in OrderIds /\ orders[t] = reqs[r].seen
  BY DEF TypeOK, CommitOrder, Request, NoWriteConflict
<1>2. d \in Order
  BY <1>1, UpsertOrderType
<1>3. CASE reqs[r].seen = None
  <2>1. /\ Unpaid(d)
        /\ d.accessStatus = "ACTIVE"
        /\ d.accessExpiresAt = None
    BY <1>3 DEF upsertOrder, newOrder, Unpaid
  <2> QED
    BY <1>1, <1>2, <1>3, <2>1 DEF CommitOrder
<1>4. CASE reqs[r].seen # None
  <2>1. reqs[r].seen.paymentStatus = "PENDING"
    BY <1>4 DEF InFlight, CommitOrder
  <2>2. reqs[r].seen \in Order
    BY <1>1, <1>4 DEF Request
  <2>3. Unpaid(orders[t])
    <3>1. ~ Assigned(t, orders[t]) /\ ~ PaidOrDeclined(orders[t])
      BY <1>1, <2>1 DEF Assigned, PaidOrDeclined
    <3> QED
      BY <1>1, <1>4, <3>1 DEF SettledByItsUser
  <2>4. /\ orders[t].accessStatus = "ACTIVE"
        /\ orders[t].accessExpiresAt = None
    BY <1>1, <1>4, <2>1, <2>2 DEF AccessWindow, Order, OrderAccessStatus
  <2>5. /\ Unpaid(d)
        /\ d.accessStatus = "ACTIVE"
        /\ d.accessExpiresAt = None
    BY <1>1, <1>4, <2>3, <2>4 DEF upsertOrder, Unpaid, Request, Order
  <2> QED
    BY <1>1, <1>2, <2>3, <2>5 DEF CommitOrder
<1> QED
  BY <1>3, <1>4

\* ... an assignment creates a completed order with a payment identifier of
\* its own, ...
LEMMA CommitAssignWrites ==
  ASSUME IInv, NEW r \in Requests, CommitAssign(r)
  PROVE  \E t \in OrderIds, d \in Order :
           /\ orders' = [orders EXCEPT ![t] = d]
           /\ orders[t] = None
           /\ Assigned(t, d)
           /\ d.paymentId \in PaymentIds
           /\ UniquePaymentId(t, d.paymentId)
           /\ d.accessStatus = "ACTIVE"
           /\ d.accessExpiresAt = None
<1> USE DEF IInv, Safe
<1> DEFINE t == reqs[r].target
           p == [kind |-> "assigned", of |-> t]
           d == newOrder(reqs[r], "COMPLETED", p)
<1>1. reqs[r] \in Request /\ t \in OrderIds /\ orders[t] = None
  BY DEF TypeOK, CommitAssign, Request
<1>2. p \in PaymentIds
  BY <1>1 DEF PaymentIds, AssignedId
<1>3. d \in Order
  BY <1>1, <1>2, NewOrderType DEF PaymentStatus
<1>4. /\ Assigned(t, d)
      /\ d.paymentId = p
      /\ d.accessStatus = "ACTIVE"
      /\ d.accessExpiresAt = None
  BY DEF newOrder, Assigned
<1>5. UniquePaymentId(t, p)
  <2> SUFFICES ASSUME NEW o \in OrderIds \ {t}, orders[o] # None,
                      orders[o].paymentId = p
               PROVE  FALSE
    BY DEF UniquePaymentId
  <2>1. ~ Unpaid(orders[o])
    BY <1>2, OrdersAssumption DEF Unpaid
  <2>2. ~ Assigned(o, orders[o])
    BY DEF Assigned
  <2>3. ~ PaidOrDeclined(orders[o])
    BY DEF PaidOrDeclined, TypeOK, Attempt
  <2> QED
    BY <2>1, <2>2, <2>3 DEF SettledByItsUser
<1> QED
  BY <1>1, <1>2, <1>3, <1>4, <1>5 DEF CommitAssign

\* ... and a callback settles a pending order of the payer with an attempt
\* that no other order carries.
LEMMA CommitCallbackWrites ==
  ASSUME IInv, NEW s \in Callbacks, CommitCallback(s)
  PROVE  \E t \in OrderIds, d \in Order :
           /\ orders' = [orders EXCEPT ![t] = d]
           /\ orders[t] # None
           /\ Unpaid(orders[t])
           /\ d.paymentId = cbs[s].pay
           /\ d.paymentId \in PaymentIds
           /\ PaidOrDeclined(d)
           /\ UniquePaymentId(t, d.paymentId)
           /\ d.accessStatus = "ACTIVE"
           /\ d.accessExpiresAt # None =>
                /\ d.paymentStatus = "COMPLETED"
                /\ d.accessExpiresAt = d.paymentDate + AccessDays
<1> USE DEF IInv, Safe
<1> DEFINE t == cbs[s].target
           a == cbs[s].pay
           status == IF Success(a) THEN "COMPLETED" ELSE "FAILED"
           d == updateOrderStatus(orders[t], status, a)
<1>1. /\ a \in attempts
      /\ a \in Attempt
      /\ t \in OrderIds
      /\ orders[t] \in Order
      /\ orders[t].paymentStatus = "PENDING"
      /\ orders[t].userId = Payer(a)
  BY DEF TypeOK, CommitCallback, InTx, Callback, NoWriteConflict, InFlight
<1>2. Unpaid(orders[t])
  <2>1. ~ Assigned(t, orders[t]) /\ ~ PaidOrDeclined(orders[t])
    BY <1>1 DEF Assigned, PaidOrDeclined
  <2> QED
    BY <1>1, <2>1, OrdersAssumption DEF SettledByItsUser
<1>3. /\ orders[t].accessStatus = "ACTIVE"
      /\ orders[t].accessExpiresAt = None
  BY <1>1, OrdersAssumption DEF AccessWindow, Order, OrderAccessStatus
<1>4. d \in Order
  BY <1>1, UpdateOrderStatusType DEF PaymentStatus, PaymentIds
<1>5. /\ d.paymentStatus = status
      /\ d.paymentId = a
      /\ d.userId = Payer(a)
      /\ d.accessStatus = "ACTIVE"
      /\ d.accessExpiresAt # None =>
           /\ status = "COMPLETED"
           /\ d.accessExpiresAt = d.paymentDate + AccessDays
  BY <1>1, <1>3 DEF updateOrderStatus, Order
<1>6. PaidOrDeclined(d)
  BY <1>1, <1>5 DEF PaidOrDeclined
<1>7. UniquePaymentId(t, d.paymentId)
  BY <1>5 DEF CommitCallback
<1>8. orders' = [orders EXCEPT ![t] = d]
  BY DEF CommitCallback
<1>9. a \in PaymentIds /\ orders[t] # None
  BY <1>1, OrdersAssumption DEF PaymentIds
<1> QED
  BY <1>1, <1>2, <1>4, <1>5, <1>6, <1>7, <1>8, <1>9

LEMMA CommitOrderSafe ==
  ASSUME IInv, NEW r \in Requests, NEW i \in Intents, CommitOrder(r, i)
  PROVE  Safe'
<1>1. PICK t \in OrderIds, d \in Order :
        /\ orders' = [orders EXCEPT ![t] = d]
        /\ orders[t] = None \/ Unpaid(orders[t])
        /\ Unpaid(d)
        /\ d.accessStatus = "ACTIVE"
        /\ d.accessExpiresAt = None
  BY CommitOrderWrites
<1>2. \A j \in Intents : intents[j] # None => intents'[j] = intents[j]
  BY DEF CommitOrder, IInv, TypeOK
<1> QED
  BY <1>1, <1>2, WriteOrder DEF CommitOrder, Unpaid

LEMMA CommitAssignSafe ==
  ASSUME IInv, NEW r \in Requests, CommitAssign(r)
  PROVE  Safe'
BY CommitAssignWrites, WriteOrder DEF CommitAssign

LEMMA CommitCallbackSafe ==
  ASSUME IInv, NEW s \in Callbacks, CommitCallback(s)
  PROVE  Safe'
<1>1. PICK t \in OrderIds, d \in Order :
        /\ orders' = [orders EXCEPT ![t] = d]
        /\ Unpaid(orders[t])
        /\ d.paymentId = cbs[s].pay
        /\ PaidOrDeclined(d)
        /\ UniquePaymentId(t, d.paymentId)
        /\ d.accessStatus = "ACTIVE"
        /\ d.accessExpiresAt # None =>
             /\ d.paymentStatus = "COMPLETED"
             /\ d.accessExpiresAt = d.paymentDate + AccessDays
  BY CommitCallbackWrites
<1>2. cbs[s].pay \in attempts /\ cbs[s].pay \in Attempt
  BY DEF IInv, InFlight, TypeOK, CommitCallback, InTx
<1>3. \A i \in acked' \ acked :
        /\ [kind |-> "captured", of |-> i] \in attempts
        /\ d.paymentStatus = "COMPLETED"
        /\ d.userId = intents[i].userId
  BY <1>1, <1>2 DEF CommitCallback, PaidOrDeclined, Success, Payer, Attempt
<1> QED
  BY <1>1, <1>3, WriteOrder DEF CommitCallback, Unpaid

\* Only attempts that were made are handled.
LEMMA TurnAttempt ==
  ASSUME IInv, NEW s \in Callbacks, NEW a \in Attempt,
         NEW n \in 0 .. MaxRetries, Turn(s, a, n)
  PROVE  a \in attempts
<1> DEFINE c == [stage |-> "delay", pay |-> a, retryCount |-> n]
<1>1. c \in Callback /\ c # None /\ c.pay = a
  BY OrdersAssumption DEF Callback
<1>2. CASE cbs[s] = c
  BY <1>1, <1>2 DEF IInv, InFlight
<1> QED
  BY <1>2 DEF Turn

\* Open transactions: a callback's snapshot shows a pending order of the
\* payer, a purchase's snapshot a pending order of the user and level.
LEMMA CallbackPostInFlight ==
  ASSUME IInv, NEW s \in Callbacks, NEW a \in Attempt,
         NEW n \in 0 .. MaxRetries, callbackPost(s, a, n)
  PROVE  InFlight'
<1> USE DEF IInv
<1>1. a \in attempts
  BY TurnAttempt
     DEF callbackPost, StartSettling, IgnoreDeclined, AnswerFromExisting,
         RetryNotFound
<1>2. UNCHANGED <<intents, attempts, reqs>>
  BY DEF callbackPost, StartSettling, IgnoreDeclined, AnswerFromExisting,
         RetryNotFound
<1>3. CASE StartSettling(s, a, n)
  <2>1. PICK o \in OrderIds :
          /\ orders[o].paymentStatus = "PENDING"
          /\ orders[o].userId = Payer(a)
          /\ cbs' = [cbs EXCEPT ![s] = [stage |-> "tx", pay |-> a,
                                        target |-> o, seen |-> orders[o]]]
    BY <1>3 DEF StartSettling, Target, findPendingByAmount,
                findMostRecentPendingOrder, OrdersOf
  <2> QED
    BY <1>1, <1>2, <2>1 DEF InFlight, Payer, TypeOK
<1>4. CASE cbs' = [cbs EXCEPT ![s] = None]
  BY <1>2, <1>4 DEF InFlight, Payer, TypeOK
<1>5. CASE cbs' = [cbs EXCEPT ![s] = [stage |-> "delay", pay |-> a,
                                      retryCount |-> NextRetryCount(n)]]
  BY <1>1, <1>2, <1>5 DEF InFlight, Payer, TypeOK
<1> QED
  BY <1>3, <1>4, <1>5
     DEF callbackPost, IgnoreDeclined, AnswerFromExisting, RetryNotFound

LEMMA RequestInFlight ==
  ASSUME IInv, NEW r \in Requests, NEW u \in Users, NEW l \in Levels,
         processOrder(r, u, l) \/ assignCourseToUser(r, u, l)
  PROVE  InFlight'
<1> USE DEF IInv
<1>1. UNCHANGED <<intents, attempts, cbs>>
  BY DEF processOrder, assignCourseToUser
<1>2. CASE processOrder(r, u, l)
  <2>1. PICK o \in OrderIds :
          /\ orders[o] # None =>
               /\ orders[o].paymentStatus = "PENDING"
               /\ orders[o].userId = u
               /\ orders[o].levelName = l
          /\ reqs' = [reqs EXCEPT ![r] =
                        [op |-> "order", userId |-> u, levelName |-> l,
                         amount |-> price[l], target |-> o, seen |-> orders[o]]]
    BY <1>2 DEF processOrder, findPendingOrder, OrdersOf, FreshIds
  <2> QED
    BY <1>1, <2>1 DEF InFlight, Payer, TypeOK
<1>3. CASE assignCourseToUser(r, u, l)
  BY <1>1, <1>3 DEF assignCourseToUser, InFlight, Payer, TypeOK
<1> QED
  BY <1>2, <1>3

\* Every other step ends transactions or adds to what the provider knows.
LEMMA OtherInFlight ==
  ASSUME IInv,
         \A s \in Callbacks : cbs'[s] \in {cbs[s], None},
         \A r \in Requests : reqs'[r] \in {reqs[r], None},
         attempts \subseteq attempts',
         \A a \in attempts' : intents'[a.of] # None,
         \A i \in Intents : intents[i] # None => intents'[i] = intents[i]
  PROVE  InFlight'
<1>1. \A a \in attempts : Payer(a)' = Payer(a)
  BY DEF IInv, InFlight, Payer, TypeOK, Attempt
<1> QED
  BY <1>1 DEF IInv, InFlight, TypeOK

LEMMA CronSafe ==
  ASSUME IInv, markExpiredOrders \/ deletePendingOrders
  PROVE  Safe'
<1> USE DEF IInv, Safe
<1>1. UNCHANGED <<intents, attempts, acked, now>>
  BY DEF markExpiredOrders, deletePendingOrders
<1>2. \A o \in OrderIds : orders'[o] # None =>
        /\ orders[o] # None
        /\ orders'[o].userId = orders[o].userId
        /\ orders'[o].paymentStatus = orders[o].paymentStatus
        /\ orders'[o].paymentId = orders[o].paymentId
        /\ orders'[o].paymentDate = orders[o].paymentDate
        /\ orders'[o].accessExpiresAt = orders[o].accessExpiresAt
        /\ \/ orders'[o].accessStatus = orders[o].accessStatus
           \/ orders[o].paymentStatus = "COMPLETED" /\ AccessRanOut(o)
  BY DEF markExpiredOrders, deletePendingOrders, TypeOK, Order
<1>3. \A o \in OrderIds :
        orders[o] # None /\ orders[o].paymentStatus = "COMPLETED" =>
          orders'[o] # None
  <2>1. CASE markExpiredOrders
    <3>1. \A o \in OrderIds : orders[o] # None =>
            [orders[o] EXCEPT !.accessStatus = "EXPIRED"] \in Order
      BY DEF TypeOK, Order, OrderAccessStatus
    <3> QED
      BY <2>1, <3>1, OrdersAssumption DEF markExpiredOrders
  <2>2. CASE deletePendingOrders
    BY <2>2 DEF deletePendingOrders, StalePending
  <2> QED
    BY <2>1, <2>2
<1>4. SettledByItsUser'
  BY <1>1, <1>2
     DEF SettledByItsUser, Unpaid, Assigned, PaidOrDeclined, Success, Payer
<1>5. OnePaymentOneOrder'
  BY <1>2 DEF OnePaymentOneOrder
<1>6. AcknowledgedUserOwns'
  <2> SUFFICES ASSUME NEW i \in acked
               PROVE  /\ [kind |-> "captured", of |-> i] \in attempts
                      /\ \E o \in OrderIds :
                           /\ orders'[o] # None
                           /\ orders'[o].paymentStatus = "COMPLETED"
                           /\ orders'[o].userId = intents[i].userId
    BY <1>1 DEF AcknowledgedUserOwns
  <2>1. PICK o \in OrderIds : /\ orders[o] # None
                              /\ orders[o].paymentStatus = "COMPLETED"
                              /\ orders[o].userId = intents[i].userId
    BY DEF AcknowledgedUserOwns
  <2>2. orders'[o] # None
    BY <1>3, <2>1
  <2> QED
    BY <1>2, <2>1, <2>2 DEF AcknowledgedUserOwns
<1>7. AccessWindow'
  BY <1>1, <1>2 DEF AccessWindow, AccessRanOut
<1> QED
  BY <1>4, <1>5, <1>6, <1>7

LEMMA AnswerSafe ==
  ASSUME IInv, NEW s \in Callbacks, NEW a \in Attempt,
         NEW n \in 0 .. MaxRetries, callbackPost(s, a, n)
  PROVE  Safe'
<1> USE DEF IInv, Safe
<1>1. UNCHANGED <<orders, intents, attempts, now>>
  BY DEF callbackPost, StartSettling, IgnoreDeclined, AnswerFromExisting,
         RetryNotFound
<1>2. CASE UNCHANGED acked
  BY <1>1, <1>2, Frame DEF TypeOK
<1>3. CASE AnswerFromExisting(s, a, n) /\ acked' # acked
  <2>1. a \in attempts /\ a.kind = "captured"
    BY <1>3, TurnAttempt DEF AnswerFromExisting, Success
  <2>2. a = [kind |-> "captured", of |-> a.of] /\ a.of \in Intents
    BY <2>1 DEF Attempt
  <2>3. PICK o \in OrderIds :
          /\ orders[o] # None
          /\ orders[o].userId = intents[a.of].userId
          /\ orders[o].paymentStatus = "COMPLETED"
          /\ acked' = acked \cup {a.of}
    BY <1>3 DEF AnswerFromExisting, findByAmount, AlreadyCompleted, Payer
  <2>4. AcknowledgedUserOwns'
    BY <1>1, <2>1, <2>2, <2>3 DEF AcknowledgedUserOwns
  <2> QED
    BY <1>1, <2>4
       DEF SettledByItsUser, Unpaid, Assigned, PaidOrDeclined, Success, Payer,
           OnePaymentOneOrder, AccessWindow
<1> QED
  BY <1>2, <1>3
     DEF callbackPost, StartSettling, IgnoreDeclined, AnswerFromExisting,
         RetryNotFound

LEMMA NextIInv == IInv /\ [Next]_vars => IInv'
<1> SUFFICES ASSUME IInv, [Next]_vars
             PROVE  InFlight' /\ Safe'
  BY NextTypeOK DEF IInv
<1> USE DEF IInv
<1>0. /\ now \in Nat
      /\ \A a \in attempts : a.of \in Intents /\ intents[a.of] # None
  BY DEF TypeOK, Attempt, InFlight
<1>1. ASSUME NEW r \in Requests, NEW u \in Users, NEW l \in Levels,
             processOrder(r, u, l) \/ assignCourseToUser(r, u, l)
      PROVE  InFlight' /\ Safe'
  BY <1>0, <1>1, RequestInFlight, Frame DEF processOrder, assignCourseToUser
<1>2. ASSUME NEW r \in Requests, NEW i \in Intents, CommitOrder(r, i)
      PROVE  InFlight' /\ Safe'
  <2>1. [userId |-> reqs[r].userId, levelName |-> reqs[r].levelName,
         amount |-> reqs[r].amount] \in Intention
    BY <1>2 DEF CommitOrder, TypeOK, Request, Intention
  <2>2. \A j \in Intents : /\ intents[j] # None => intents'[j] = intents[j]
                           /\ intents[j] # None => intents'[j] # None
    BY <1>2, <2>1, OrdersAssumption DEF CommitOrder, TypeOK
  <2>3. InFlight'
    BY <1>0, <1>2, <2>2, OtherInFlight DEF CommitOrder, TypeOK
  <2> QED
    BY <1>2, <2>3, CommitOrderSafe
<1>3. ASSUME NEW r \in Requests, CommitAssign(r)
      PROVE  InFlight' /\ Safe'
  BY <1>0, <1>3, OtherInFlight, CommitAssignSafe DEF CommitAssign, TypeOK
<1>4. ASSUME NEW r \in Requests, AbortRequest(r)
      PROVE  InFlight' /\ Safe'
  BY <1>0, <1>4, OtherInFlight, Frame DEF AbortRequest, TypeOK
<1>5. ASSUME NEW i \in Intents, Pay(i) \/ Decline(i)
      PROVE  InFlight' /\ Safe'
  BY <1>0, <1>5, OtherInFlight, Frame DEF Pay, Decline
<1>6. ASSUME NEW s \in Callbacks, NEW a \in Attempt, NEW n \in 0 .. MaxRetries,
             callbackPost(s, a, n)
      PROVE  InFlight' /\ Safe'
  BY <1>6, CallbackPostInFlight, AnswerSafe
<1>7. ASSUME NEW s \in Callbacks, CommitCallback(s)
      PROVE  InFlight' /\ Safe'
  BY <1>0, <1>7, OtherInFlight, CommitCallbackSafe DEF CommitCallback, TypeOK
<1>8. ASSUME NEW s \in Callbacks, AbortCallback(s) \/ LoseCallback(s)
      PROVE  InFlight' /\ Safe'
  BY <1>0, <1>8, OtherInFlight, Frame DEF AbortCallback, LoseCallback, TypeOK
<1>9. CASE markExpiredOrders \/ deletePendingOrders
  BY <1>0, <1>9, OtherInFlight, CronSafe DEF markExpiredOrders, deletePendingOrders
<1>10. CASE (\E l \in Levels, p \in Prices : updateCourse(l, p))
            \/ Tick \/ UNCHANGED vars
  BY <1>0, <1>10, OtherInFlight, Frame DEF updateCourse, Tick, vars
<1> QED
  BY <1>1, <1>2, <1>3, <1>4, <1>5, <1>6, <1>7, <1>8, <1>9, <1>10
     DEF Next, FinishRequest

\* What every open transaction relies on, and the safety properties, hold in
\* every reachable state.
THEOREM Invariant == Spec => []IInv
<1> QED
  BY InitIInv, NextIInv, PTL DEF Spec

\* What an open transaction relies on holds until it ends.
THEOREM TransactionsKeepTheirGround == Spec => []InFlight
<1>1. IInv => InFlight
  BY DEF IInv
<1> QED
  BY <1>1, Invariant, PTL

\* A transaction of the provider settles at most one order.
THEOREM PaymentSettlesOneOrder == Spec => []OnePaymentOneOrder
<1>1. IInv => OnePaymentOneOrder
  BY DEF IInv, Safe
<1> QED
  BY <1>1, Invariant, PTL

\* Orders are completed or failed by payments of their own users only.
THEOREM OrdersSettledByTheirUsers == Spec => []SettledByItsUser
<1>1. IInv => SettledByItsUser
  BY DEF IInv, Safe
<1> QED
  BY <1>1, Invariant, PTL

\* A customer whose payment was acknowledged owns a completed order.
THEOREM AcknowledgedCustomersOwn == Spec => []AcknowledgedUserOwns
<1>1. IInv => AcknowledgedUserOwns
  BY DEF IInv, Safe
<1> QED
  BY <1>1, Invariant, PTL

\* Access ends with the window of the payment, never before.
THEOREM AccessEndsWithItsWindow == Spec => []AccessWindow
<1>1. IInv => AccessWindow
  BY DEF IInv, Safe
<1> QED
  BY <1>1, Invariant, PTL

-----------------------------------------------------------------------------
(* The readers of LevelAccess compute the end of access anew from what the *)
(* payment stored: they agree with it because of AccessWindow.             *)

LEMMA DaysLeft ==
  ASSUME TypeOK, NEW o \in OrderIds, orders[o] # None
  PROVE  /\ isExpired(o) <=> orders[o].paymentDate + AccessDays <= now
         /\ expiresAt(o) = orders[o].paymentDate + AccessDays
<1>1. orders[o].paymentDate \in Nat /\ AccessDays \in Nat /\ now \in Nat
  BY OrdersAssumption DEF TypeOK, Order
<1> QED
  BY <1>1 DEF isExpired, daysLeft, daysElapsed, expiresAt

\* Whatever the handlers and jobs do, what the pages and the speech results
\* conclude about access agrees with the order's own record.
THEOREM ReadersAgreeOnAccess == Spec => []AccessViewsAgree
<1>1. ASSUME IInv PROVE AccessViewsAgree
  <2>1. TypeOK /\ AccessWindow
    BY <1>1 DEF IInv, Safe
  <2>2. ASSUME NEW u \in Users, NEW l \in Levels,
               NEW o \in findMostRecentOrder(u, l) \cup latestByLevel(u, l)
        PROVE  /\ orders[o].accessStatus = "EXPIRED" => ~ LetsIn(o)
               /\ orders[o].accessExpiresAt # None =>
                    orders[o].accessExpiresAt = expiresAt(o)
    <3>1. o \in OrderIds /\ orders[o] # None
      BY DEF findMostRecentOrder, latestByLevel, findUserCompletedOrders, OrdersOf
    <3> QED
      BY <2>1, <3>1, DaysLeft DEF AccessWindow, LetsIn
  <2>3. ASSUME NEW u \in Users, NEW details \in getLevelAccessDetails(u),
               details.isExpired,
               NEW p \in findActiveCompletedOrder(u, details.levelName)
        PROVE  orders[p].paymentDate + AccessDays <= now
    <3>1. PICK l \in Levels : \E o \in latestByLevel(u, l) :
            details = [levelName |-> l, expiresAt |-> expiresAt(o),
                       isExpired |-> isExpired(o)]
      BY DEF getLevelAccessDetails
    <3>2. PICK o \in latestByLevel(u, l) : details.levelName = l /\ isExpired(o)
      BY <2>3, <3>1
    <3>3. /\ o \in OrderIds /\ orders[o] # None
          /\ p \in OrderIds /\ orders[p] # None
          /\ orders[p].paymentDate <= orders[o].paymentDate
      BY <3>2 DEF latestByLevel, findUserCompletedOrders, OrdersOf,
         findActiveCompletedOrder
    <3>4. orders[o].paymentDate + AccessDays <= now
      BY <2>1, <3>2, <3>3, DaysLeft
    <3>5. /\ orders[o].paymentDate \in Nat /\ orders[p].paymentDate \in Nat
          /\ AccessDays \in Nat /\ now \in Nat
      BY <2>1, <3>3, OrdersAssumption DEF TypeOK, Order
    <3> QED
      BY <3>3, <3>4, <3>5
  <2> QED
    BY <2>2, <2>3 DEF AccessViewsAgree
<1> QED
  BY <1>1, Invariant, PTL

-----------------------------------------------------------------------------
(* Steps: settled orders stay settled, and every step is one of the ledger. *)

LEMMA CronWrites ==
  ASSUME IInv, markExpiredOrders \/ deletePendingOrders, NEW o \in OrderIds,
         orders[o] # None, orders[o].paymentStatus # "PENDING"
  PROVE  orders'[o] \in {orders[o], [orders[o] EXCEPT !.accessStatus = "EXPIRED"]}
BY DEF markExpiredOrders, deletePendingOrders, StalePending

\* The steps that write orders.
LEMMA Writers ==
  ASSUME [Next]_vars, orders' # orders
  PROVE  \/ \E r \in Requests : (\E i \in Intents : CommitOrder(r, i)) \/ CommitAssign(r)
         \/ \E s \in Callbacks : CommitCallback(s)
         \/ markExpiredOrders \/ deletePendingOrders
BY DEF Next, FinishRequest, processOrder, assignCourseToUser, AbortRequest,
       Pay, Decline, callbackPost, StartSettling, IgnoreDeclined,
       AnswerFromExisting, RetryNotFound, AbortCallback, LoseCallback,
       updateCourse, Tick, vars

\* A step leaves a settled order as it is, or its access runs out.
LEMMA SettledKept ==
  ASSUME IInv, [Next]_vars, NEW o \in OrderIds,
         orders[o] # None, orders[o].paymentStatus # "PENDING"
  PROVE  /\ orders'[o] # None
         /\ orders'[o] \in {orders[o], [orders[o] EXCEPT !.accessStatus = "EXPIRED"]}
<1>1. [orders[o] EXCEPT !.accessStatus = "EXPIRED"] # None
  <2>1. [orders[o] EXCEPT !.accessStatus = "EXPIRED"] \in Order
    BY DEF IInv, TypeOK, Order, OrderAccessStatus
  <2> QED
    BY <2>1, OrdersAssumption
<1>2. ASSUME NEW r \in Requests, NEW i \in Intents, CommitOrder(r, i)
      PROVE  orders'[o] = orders[o]
  BY <1>2, CommitOrderWrites DEF IInv, TypeOK, Unpaid
<1>3. ASSUME NEW r \in Requests, CommitAssign(r)
      PROVE  orders'[o] = orders[o]
  BY <1>3, CommitAssignWrites DEF IInv, TypeOK
<1>4. ASSUME NEW s \in Callbacks, CommitCallback(s)
      PROVE  orders'[o] = orders[o]
  BY <1>4, CommitCallbackWrites DEF IInv, TypeOK, Unpaid
<1> QED
  BY <1>1, <1>2, <1>3, <1>4, Writers, CronWrites

\* No step resettles, moves or deletes a settled order.
THEOREM SettledOrdersAreFinal == Spec => SettledIsFinal
<1>1. IInv /\ [Next]_vars =>
        [\A o \in OrderIds :
           /\ orders[o] # None
           /\ orders[o].paymentStatus # "PENDING"
           => /\ orders'[o] # None
              /\ \/ orders'[o] = orders[o]
                 \/ orders'[o] = [orders[o] EXCEPT !.accessStatus = "EXPIRED"]]_orders
  BY SettledKept
<1> QED
  BY <1>1, Invariant, PTL DEF Spec, SettledIsFinal

-----------------------------------------------------------------------------
(* Orders implements PaymentLedger: a commit is the ledger's operation on   *)
(* the order it writes, every other step of a handler is a stutter.        *)

\* Writing document d over an absent or pending order, in the ledger's terms.
LEMMA LedgerWrite ==
  ASSUME IInv, NEW t \in OrderIds, NEW d \in Order,
         orders' = [orders EXCEPT ![t] = d],
         orders[t] = None \/ Unpaid(orders[t]),
         d.accessStatus = "ACTIVE"
  PROVE  /\ statusBar' = [statusBar EXCEPT ![t] = d.paymentStatus]
         /\ paidByBar' = [paidByBar EXCEPT ![t] = d.paymentId]
         /\ accessBar' = accessBar
         /\ orders[t] = None => statusBar[t] = "ABSENT"
         /\ orders[t] # None => statusBar[t] = "PENDING"
         /\ paidByBar[t] = None
<1>1. d # None /\ orders'[t] = d /\ \A o \in OrderIds \ {t} : orders'[o] = orders[o]
  BY OrdersAssumption DEF IInv, TypeOK
<1>2. orders[t] # None => orders[t].accessStatus = "ACTIVE"
  BY DEF Unpaid, IInv, Safe, AccessWindow, TypeOK, Order, OrderAccessStatus
<1>3. statusBar' = [statusBar EXCEPT ![t] = d.paymentStatus]
  <2>1. \A o \in OrderIds : statusBar'[o] = IF o = t THEN d.paymentStatus ELSE statusBar[o]
    BY <1>1 DEF statusBar
  <2> QED
    BY <2>1 DEF statusBar
<1>4. paidByBar' = [paidByBar EXCEPT ![t] = d.paymentId]
  <2>1. \A o \in OrderIds : paidByBar'[o] = IF o = t THEN d.paymentId ELSE paidByBar[o]
    BY <1>1 DEF paidByBar
  <2> QED
    BY <2>1 DEF paidByBar
<1>5. accessBar' = accessBar
  BY <1>1, <1>2 DEF accessBar
<1> QED
  BY <1>3, <1>4, <1>5 DEF statusBar, paidByBar, Unpaid

\* The unique index of the collection is what the ledger calls unspent.
LEMMA UniqueIsUnspent ==
  ASSUME NEW t \in OrderIds, NEW p, p # None, paidByBar[t] = None,
         UniquePaymentId(t, p)
  PROVE  Ledger!Unspent(p)
BY DEF UniquePaymentId, Ledger!Unspent, paidByBar

LEMMA InitLedger == Init => Ledger!Init
BY DEF Init, Ledger!Init, statusBar, paidByBar, accessBar

\* A purchase opens an order of the ledger, or refreshes an open one.
LEMMA CommitOrderLedger ==
  ASSUME IInv, NEW r \in Requests, NEW i \in Intents, CommitOrder(r, i)
  PROVE  [Ledger!Next]_(Ledger!ledgerVars)
<1>1. PICK t \in OrderIds, d \in Order :
        /\ orders' = [orders EXCEPT ![t] = d]
        /\ orders[t] = None \/ Unpaid(orders[t])
        /\ Unpaid(d)
        /\ d.accessStatus = "ACTIVE"
  BY CommitOrderWrites
<1>2. /\ statusBar' = [statusBar EXCEPT ![t] = "PENDING"]
      /\ paidByBar' = [paidByBar EXCEPT ![t] = None]
      /\ accessBar' = accessBar
      /\ orders[t] = None => statusBar[t] = "ABSENT"
      /\ orders[t] # None => statusBar[t] = "PENDING"
      /\ paidByBar[t] = None
  <2>1. d.paymentStatus = "PENDING" /\ d.paymentId = None
    BY <1>1 DEF Unpaid
  <2>2. /\ statusBar' = [statusBar EXCEPT ![t] = d.paymentStatus]
        /\ paidByBar' = [paidByBar EXCEPT ![t] = d.paymentId]
        /\ accessBar' = accessBar
        /\ orders[t] = None => statusBar[t] = "ABSENT"
        /\ orders[t] # None => statusBar[t] = "PENDING"
        /\ paidByBar[t] = None
    BY <1>1, LedgerWrite
  <2> QED
    BY <2>1, <2>2
<1>3. paidByBar' = paidByBar
  BY <1>2 DEF paidByBar
<1>4. CASE orders[t] = None
  BY <1>2, <1>3, <1>4 DEF Ledger!Open, Ledger!Next
<1>5. CASE orders[t] # None
  <2>1. statusBar' = statusBar
    BY <1>2, <1>5 DEF statusBar
  <2> QED
    BY <1>2, <1>3, <2>1 DEF Ledger!ledgerVars
<1> QED
  BY <1>4, <1>5

\* A manual assignment is a grant.
LEMMA CommitAssignLedger ==
  ASSUME IInv, NEW r \in Requests, CommitAssign(r)
  PROVE  Ledger!Next
<1>1. PICK t \in OrderIds, d \in Order :
        /\ orders' = [orders EXCEPT ![t] = d]
        /\ orders[t] = None
        /\ Assigned(t, d)
        /\ d.paymentId \in PaymentIds
        /\ UniquePaymentId(t, d.paymentId)
        /\ d.accessStatus = "ACTIVE"
  BY CommitAssignWrites
<1>2. /\ statusBar' = [statusBar EXCEPT ![t] = "COMPLETED"]
      /\ paidByBar' = [paidByBar EXCEPT ![t] = d.paymentId]
      /\ accessBar' = accessBar
      /\ statusBar[t] = "ABSENT"
      /\ paidByBar[t] = None
  <2>1. d.paymentStatus = "COMPLETED"
    BY <1>1 DEF Assigned
  <2>2. /\ statusBar' = [statusBar EXCEPT ![t] = d.paymentStatus]
        /\ paidByBar' = [paidByBar EXCEPT ![t] = d.paymentId]
        /\ accessBar' = accessBar
        /\ orders[t] = None => statusBar[t] = "ABSENT"
        /\ orders[t] # None => statusBar[t] = "PENDING"
        /\ paidByBar[t] = None
    BY <1>1, LedgerWrite
  <2> QED
    BY <1>1, <2>1, <2>2
<1>3. Ledger!Unspent(d.paymentId)
  <2>1. d.paymentId # None
    BY <1>1, OrdersAssumption
  <2> QED
    BY <1>1, <1>2, <2>1, UniqueIsUnspent
<1>4. Ledger!Grant(t, d.paymentId)
  BY <1>2, <1>3 DEF Ledger!Grant
<1> QED
  BY <1>1, <1>4 DEF Ledger!Next

\* A callback settles.
LEMMA CommitCallbackLedger ==
  ASSUME IInv, NEW s \in Callbacks, CommitCallback(s)
  PROVE  Ledger!Next
<1>1. PICK t \in OrderIds, d \in Order :
        /\ orders' = [orders EXCEPT ![t] = d]
        /\ orders[t] # None
        /\ Unpaid(orders[t])
        /\ d.paymentId \in PaymentIds
        /\ PaidOrDeclined(d)
        /\ UniquePaymentId(t, d.paymentId)
        /\ d.accessStatus = "ACTIVE"
  BY CommitCallbackWrites
<1>2. /\ statusBar' = [statusBar EXCEPT ![t] = d.paymentStatus]
      /\ paidByBar' = [paidByBar EXCEPT ![t] = d.paymentId]
      /\ accessBar' = accessBar
      /\ statusBar[t] = "PENDING"
      /\ paidByBar[t] = None
  BY <1>1, LedgerWrite
<1>3. Ledger!Unspent(d.paymentId)
  <2>1. d.paymentId # None
    BY <1>1, OrdersAssumption
  <2> QED
    BY <1>1, <1>2, <2>1, UniqueIsUnspent
<1>4. d.paymentStatus \in Ledger!Settled
  BY <1>1 DEF PaidOrDeclined, Ledger!Settled
<1>5. Ledger!Settle(t, d.paymentId, d.paymentStatus)
  BY <1>2, <1>3 DEF Ledger!Settle
<1> QED
  BY <1>1, <1>4, <1>5 DEF Ledger!Next

\* The daily job expires completed orders, ...
LEMMA MarkExpiredLedger ==
  ASSUME IInv, markExpiredOrders
  PROVE  Ledger!Next
<1> DEFINE S == {o \in OrderIds : /\ orders[o] # None
                                  /\ orders[o].paymentStatus = "COMPLETED"
                                  /\ AccessRanOut(o)}
<1>1. \A o \in S :
        /\ orders'[o] # None
        /\ orders'[o].accessStatus = "EXPIRED"
        /\ orders'[o].paymentStatus = orders[o].paymentStatus
        /\ orders'[o].paymentId = orders[o].paymentId
  <2> SUFFICES ASSUME NEW o \in OrderIds, o \in S
               PROVE  /\ orders'[o] # None
                      /\ orders'[o].accessStatus = "EXPIRED"
                      /\ orders'[o].paymentStatus = orders[o].paymentStatus
                      /\ orders'[o].paymentId = orders[o].paymentId
    OBVIOUS
  <2>1. orders[o] \in Order
    BY DEF IInv, TypeOK
  <2>2. orders'[o] = [orders[o] EXCEPT !.accessStatus = "EXPIRED"]
    BY DEF markExpiredOrders
  <2>3. orders'[o] \in Order
    BY <2>1, <2>2 DEF Order, OrderAccessStatus
  <2> QED
    BY <2>1, <2>2, <2>3, OrdersAssumption DEF Order
<1>2. \A o \in OrderIds \ S : orders'[o] = orders[o]
  BY DEF markExpiredOrders
<1>3. statusBar' = statusBar
  BY <1>1, <1>2 DEF statusBar
<1>4. paidByBar' = paidByBar
  BY <1>1, <1>2 DEF paidByBar
<1>5. accessBar' = [o \in OrderIds |-> IF o \in S THEN "EXPIRED" ELSE accessBar[o]]
  BY <1>1, <1>2 DEF accessBar
<1>6. \A o \in S : statusBar[o] = "COMPLETED"
  BY DEF statusBar
<1>7. Ledger!Expire(S)
  BY <1>3, <1>4, <1>5, <1>6 DEF Ledger!Expire
<1>8. S \in SUBSET OrderIds
  OBVIOUS
<1> QED
  BY <1>7, <1>8 DEF Ledger!Next

\* ... the weekly job drops pending ones.
LEMMA DeletePendingLedger ==
  ASSUME IInv, deletePendingOrders
  PROVE  Ledger!Next
<1> DEFINE S == {o \in OrderIds : StalePending(o)}
<1>1. \A o \in OrderIds : orders'[o] = IF o \in S THEN None ELSE orders[o]
  BY DEF deletePendingOrders
<1>2. \A o \in S : /\ orders[o] # None
                   /\ orders[o].paymentStatus = "PENDING"
                   /\ orders[o].paymentId = None
                   /\ orders[o].accessStatus = "ACTIVE"
  BY DEF StalePending, IInv, Safe, SettledByItsUser, Unpaid, Assigned,
         PaidOrDeclined, AccessWindow, TypeOK, Order, OrderAccessStatus
<1>3. statusBar' = [o \in OrderIds |-> IF o \in S THEN "ABSENT" ELSE statusBar[o]]
  BY <1>1 DEF statusBar
<1>4. paidByBar' = paidByBar
  BY <1>1, <1>2 DEF paidByBar
<1>5. accessBar' = accessBar
  BY <1>1, <1>2 DEF accessBar
<1>6. \A o \in S : statusBar[o] = "PENDING"
  BY <1>2 DEF statusBar
<1>7. Ledger!Drop(S)
  BY <1>3, <1>4, <1>5, <1>6 DEF Ledger!Drop
<1>8. S \in SUBSET OrderIds
  OBVIOUS
<1> QED
  BY <1>7, <1>8 DEF Ledger!Next

LEMMA StepLedger == IInv /\ [Next]_vars => [Ledger!Next]_(Ledger!ledgerVars)
<1> SUFFICES ASSUME IInv, [Next]_vars
             PROVE  [Ledger!Next]_(Ledger!ledgerVars)
  OBVIOUS
<1>1. CASE UNCHANGED orders
  BY <1>1 DEF Ledger!ledgerVars, statusBar, paidByBar, accessBar
<1>2. CASE orders' # orders
  BY <1>2, Writers, CommitOrderLedger, CommitAssignLedger, CommitCallbackLedger,
     MarkExpiredLedger, DeletePendingLedger
<1> QED
  BY <1>1, <1>2

\* The handlers and jobs, with their transactions and interleavings,
\* implement the payment ledger.
THEOREM OrdersImplementLedger == Spec => ImplementsLedger
<1> QED
  BY InitLedger, StepLedger, Invariant, PTL DEF Spec, ImplementsLedger, Ledger!Spec

=============================================================================

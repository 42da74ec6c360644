------------------------------ MODULE LevelAccess ------------------------------
(***************************************************************************)
(* What readers of the orders collection conclude about a user's access to *)
(* a level: LevelAccessService, for speech results, the user's own page    *)
(* and the inactivity job's mails.  They compute the end of access anew;   *)
(* purchase and assignment look at the status the daily job keeps (see     *)
(* findActiveCompletedOrder).                                              *)
(***************************************************************************)
EXTENDS Orders

\* A slip, for comparison: the window of the order, not of the payment.
SinceCreation(o) == now - orders[o].createdAt

daysElapsed(o) == now - orders[o].paymentDate

\* calculateAccessInfo of order o.
daysLeft(o)  == IF daysElapsed(o) >= AccessDays THEN 0 ELSE AccessDays - daysElapsed(o)
isExpired(o) == daysLeft(o) <= 0
expiresAt(o) == orders[o].paymentDate + AccessDays

\* The order of a user and level that was created last, whatever its status.
\* Orders created on the same day sort in some order.
findMostRecentOrder(u, l) ==
  LET of == {o \in OrderIds : /\ orders[o] # None
                              /\ orders[o].userId = u
                              /\ orders[o].levelName = l}
  IN  {o \in of : \A p \in of : orders[p].createdAt <= orders[o].createdAt}

findUserCompletedOrders(u) == OrdersOf(u, "COMPLETED")

\* getAllAccessInfo: of every level the completed order that was paid last.
latestByLevel(u, l) ==
  LET of == {o \in findUserCompletedOrders(u) : orders[o].levelName = l}
  IN  {o \in of : \A p \in of : orders[p].paymentDate <= orders[o].paymentDate}

\* The end of access to every bought level, as the user's own page lists it.
getLevelAccessDetails(u) ==
  UNION {{[levelName |-> l, expiresAt |-> expiresAt(o), isExpired |-> isExpired(o)] :
            o \in latestByLevel(u, l)} : l \in Levels}

\* getLatestAccessInfo as POST speak/compare-transcript uses it: does order
\* o let its user in?
LetsIn(o) == ~ isExpired(o)

\* The readers agree with what the payment and the daily job wrote: an order
\* the job closed lets nobody in, the end they show is the one the payment
\* stored, and when a user's page says that a level is over, no order of it
\* is still in its window, as the next purchase will see it
\* (calculateAccessInfo, getAllAccessInfo, updateOrderStatus,
\* markExpiredOrdersCutoff).
AccessViewsAgree ==
  \A u \in Users, l \in Levels :
    /\ \A o \in findMostRecentOrder(u, l) \cup latestByLevel(u, l) :
         /\ orders[o].accessStatus = "EXPIRED" => ~ LetsIn(o)
         /\ orders[o].accessExpiresAt # None => orders[o].accessExpiresAt = expiresAt(o)
    /\ \A details \in getLevelAccessDetails(u) : details.isExpired =>
         \A o \in findActiveCompletedOrder(u, details.levelName) :
           orders[o].paymentDate + AccessDays <= now

=============================================================================

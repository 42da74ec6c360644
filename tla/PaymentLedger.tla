---------------------------- MODULE PaymentLedger ----------------------------
(***************************************************************************)
(* What the order book of Englishom promises, with no request, callback,   *)
(* transaction or cron in sight.  An order is opened by a purchase, then   *)
(* settled once by one notification of the payment provider, or dropped    *)
(* while nobody has paid for it; an administrator may grant an order that  *)
(* is paid outside the provider.  The access a completed order gives only  *)
(* ever runs out.  A payment identifier settles at most one order.         *)
(*                                                                         *)
(* Module Orders is shown to implement this specification.                 *)
(***************************************************************************)

CONSTANTS OrderIds,     \* the identifiers of order documents
          PaymentIds,   \* everything that can end up in Order.paymentId
          None          \* "no payment yet"

VARIABLES status,       \* [OrderIds -> Status]
          paidBy,       \* [OrderIds -> PaymentIds \cup {None}]
          access        \* [OrderIds -> Access]

ledgerVars == <<status, paidBy, access>>

Settled == {"COMPLETED", "FAILED"}
Status  == {"ABSENT", "PENDING"} \cup Settled
Access  == {"ACTIVE", "EXPIRED"}

LedgerTypeOK ==
  /\ status \in [OrderIds -> Status]
  /\ paidBy \in [OrderIds -> PaymentIds \cup {None}]
  /\ access \in [OrderIds -> Access]

Init ==
  /\ status = [o \in OrderIds |-> "ABSENT"]
  /\ paidBy = [o \in OrderIds |-> None]
  /\ access = [o \in OrderIds |-> "ACTIVE"]

\* A payment identifier that no order carries.
Unspent(p) == \A o \in OrderIds : paidBy[o] # p

\* A purchase opens an order that waits for its payment.
Open(o) ==
  /\ status[o] = "ABSENT"
  /\ status' = [status EXCEPT ![o] = "PENDING"]
  /\ UNCHANGED <<paidBy, access>>

\* Abandoned purchases are forgotten; nothing else ever is.
Drop(S) ==
  /\ \A o \in S : status[o] = "PENDING"
  /\ status' = [o \in OrderIds |-> IF o \in S THEN "ABSENT" ELSE status[o]]
  /\ UNCHANGED <<paidBy, access>>

\* The provider's verdict on a pending order, recorded with its payment.
Settle(o, p, verdict) ==
  /\ status[o] = "PENDING"
  /\ Unspent(p)
  /\ status' = [status EXCEPT ![o] = verdict]
  /\ paidBy' = [paidBy EXCEPT ![o] = p]
  /\ UNCHANGED access

\* An administrator gives a level away.
Grant(o, p) ==
  /\ status[o] = "ABSENT"
  /\ Unspent(p)
  /\ status' = [status EXCEPT ![o] = "COMPLETED"]
  /\ paidBy' = [paidBy EXCEPT ![o] = p]
  /\ UNCHANGED access

\* Access windows run out.
Expire(S) ==
  /\ \A o \in S : status[o] = "COMPLETED"
  /\ access' = [o \in OrderIds |-> IF o \in S THEN "EXPIRED" ELSE access[o]]
  /\ UNCHANGED <<status, paidBy>>

Next ==
  \/ \E o \in OrderIds : Open(o)
  \/ \E S \in SUBSET OrderIds : Drop(S) \/ Expire(S)
  \/ \E o \in OrderIds, p \in PaymentIds, v \in Settled : Settle(o, p, v)
  \/ \E o \in OrderIds, p \in PaymentIds : Grant(o, p)

Spec == Init /\ [][Next]_ledgerVars

=============================================================================

------------------------- MODULE UserAccountsProofs --------------------------
(***************************************************************************)
(* Proofs about UserAccounts, for all addresses, processes and bounds.     *)
(***************************************************************************)
EXTENDS UserAccounts, TLAPS

\* Calls that are made for an account which the request has found or created.
ForAnAccount == {"touch", "session", "deleteOtp", "createOtp", "mail"}

\* The two calls that verifyOtp makes at the same time.
Verifying == {"verifyUser", "deleteUsedOtp"}

\* What a request relies on: it has the account its calls are for, it has
\* seen no session if it is to create one, a verification makes no other
\* calls, and the session it has seen is not newer than the account's.
RequestSound(r) ==
  /\ r.calls \cap ForAnAccount # {} => r.id # None
  /\ "create" \in r.calls => r.session = NoSession
  /\ "verifyUser" \in r.calls => r.calls \subseteq Verifying
  /\ r.id # None => r.id <= created
  /\ (r.id # None /\ users[r.id] # None) => r.session <= users[r.id].activeSessionId

RequestsSound == \A p \in Processes : requests[p] # None => RequestSound(requests[p])

\* Accounts are numbered up to created, and their sessions were drawn.
AccountsSound ==
  \A u \in Ids : users[u] # None =>
    u <= created /\ users[u].activeSessionId <= sessions

\* No token waits for an account that is still to be created.
TokensNumbered == \A t \in tokens : t.sub <= created

IInv ==
  /\ TypeOK
  /\ RequestsSound
  /\ AccountsSound
  /\ TokensNumbered
  /\ TokensWereCurrent

-----------------------------------------------------------------------------
(* Types.                                                                  *)

\* A running request is a record with the fields of one.
LEMMA RunningRequest ==
  ASSUME TypeOK, NEW p \in Processes, requests[p] # None
  PROVE  /\ requests[p] \in Request
         /\ requests[p].email \in Emails
         /\ requests[p].cause \in OtpCause
         /\ requests[p].id \in Ids \cup {None}
         /\ requests[p].session \in Nat
         /\ requests[p].otp \in Nat
         /\ requests[p].calls \subseteq Calls
BY DEF TypeOK, Request

LEMMA FinishType ==
  ASSUME TypeOK, NEW p \in Processes
  PROVE  Finish(p) \in [Processes -> Request \cup {None}]
BY DEF TypeOK, Finish

LEMMA ThenType ==
  ASSUME TypeOK, NEW p \in Processes, requests[p] # None, NEW call \in Calls
  PROVE  Then(p, call) \in [Processes -> Request \cup {None}]
<1>1. [requests[p] EXCEPT !.calls = {call}] \in Request
  BY RunningRequest DEF Request
<1> QED
  BY <1>1 DEF TypeOK, Then

\* A call that returns beside another one.
LEMMA DoneType ==
  ASSUME TypeOK, NEW p \in Processes, requests[p] # None, NEW call
  PROVE  Done(requests[p], call) \in Request
<1>1. requests[p] \in Request /\ requests[p].calls \subseteq Calls
  BY RunningRequest
<1>2. (IF requests[p].calls = {call} THEN {"sign"} ELSE requests[p].calls \ {call})
        \in SUBSET Calls
  BY <1>1 DEF Calls
<1> QED
  BY <1>1, <1>2 DEF Done, Request

LEMMA StartTypeOK ==
  ASSUME TypeOK, NEW p \in Processes, NEW e \in Emails,
         NEW op \in {"signup", "login", "oauth", "verifyOtp", "resendOtp"},
         NEW cause \in OtpCause, NEW found \in Ids \cup {None},
         found # None => users[found] # None,
         NEW otp \in Nat, NEW call \in Calls, Start(p, op, e, cause, found, otp, call)
  PROVE  TypeOK'
<1> DEFINE seen == IF found = None THEN NoSession ELSE users[found].activeSessionId
<1>1. seen \in Nat
  <2>1. CASE found = None
    BY <2>1 DEF NoSession
  <2>2. CASE found # None
    <3>1. users[found] \in User
      BY <2>2 DEF TypeOK
    <3> QED
      BY <2>2, <3>1 DEF User
  <2> QED
    BY <2>1, <2>2
<1> HIDE DEF seen
<1>2. [op |-> op, email |-> e, cause |-> cause, id |-> found, session |-> seen,
       otp |-> otp, calls |-> {call}] \in Request
  BY <1>1 DEF Request
<1>3. requests' \in [Processes -> Request \cup {None}]
  BY <1>2 DEF Start, TypeOK, seen
<1> QED
  BY <1>3 DEF Start, TypeOK

LEMMA NewRequestTypeOK ==
  ASSUME TypeOK, NEW p \in Processes, NewRequest(p)
  PROVE  TypeOK'
<1>1. PICK e \in Emails :
        \/ signup(p, e)
        \/ login(p, e)
        \/ findOrCreateOAuthUser(p, e)
        \/ \E cause \in OtpCause : resendOtp(p, e, cause)
        \/ \E cause \in OtpCause, o \in mailed : verifyOtp(p, e, cause, o.otp)
  BY DEF NewRequest
<1> USE DEF WithEmail, Calls, OtpCause
<1>2. CASE signup(p, e)
  BY <1>2, StartTypeOK DEF signup
<1>3. CASE login(p, e)
  <2>1. PICK u \in WithEmail(e) :
          Start(p, "login", e, "email_verification", u, 0, "session")
    BY <1>3 DEF login
  <2> QED
    BY <2>1, StartTypeOK
<1>4. CASE findOrCreateOAuthUser(p, e)
  <2>1. CASE Start(p, "oauth", e, "email_verification", None, 0, "create")
    BY <2>1, StartTypeOK
  <2>2. ASSUME NEW u \in WithEmail(e),
               Start(p, "oauth", e, "email_verification", u, 0, "touch")
        PROVE  TypeOK'
    BY <2>2, StartTypeOK
  <2> QED
    BY <1>4, <2>1, <2>2 DEF findOrCreateOAuthUser
<1>5. ASSUME NEW cause \in OtpCause, resendOtp(p, e, cause)
      PROVE  TypeOK'
  <2>1. PICK u \in WithEmail(e) : Start(p, "resendOtp", e, cause, u, 0, "deleteOtp")
    BY <1>5 DEF resendOtp
  <2> QED
    BY <2>1, StartTypeOK
<1>6. ASSUME NEW cause \in OtpCause, NEW o \in mailed, verifyOtp(p, e, cause, o.otp)
      PROVE  TypeOK'
  <2>1. o.otp \in Nat
    BY DEF TypeOK, Otp
  <2>2. PICK u \in WithEmail(e) : Start(p, "verifyOtp", e, cause, u, o.otp, "findOtp")
    BY <1>6 DEF verifyOtp
  <2> QED
    BY <2>1, <2>2, StartTypeOK
<1> QED
  BY <1>1, <1>2, <1>3, <1>4, <1>5, <1>6

\* The calls of sign-up, login and of sending a one-time password.
LEMMA LoginCallTypeOK ==
  ASSUME TypeOK, RequestsSound, NEW p \in Processes,
         \/ createUser(p)
         \/ touchOAuthUser(p)
         \/ createSessionAndGenerateToken(p)
  PROVE  TypeOK'
<1> USE DEF Calling
<1>1. CASE createUser(p)
  <2> DEFINE n == created + 1
             d == [email |-> requests[p].email,
                   strategy |-> IF requests[p].op = "oauth" THEN "oauth" ELSE "local",
                   isVerified |-> requests[p].op = "oauth",
                   status |-> "ACTIVE", activeSessionId |-> NoSession]
             q == [requests[p] EXCEPT !.id = n,
                     !.calls = {IF requests[p].op = "oauth" THEN "session" ELSE "deleteOtp"}]
  <2>1. n \in Ids /\ n \in 0 .. MaxUsers
    <3>1. created < MaxUsers
      BY <1>1 DEF createUser
    <3>2. MaxUsers \in Nat /\ created \in Nat
      BY UserAccountsAssumption DEF TypeOK
    <3> QED
      BY <3>1, <3>2 DEF Ids
  <2>2. requests[p] \in Request /\ requests[p].email \in Emails
    BY <1>1, RunningRequest DEF createUser
  <2>3. d \in User
    BY <2>2 DEF User, NoSession
  <2>4. q \in Request
    BY <2>1, <2>2 DEF Request, Calls
  <2>5. users' = [users EXCEPT ![n] = d] /\ requests' = [requests EXCEPT ![p] = q]
    BY <1>1 DEF createUser, TypeOK
  <2> HIDE DEF d, q
  <2>6. users' \in [Ids -> User \cup {None}] /\ requests' \in [Processes -> Request \cup {None}]
    BY <2>1, <2>3, <2>4, <2>5 DEF TypeOK
  <2> QED
    BY <1>1, <2>1, <2>6 DEF createUser, TypeOK
<1>2. CASE touchOAuthUser(p)
  <2>1. requests' \in [Processes -> Request \cup {None}]
    BY <1>2, FinishType, ThenType DEF touchOAuthUser, Calls
  <2> QED
    BY <1>2, <2>1 DEF touchOAuthUser, TypeOK
<1>3. CASE createSessionAndGenerateToken(p)
  <2> DEFINE u == requests[p].id
  <2>1. u \in Ids /\ sessions + 1 \in Nat
    <3>1. requests[p] # None /\ "session" \in requests[p].calls
      BY <1>3 DEF createSessionAndGenerateToken
    <3>2. u # None
      BY <3>1 DEF RequestsSound, RequestSound, ForAnAccount
    <3> QED
      BY <3>1, <3>2, RunningRequest DEF TypeOK
  <2>2. StoreSession(users[u], sessions + 1) \in User \cup {None}
    BY <2>1 DEF StoreSession, TypeOK, User
  <2>3. users' \in [Ids -> User \cup {None}]
    BY <1>3, <2>1, <2>2 DEF createSessionAndGenerateToken, TypeOK
  <2>4. tokens' \subseteq Token
    BY <1>3, <2>1 DEF createSessionAndGenerateToken, TypeOK, Token
  <2>5. requests' \in [Processes -> Request \cup {None}]
    BY <1>3, FinishType DEF createSessionAndGenerateToken
  <2> QED
    BY <1>3, <2>1, <2>3, <2>4, <2>5 DEF createSessionAndGenerateToken, TypeOK
<1> QED
  BY <1>1, <1>2, <1>3

LEMMA DeleteOneType ==
  ASSUME TypeOK, NEW e, NEW cause, DeleteOne(e, cause)
  PROVE  otps' \subseteq Otp /\ otps' \subseteq otps
BY DEF DeleteOne, TypeOK

\* The calls of sending a one-time password, and the end by a failure.
LEMMA OtpCallTypeOK ==
  ASSUME TypeOK, NEW p \in Processes,
         \/ deleteOtp(p)
         \/ createOtp(p)
         \/ sendEmail(p)
         \/ Fail(p)
  PROVE  TypeOK'
<1> USE DEF Calling
<1>1. CASE deleteOtp(p)
  <2>1. requests' \in [Processes -> Request \cup {None}]
    BY <1>1, ThenType DEF deleteOtp, Calls
  <2>2. otps' \subseteq Otp
    BY <1>1, DeleteOneType DEF deleteOtp
  <2> QED
    BY <1>1, <2>1, <2>2 DEF deleteOtp, TypeOK
<1>2. CASE createOtp(p)
  <2> DEFINE n == issued + 1
             q == [requests[p] EXCEPT !.otp = n, !.calls = {"mail"}]
  <2>1. n \in Nat /\ n \in 0 .. MaxOtps
    <3>1. issued < MaxOtps
      BY <1>2 DEF createOtp
    <3>2. MaxOtps \in Nat /\ issued \in Nat
      BY UserAccountsAssumption DEF TypeOK
    <3> QED
      BY <3>1, <3>2
  <2>2. /\ requests[p] \in Request
        /\ requests[p].email \in Emails
        /\ requests[p].cause \in OtpCause
    BY <1>2, RunningRequest DEF createOtp
  <2>3. q \in Request
    BY <2>1, <2>2 DEF Request, Calls
  <2>4. otps' \subseteq Otp
    <3>1. [email |-> requests[p].email, cause |-> requests[p].cause, otp |-> n] \in Otp
      BY <2>1, <2>2 DEF Otp
    <3>2. otps' = otps \cup {[email |-> requests[p].email, cause |-> requests[p].cause, otp |-> n]}
      BY <1>2 DEF createOtp
    <3> QED
      BY <3>1, <3>2 DEF TypeOK
  <2>5. requests' = [requests EXCEPT ![p] = q]
    BY <1>2 DEF createOtp, TypeOK
  <2> HIDE DEF q
  <2>6. requests' \in [Processes -> Request \cup {None}]
    BY <2>3, <2>5 DEF TypeOK
  <2> QED
    BY <1>2, <2>1, <2>4, <2>6 DEF createOtp, TypeOK
<1>3. CASE sendEmail(p)
  <2>1. /\ requests[p].email \in Emails
        /\ requests[p].cause \in OtpCause
        /\ requests[p].otp \in Nat
    BY <1>3, RunningRequest DEF sendEmail
  <2>2. mailed' \subseteq Otp
    BY <1>3, <2>1 DEF sendEmail, TypeOK, Otp
  <2>3. requests' \in [Processes -> Request \cup {None}]
    BY <1>3, FinishType, ThenType DEF sendEmail, Calls
  <2> QED
    BY <1>3, <2>2, <2>3 DEF sendEmail, TypeOK
<1>4. CASE Fail(p)
  BY <1>4, FinishType DEF Fail, TypeOK
<1> QED
  BY <1>1, <1>2, <1>3, <1>4

\* The calls of a verification.
LEMMA VerifyCallTypeOK ==
  ASSUME TypeOK, NEW p \in Processes,
         \/ findOtp(p)
         \/ verifyUser(p)
         \/ deleteUsedOtp(p)
         \/ generateTokenWithJti(p)
  PROVE  TypeOK'
<1> USE DEF Calling
<1>1. CASE findOtp(p)
  <2> DEFINE calls == IF requests[p].cause = "email_verification"
                      THEN {"verifyUser", "deleteUsedOtp"}
                      ELSE {"deleteUsedOtp"}
             q == [requests[p] EXCEPT !.calls = calls]
  <2>1. requests[p] \in Request /\ calls \in SUBSET Calls
    BY <1>1, RunningRequest DEF findOtp, Calls
  <2> HIDE DEF calls
  <2>2. q \in Request
    BY <2>1 DEF Request
  <2>3. requests' \in {Finish(p), [requests EXCEPT ![p] = q]}
    BY <1>1 DEF findOtp, TypeOK, calls
  <2> HIDE DEF q
  <2>4. requests' \in [Processes -> Request \cup {None}]
    BY <2>2, <2>3, FinishType DEF TypeOK
  <2> QED
    BY <1>1, <2>4 DEF findOtp, TypeOK
<1>2. CASE verifyUser(p)
  <2> DEFINE r == requests[p]
             done == Done(r, "verifyUser")
  <2>1. r \in Request /\ done \in Request
    BY <1>2, RunningRequest, DoneType DEF verifyUser
  <2> HIDE DEF done
  <2>2. CASE users' = users /\ requests' = [requests EXCEPT ![p] = [done EXCEPT !.id = None]]
    <3>1. [done EXCEPT !.id = None] \in Request
      BY <2>1 DEF Request
    <3>2. requests' \in [Processes -> Request \cup {None}]
      BY <2>2, <3>1 DEF TypeOK
    <3> QED
      BY <1>2, <2>2, <3>2 DEF verifyUser, TypeOK
  <2>3. ASSUME NEW u \in WithEmail(r.email),
               users' = [users EXCEPT ![u] = VerifiedUser(@, r)],
               requests' = [requests EXCEPT ![p] =
                 [done EXCEPT !.id = u, !.session = users[u].activeSessionId]]
        PROVE  TypeOK'
    <3>1. u \in Ids /\ users[u] \in User /\ users[u].activeSessionId \in Nat
      BY DEF WithEmail, TypeOK, User
    <3>2. VerifiedUser(users[u], r) \in User
      BY <3>1 DEF VerifiedUser, User
    <3>3. users' \in [Ids -> User \cup {None}]
      BY <2>3, <3>1, <3>2 DEF TypeOK
    <3>4. [done EXCEPT !.id = u, !.session = users[u].activeSessionId] \in Request
      BY <2>1, <3>1 DEF Request
    <3>5. requests' \in [Processes -> Request \cup {None}]
      BY <2>3, <3>4 DEF TypeOK
    <3> QED
      BY <1>2, <3>3, <3>5 DEF verifyUser, TypeOK
  <2> QED
    BY <1>2, <2>2, <2>3 DEF verifyUser, done
<1>3. CASE deleteUsedOtp(p)
  <2>1. Done(requests[p], "deleteUsedOtp") \in Request
    BY <1>3, DoneType DEF deleteUsedOtp
  <2>2. requests' \in [Processes -> Request \cup {None}]
    BY <1>3, <2>1 DEF deleteUsedOtp, TypeOK
  <2>3. otps' \subseteq Otp
    BY <1>3, DeleteOneType DEF deleteUsedOtp, DeleteUsed
  <2> QED
    BY <1>3, <2>2, <2>3 DEF deleteUsedOtp, TypeOK
<1>4. CASE generateTokenWithJti(p)
  <2>1. /\ requests[p].email \in Emails
        /\ requests[p].id \in Ids \cup {None}
        /\ requests[p].session \in Nat
        /\ requests[p].otp \in Nat
    BY <1>4, RunningRequest DEF generateTokenWithJti
  <2>2. TokenOf(requests[p]) \subseteq Token
    BY <2>1 DEF TokenOf, Token
  <2>3. requests' \in [Processes -> Request \cup {None}]
    BY <1>4, FinishType DEF generateTokenWithJti
  <2>4. tokens' \subseteq Token /\ resettable' \subseteq Emails /\ used' \subseteq Nat
    BY <1>4, <2>1, <2>2 DEF generateTokenWithJti, TypeOK
  <2> QED
    BY <1>4, <2>3, <2>4 DEF generateTokenWithJti, TypeOK
<1> QED
  BY <1>1, <1>2, <1>3, <1>4

LEMMA BesideTypeOK ==
  ASSUME TypeOK,
         \/ \E o \in otps : expire(o)
         \/ \E u \in Ids, status \in {"ACTIVE", "SUSPENDED"} : updateUserStatus(u, status)
         \/ \E u \in Ids : deleteUser(u)
  PROVE  TypeOK'
<1>1. ASSUME NEW o \in otps, expire(o)
      PROVE  TypeOK'
  BY <1>1 DEF expire, TypeOK
<1>2. ASSUME NEW u \in Ids, NEW status \in {"ACTIVE", "SUSPENDED"}, updateUserStatus(u, status)
      PROVE  TypeOK'
  BY <1>2 DEF updateUserStatus, TypeOK, User
<1>3. ASSUME NEW u \in Ids, deleteUser(u)
      PROVE  TypeOK'
  BY <1>3 DEF deleteUser, TypeOK
<1> QED
  BY <1>1, <1>2, <1>3

LEMMA NextTypeOK ==
  ASSUME TypeOK, RequestsSound, [Next]_vars
  PROVE  TypeOK'
<1>1. ASSUME NEW p \in Processes, NewRequest(p) \/ Call(p)
      PROVE  TypeOK'
  BY <1>1, NewRequestTypeOK, LoginCallTypeOK, OtpCallTypeOK, VerifyCallTypeOK DEF Call
<1>2. CASE UNCHANGED vars
  BY <1>2 DEF vars, TypeOK
<1> QED
  BY <1>1, <1>2, BesideTypeOK DEF Next

-----------------------------------------------------------------------------
(* Sessions.                                                               *)

\* Steps that store no session, create no account and sign no token: every
\* request goes on from what it had, or is sound anew, and no account has
\* another session.
LEMMA QuietStep ==
  ASSUME IInv, TypeOK', UNCHANGED <<created, sessions, tokens>>,
         \A u \in Ids : users'[u] # None =>
           users[u] # None /\ users'[u].activeSessionId = users[u].activeSessionId,
         \A q \in Processes : requests'[q] # None =>
           \/ /\ requests[q] # None
              /\ requests'[q].id = requests[q].id
              /\ requests'[q].session = requests[q].session
              /\ requests'[q].calls \cap ForAnAccount # {} =>
                   requests[q].calls \cap ForAnAccount # {}
              /\ "create" \in requests'[q].calls => "create" \in requests[q].calls
              /\ "verifyUser" \in requests'[q].calls => requests'[q].calls \subseteq Verifying
           \/ RequestSound(requests[q])'
  PROVE  IInv'
<1>1. RequestsSound'
  <2>1. ASSUME NEW q \in Processes, requests'[q] # None,
               requests[q] # None,
               requests'[q].id = requests[q].id,
               requests'[q].session = requests[q].session,
               requests'[q].calls \cap ForAnAccount # {} =>
                 requests[q].calls \cap ForAnAccount # {},
               "create" \in requests'[q].calls => "create" \in requests[q].calls,
               "verifyUser" \in requests'[q].calls => requests'[q].calls \subseteq Verifying
        PROVE  RequestSound(requests[q])'
    <3>1. RequestSound(requests[q])
      BY <2>1 DEF IInv, RequestsSound
    <3>2. requests[q].id \in Ids \cup {None}
      BY <2>1, RunningRequest DEF IInv
    <3> QED
      BY <2>1, <3>1, <3>2 DEF RequestSound, NoSession
  <2> QED
    BY <2>1 DEF RequestsSound
<1>2. AccountsSound'
  BY DEF IInv, AccountsSound
<1>3. TokensNumbered'
  BY DEF IInv, TokensNumbered
<1>4. TokensWereCurrent'
  <2>1. \A t \in tokens : t.sub \in Ids
    BY DEF IInv, TypeOK, Token
  <2> QED
    BY <2>1 DEF IInv, TokensWereCurrent
<1> QED
  BY <1>1, <1>2, <1>3, <1>4 DEF IInv

\* A verification makes no other calls.
LEMMA VerifyingAlone ==
  ASSUME IInv
  PROVE  \A q \in Processes : requests[q] # None =>
           ("verifyUser" \in requests[q].calls => requests[q].calls \subseteq Verifying)
BY DEF IInv, RequestsSound, RequestSound

LEMMA StartSound ==
  ASSUME IInv, TypeOK', NEW p \in Processes, NEW op, NEW e, NEW cause, NEW otp, NEW call,
         NEW found \in Ids \cup {None}, found # None => users[found] # None,
         found = None => call = "create", found # None => call # "create",
         call # "verifyUser",
         Start(p, op, e, cause, found, otp, call)
  PROVE  IInv'
<1> DEFINE seen == IF found = None THEN NoSession ELSE users[found].activeSessionId
           r == [op |-> op, email |-> e, cause |-> cause, id |-> found,
                 session |-> seen, otp |-> otp, calls |-> {call}]
<1>1. requests' = [requests EXCEPT ![p] = r] /\ users' = users /\ created' = created
  BY DEF Start
<1>2. requests'[p] = r /\ \A q \in Processes \ {p} : requests'[q] = requests[q]
  BY <1>1 DEF IInv, TypeOK
<1>3. r.id = found /\ r.session = seen /\ r.calls = {call}
  OBVIOUS
<1>4. found # None => found <= created /\ seen \in Nat
  <2>1. ASSUME found # None
        PROVE  found <= created /\ users[found] \in User
    BY <2>1 DEF IInv, AccountsSound, TypeOK
  <2> QED
    BY <2>1 DEF User
<1>5. RequestSound(requests[p])'
  <2> HIDE DEF r
  <2>1. CASE found = None
    BY <1>1, <1>2, <1>3, <2>1 DEF RequestSound, ForAnAccount
  <2>2. CASE found # None
    BY <1>1, <1>2, <1>3, <1>4, <2>2 DEF RequestSound
  <2> QED
    BY <2>1, <2>2
<1> HIDE DEF r
<1>6. UNCHANGED <<users, created, sessions, tokens>>
  BY DEF Start
<1> QED
  BY <1>2, <1>5, <1>6, VerifyingAlone, QuietStep

LEMMA NewRequestSound ==
  ASSUME IInv, TypeOK', NEW p \in Processes, NewRequest(p)
  PROVE  IInv'
<1>1. PICK e \in Emails :
        \/ signup(p, e)
        \/ login(p, e)
        \/ findOrCreateOAuthUser(p, e)
        \/ \E cause \in OtpCause : resendOtp(p, e, cause)
        \/ \E cause \in OtpCause, o \in mailed : verifyOtp(p, e, cause, o.otp)
  BY DEF NewRequest
<1> USE DEF WithEmail
<1>2. CASE signup(p, e)
  BY <1>2, StartSound DEF signup
<1>3. CASE login(p, e)
  <2>1. PICK u \in WithEmail(e) :
          Start(p, "login", e, "email_verification", u, 0, "session")
    BY <1>3 DEF login
  <2>2. u # None
    BY UserAccountsAssumption
  <2> QED
    BY <2>1, <2>2, StartSound
<1>4. CASE findOrCreateOAuthUser(p, e)
  <2>1. CASE Start(p, "oauth", e, "email_verification", None, 0, "create")
    BY <2>1, StartSound
  <2>2. ASSUME NEW u \in WithEmail(e),
               Start(p, "oauth", e, "email_verification", u, 0, "touch")
        PROVE  IInv'
    <3>1. u # None
      BY UserAccountsAssumption
    <3> QED
      BY <2>2, <3>1, StartSound
  <2> QED
    BY <1>4, <2>1, <2>2 DEF findOrCreateOAuthUser
<1>5. ASSUME NEW cause \in OtpCause, resendOtp(p, e, cause)
      PROVE  IInv'
  <2>1. PICK u \in WithEmail(e) : Start(p, "resendOtp", e, cause, u, 0, "deleteOtp")
    BY <1>5 DEF resendOtp
  <2>2. u # None
    BY UserAccountsAssumption
  <2> QED
    BY <2>1, <2>2, StartSound
<1>6. ASSUME NEW cause \in OtpCause, NEW o \in mailed, verifyOtp(p, e, cause, o.otp)
      PROVE  IInv'
  <2>1. PICK u \in WithEmail(e) : Start(p, "verifyOtp", e, cause, u, o.otp, "findOtp")
    BY <1>6 DEF verifyOtp
  <2>2. u # None
    BY UserAccountsAssumption
  <2> QED
    BY <2>1, <2>2, StartSound
<1> QED
  BY <1>1, <1>2, <1>3, <1>4, <1>5, <1>6

\* Calls after which the request goes on for the account it had, or ends.
LEMMA QuietCallSound ==
  ASSUME IInv, TypeOK', NEW p \in Processes,
         \/ deleteOtp(p)
         \/ createOtp(p)
         \/ sendEmail(p)
         \/ touchOAuthUser(p)
         \/ findOtp(p)
         \/ deleteUsedOtp(p)
         \/ Fail(p)
  PROVE  IInv'
<1> DEFINE GoesOn(calls) ==
      /\ calls \cap ForAnAccount # {} => requests[p].calls \cap ForAnAccount # {}
      /\ "create" \in calls => "create" \in requests[p].calls
      /\ "verifyUser" \in calls => calls \subseteq Verifying
<1>1. requests[p] # None /\ requests[p] \in Request /\ requests \in [Processes -> Request \cup {None}]
  <2>1. requests[p] # None
    BY DEF deleteOtp, createOtp, sendEmail, touchOAuthUser, findOtp, deleteUsedOtp, Fail, Calling
  <2> QED
    BY <2>1, RunningRequest DEF IInv, TypeOK
<1>2. UNCHANGED <<users, created, sessions, tokens>>
  BY DEF deleteOtp, createOtp, sendEmail, touchOAuthUser, findOtp, deleteUsedOtp, Fail
<1>3. \/ requests' = Finish(p)
      \/ \E calls, otp : /\ GoesOn(calls)
                         /\ requests' = [requests EXCEPT ![p] =
                              [requests[p] EXCEPT !.calls = calls, !.otp = otp]]
  <2>1. requests[p] = [requests[p] EXCEPT !.otp = requests[p].otp]
    BY <1>1 DEF Request
  <2>2. \A calls : [requests[p] EXCEPT !.calls = calls]
                     = [requests[p] EXCEPT !.calls = calls, !.otp = requests[p].otp]
    BY <1>1 DEF Request
  <2>3. ASSUME NEW calls, requests' = [requests EXCEPT ![p].calls = calls], GoesOn(calls)
        PROVE  requests' = [requests EXCEPT ![p] =
                 [requests[p] EXCEPT !.calls = calls, !.otp = requests[p].otp]]
    BY <1>1, <2>2, <2>3
  <2>4. CASE deleteOtp(p)
    <3>1. GoesOn({"createOtp"}) /\ requests' = [requests EXCEPT ![p].calls = {"createOtp"}]
      BY <2>4 DEF deleteOtp, Calling, ForAnAccount, Then
    <3> HIDE DEF GoesOn
    <3> QED
      BY <2>3, <3>1
  <2>5. CASE createOtp(p)
    <3>1. /\ GoesOn({"mail"})
          /\ requests' = [requests EXCEPT ![p].otp = issued + 1, ![p].calls = {"mail"}]
      BY <2>5 DEF createOtp, Calling, ForAnAccount
    <3>2. requests' = [requests EXCEPT ![p] =
            [requests[p] EXCEPT !.calls = {"mail"}, !.otp = issued + 1]]
      BY <1>1, <3>1 DEF Request
    <3> HIDE DEF GoesOn
    <3> QED
      BY <3>1, <3>2
  <2>6. CASE sendEmail(p)
    <3>1. GoesOn({"session"})
      BY <2>6 DEF sendEmail, Calling, ForAnAccount
    <3>2. requests' = Finish(p) \/ requests' = [requests EXCEPT ![p].calls = {"session"}]
      BY <2>6 DEF sendEmail, Then
    <3> HIDE DEF GoesOn
    <3> QED
      BY <2>3, <3>1, <3>2
  <2>7. CASE touchOAuthUser(p)
    <3>1. GoesOn({"session"})
      BY <2>7 DEF touchOAuthUser, Calling, ForAnAccount
    <3>2. requests' = Finish(p) \/ requests' = [requests EXCEPT ![p].calls = {"session"}]
      BY <2>7 DEF touchOAuthUser, Then
    <3> HIDE DEF GoesOn
    <3> QED
      BY <2>3, <3>1, <3>2
  <2>8. CASE findOtp(p)
    <3> DEFINE calls == IF requests[p].cause = "email_verification"
                        THEN {"verifyUser", "deleteUsedOtp"}
                        ELSE {"deleteUsedOtp"}
    <3>1. GoesOn(calls)
      BY DEF ForAnAccount, Verifying
    <3>2. requests' = Finish(p) \/ requests' = [requests EXCEPT ![p].calls = calls]
      BY <2>8 DEF findOtp
    <3> HIDE DEF GoesOn, calls
    <3> QED
      BY <2>3, <3>1, <3>2
  <2>9. CASE deleteUsedOtp(p)
    <3> DEFINE calls == IF requests[p].calls = {"deleteUsedOtp"} THEN {"sign"}
                        ELSE requests[p].calls \ {"deleteUsedOtp"}
    <3>1. GoesOn(calls)
      BY <1>1 DEF IInv, RequestsSound, RequestSound, ForAnAccount
    <3>2. requests' = [requests EXCEPT ![p].calls = calls]
      BY <1>1, <2>9 DEF deleteUsedOtp, Done
    <3> HIDE DEF GoesOn, calls
    <3> QED
      BY <2>3, <3>1, <3>2
  <2>10. CASE Fail(p)
    BY <2>10 DEF Fail
  <2> QED
    BY <2>4, <2>5, <2>6, <2>7, <2>8, <2>9, <2>10
<1>4. CASE requests' = Finish(p)
  <2>1. requests'[p] = None /\ \A q \in Processes \ {p} : requests'[q] = requests[q]
    BY <1>1, <1>4 DEF Finish
  <2> QED
    BY <1>2, <2>1, VerifyingAlone, QuietStep
<1>5. ASSUME NEW calls, NEW otp, GoesOn(calls),
             requests' = [requests EXCEPT ![p] =
               [requests[p] EXCEPT !.calls = calls, !.otp = otp]]
      PROVE  IInv'
  <2>1. \A q \in Processes \ {p} : requests'[q] = requests[q]
    BY <1>1, <1>5
  <2>2. /\ requests'[p].id = requests[p].id
        /\ requests'[p].session = requests[p].session
        /\ requests'[p].calls = calls
    BY <1>1, <1>5 DEF Request
  <2> QED
    BY <1>1, <1>2, <1>5, <2>1, <2>2, VerifyingAlone, QuietStep
<1> QED
  BY <1>3, <1>4, <1>5

\* The update of a verification: the request has now seen the session of the
\* account it updated.
LEMMA VerifyUserSound ==
  ASSUME IInv, TypeOK', NEW p \in Processes, verifyUser(p)
  PROVE  IInv'
<1> DEFINE r == requests[p]
           done == Done(r, "verifyUser")
<1>1. /\ r # None /\ r \in Request /\ done \in Request
      /\ "verifyUser" \in r.calls
  BY RunningRequest, DoneType DEF verifyUser, Calling, IInv
<1>2. r.calls \subseteq Verifying
  BY <1>1 DEF IInv, RequestsSound, RequestSound
<1>3. done.calls \in {{"sign"}, {"deleteUsedOtp"}} \cup SUBSET {"deleteUsedOtp"}
  BY <1>1, <1>2 DEF Done, Request, Verifying
<1>4. done.id = r.id /\ done.session = r.session
  BY <1>1 DEF Done, Request
<1>5. requests \in [Processes -> Request \cup {None}] /\ users \in [Ids -> User \cup {None}]
  BY DEF IInv, TypeOK
<1>6. UNCHANGED <<created, sessions, tokens>>
  BY DEF verifyUser
<1> HIDE DEF done
<1>7. CASE users' = users /\ requests' = [requests EXCEPT ![p] = [done EXCEPT !.id = None]]
  <2>1. requests'[p].id = None /\ requests'[p].calls = done.calls
    BY <1>1, <1>5, <1>7 DEF Request
  <2>2. RequestSound(requests[p])'
    BY <1>3, <2>1 DEF RequestSound, ForAnAccount, Verifying
  <2>3. \A q \in Processes \ {p} : requests'[q] = requests[q]
    BY <1>5, <1>7
  <2>4. \A q \in Processes \ {p} : requests[q] # None => RequestSound(requests[q])
    BY DEF IInv, RequestsSound
  <2>5. \A q \in Processes : requests'[q] # None => RequestSound(requests[q])'
    BY <1>6, <1>7, <2>2, <2>3, <2>4 DEF RequestSound
  <2> QED
    BY <1>6, <1>7, <2>5, QuietStep
<1>8. ASSUME NEW u \in WithEmail(r.email),
             users' = [users EXCEPT ![u] = VerifiedUser(@, r)],
             requests' = [requests EXCEPT ![p] =
               [done EXCEPT !.id = u, !.session = users[u].activeSessionId]]
      PROVE  IInv'
  <2>1. u \in Ids /\ users[u] # None /\ users[u] \in User /\ u <= created
    BY <1>5 DEF WithEmail, IInv, AccountsSound
  <2>2. users'[u] = VerifiedUser(users[u], r) /\ \A v \in Ids \ {u} : users'[v] = users[v]
    BY <1>5, <1>8, <2>1
  <2>3. users'[u].activeSessionId = users[u].activeSessionId /\ users[u].activeSessionId \in Nat
    BY <2>1, <2>2 DEF VerifiedUser, User
  <2>4. /\ requests'[p].id = u
        /\ requests'[p].session = users[u].activeSessionId
        /\ requests'[p].calls = done.calls
    BY <1>1, <1>5, <1>8 DEF Request
  <2>5. RequestSound(requests[p])'
    BY <1>3, <1>6, <2>1, <2>3, <2>4 DEF RequestSound, ForAnAccount, Verifying
  <2>6. \A q \in Processes \ {p} : requests'[q] = requests[q]
    BY <1>5, <1>8
  <2>7. \A v \in Ids : users'[v] # None =>
          users[v] # None /\ users'[v].activeSessionId = users[v].activeSessionId
    BY <2>1, <2>2, <2>3
  <2>8. \A q \in Processes \ {p} : requests[q] # None => RequestSound(requests[q])
    BY DEF IInv, RequestsSound
  <2>9. ASSUME NEW q \in Processes, requests'[q] # None
        PROVE  RequestSound(requests[q])'
    <3>1. CASE q = p
      BY <2>5, <3>1
    <3>2. CASE q # p
      <4>1. requests'[q] = requests[q] /\ RequestSound(requests[q])
        BY <2>6, <2>8, <2>9, <3>2
      <4>2. requests[q].id \in Ids \cup {None}
        BY <2>9, <4>1, RunningRequest DEF IInv
      <4> QED
        BY <1>6, <2>7, <4>1, <4>2 DEF RequestSound
    <3> QED
      BY <3>1, <3>2
  <2> QED
    BY <1>6, <2>7, <2>9, QuietStep
<1> QED
  BY <1>7, <1>8 DEF verifyUser, done

\* What happens beside the requests: an account keeps its session or is gone.
LEMMA BesideSound ==
  ASSUME IInv, TypeOK',
         \/ \E o \in otps : expire(o)
         \/ \E u \in Ids, status \in {"ACTIVE", "SUSPENDED"} : updateUserStatus(u, status)
         \/ \E u \in Ids : deleteUser(u)
  PROVE  IInv'
<1>1. users \in [Ids -> User \cup {None}]
  BY DEF IInv, TypeOK
<1>2. UNCHANGED <<requests, created, sessions, tokens>>
  BY DEF expire, updateUserStatus, deleteUser
<1>3. \A v \in Ids : users'[v] # None =>
        users[v] # None /\ users'[v].activeSessionId = users[v].activeSessionId
  <2>1. ASSUME NEW o \in otps, expire(o)
        PROVE  users' = users
    BY <2>1 DEF expire
  <2>2. ASSUME NEW u \in Ids, NEW status \in {"ACTIVE", "SUSPENDED"}, updateUserStatus(u, status),
               NEW v \in Ids, users'[v] # None
        PROVE  users[v] # None /\ users'[v].activeSessionId = users[v].activeSessionId
    BY <1>1, <2>2 DEF updateUserStatus, User
  <2>3. ASSUME NEW u \in Ids, deleteUser(u), NEW v \in Ids, users'[v] # None
        PROVE  users[v] # None /\ users'[v].activeSessionId = users[v].activeSessionId
    BY <1>1, <2>3 DEF deleteUser
  <2> QED
    BY <2>1, <2>2, <2>3
<1> QED
  BY <1>2, <1>3, VerifyingAlone, QuietStep

\* Sessions and accounts have the types that comparing them needs.
LEMMA Numbers ==
  ASSUME IInv
  PROVE  /\ sessions \in Nat /\ created \in 0 .. MaxUsers /\ MaxUsers \in Nat
         /\ \A u \in Ids : users[u] # None => users[u].activeSessionId \in Nat
         /\ \A t \in tokens : t.sub \in Ids /\ t.jti \in Nat
         /\ \A q \in Processes : requests[q] # None =>
              requests[q].id \in Ids \cup {None} /\ requests[q].session \in Nat
<1>1. \A u \in Ids : users[u] # None => users[u].activeSessionId \in Nat
  BY DEF IInv, TypeOK, User
<1>2. \A t \in tokens : t.sub \in Ids /\ t.jti \in Nat
  BY DEF IInv, TypeOK, Token
<1>3. \A q \in Processes : requests[q] # None =>
        requests[q].id \in Ids \cup {None} /\ requests[q].session \in Nat
  BY RunningRequest DEF IInv
<1> QED
  BY <1>1, <1>2, <1>3, UserAccountsAssumption DEF IInv, TypeOK

\* A new account has the next number, which no request and no token names
\* yet, and no session.
LEMMA CreateUserSound ==
  ASSUME IInv, TypeOK', NEW p \in Processes, createUser(p)
  PROVE  IInv'
<1> DEFINE n == created + 1
           call == IF requests[p].op = "oauth" THEN "session" ELSE "deleteOtp"
           account == [email |-> requests[p].email,
                       strategy |-> IF requests[p].op = "oauth" THEN "oauth" ELSE "local",
                       isVerified |-> requests[p].op = "oauth",
                       status |-> "ACTIVE", activeSessionId |-> NoSession]
<1>1. requests \in [Processes -> Request \cup {None}] /\ users \in [Ids -> User \cup {None}]
  BY DEF IInv, TypeOK
<1>2. /\ requests[p] # None /\ requests[p] \in Request
      /\ requests[p].session = NoSession
  <2>1. requests[p] # None /\ "create" \in requests[p].calls
    BY DEF createUser, Calling
  <2> QED
    BY <2>1, RunningRequest DEF IInv, RequestsSound, RequestSound
<1>3. /\ created' = n /\ users' = [users EXCEPT ![n] = account]
      /\ requests' = [requests EXCEPT ![p].id = n, ![p].calls = {call}]
      /\ sessions' = sessions /\ tokens' = tokens
  BY DEF createUser
<1>4. n \in Ids /\ created \in Nat /\ n \notin 0 .. created
  BY Numbers DEF createUser, Ids
<1>5. account.activeSessionId = NoSession
  OBVIOUS
<1> HIDE DEF account, call
<1>6. users'[n] = account /\ \A u \in Ids \ {n} : users'[u] = users[u]
  BY <1>1, <1>3, <1>4
<1>7. /\ requests'[p].id = n /\ requests'[p].session = NoSession
      /\ requests'[p].calls = {call}
      /\ \A q \in Processes \ {p} : requests'[q] = requests[q]
  BY <1>1, <1>2, <1>3 DEF Request
<1>8. RequestsSound'
  <2>1. RequestSound(requests[p])'
    <3>1. call # "verifyUser"
      BY DEF call
    <3>2. n # None
      BY <1>4, UserAccountsAssumption
    <3>3. /\ requests'[p].id <= created'
          /\ requests'[p].session <= users'[requests'[p].id].activeSessionId
      BY <1>3, <1>4, <1>5, <1>6, <1>7 DEF NoSession
    <3>4. "verifyUser" \notin requests'[p].calls
      BY <1>7, <3>1
    <3> QED
      BY <1>7, <3>2, <3>3, <3>4 DEF RequestSound
  <2>2. ASSUME NEW q \in Processes \ {p}, requests'[q] # None
        PROVE  RequestSound(requests[q])'
    <3>1. requests'[q] = requests[q] /\ RequestSound(requests[q])
      BY <1>7, <2>2 DEF IInv, RequestsSound
    <3>2. requests[q].id \in Ids \cup {None}
      BY <2>2, <3>1, Numbers
    <3>3. requests[q].id # None =>
            requests[q].id <= created /\ users'[requests[q].id] = users[requests[q].id]
      BY <1>4, <1>6, <3>1, <3>2 DEF RequestSound, Ids
    <3>4. requests[q].id # None => requests[q].id <= created'
      BY <1>3, <1>4, <3>2, <3>3 DEF Ids
    <3> QED
      BY <3>1, <3>3, <3>4 DEF RequestSound
  <2> QED
    BY <2>1, <2>2 DEF RequestsSound
<1>9. AccountsSound'
  <2>1. ASSUME NEW u \in Ids, users'[u] # None
        PROVE  u <= created' /\ users'[u].activeSessionId <= sessions'
    <3>1. CASE u = n
      BY <1>3, <1>4, <1>5, <1>6, <3>1, Numbers DEF NoSession
    <3>2. CASE u # n
      <4>1. users[u] # None /\ u <= created /\ users[u].activeSessionId <= sessions
        BY <1>6, <2>1, <3>2 DEF IInv, AccountsSound
      <4> QED
        BY <1>3, <1>4, <1>6, <3>2, <4>1 DEF Ids
    <3> QED
      BY <3>1, <3>2
  <2> QED
    BY <2>1 DEF AccountsSound
<1>10. \A t \in tokens : t.sub \in Ids /\ t.sub <= created /\ t.sub # n
  BY <1>4, Numbers DEF IInv, TokensNumbered, Ids
<1>11. TokensNumbered'
  BY <1>3, <1>4, <1>10 DEF TokensNumbered, Ids
<1>12. TokensWereCurrent'
  BY <1>3, <1>6, <1>10 DEF IInv, TokensWereCurrent
<1> QED
  BY <1>8, <1>9, <1>11, <1>12 DEF IInv

\* The session stored last is later than any session a request has seen or
\* a token names.
LEMMA CreateSessionSound ==
  ASSUME IInv, TypeOK', NEW p \in Processes, createSessionAndGenerateToken(p)
  PROVE  IInv'
<1> DEFINE u == requests[p].id
           n == sessions + 1
<1>1. requests \in [Processes -> Request \cup {None}] /\ users \in [Ids -> User \cup {None}]
  BY DEF IInv, TypeOK
<1>2. u \in Ids /\ u # None /\ u <= created
  <2>1. requests[p] # None /\ "session" \in requests[p].calls
    BY DEF createSessionAndGenerateToken, Calling
  <2>2. RequestSound(requests[p]) /\ u \in Ids \cup {None}
    BY <2>1, Numbers DEF IInv, RequestsSound
  <2> QED
    BY <2>1, <2>2 DEF RequestSound, ForAnAccount
<1>3. /\ created' = created /\ sessions' = n
      /\ users' = [users EXCEPT ![u] = StoreSession(@, n)]
      /\ tokens' = tokens \cup {[sub |-> u, jti |-> n]}
      /\ requests' = Finish(p)
  BY DEF createSessionAndGenerateToken
<1>4. requests'[p] = None /\ \A q \in Processes \ {p} : requests'[q] = requests[q]
  BY <1>1, <1>3 DEF Finish
<1>5. \A v \in Ids \ {u} : users'[v] = users[v]
  BY <1>1, <1>2, <1>3
<1>6. users'[u] # None => users[u] # None /\ users'[u].activeSessionId = n
  <2>1. users'[u] = StoreSession(users[u], n)
    BY <1>1, <1>2, <1>3
  <2>2. CASE users[u] = None
    BY <2>1, <2>2 DEF StoreSession
  <2>3. CASE users[u] # None
    <3>1. users[u] \in User
      BY <1>1, <1>2, <2>3
    <3> QED
      BY <2>1, <2>3, <3>1 DEF StoreSession, User
  <2> QED
    BY <2>2, <2>3
\* Whatever was at most the session of an account still is.
<1>7. ASSUME NEW v \in Ids, users'[v] # None, NEW k \in Nat,
             users[v] # None => k <= users[v].activeSessionId
      PROVE  users[v] # None /\ k <= users'[v].activeSessionId
  <2>1. users[v] # None
    BY <1>5, <1>6, <1>7
  <2>2. users[v].activeSessionId \in Nat /\ users[v].activeSessionId <= sessions
    BY <2>1, Numbers DEF IInv, AccountsSound
  <2>3. CASE v = u
    BY <1>6, <1>7, <2>1, <2>2, <2>3, Numbers
  <2>4. CASE v # u
    BY <1>5, <1>7, <2>1, <2>4
  <2> QED
    BY <2>3, <2>4
<1>8. RequestsSound'
  <2>1. ASSUME NEW q \in Processes, requests'[q] # None
        PROVE  RequestSound(requests[q])'
    <3>1. requests'[q] = requests[q] /\ requests[q] # None /\ RequestSound(requests[q])
      BY <1>4, <2>1 DEF IInv, RequestsSound
    <3>2. requests[q].id \in Ids \cup {None} /\ requests[q].session \in Nat
      BY <3>1, Numbers
    <3>3. requests[q].id # None /\ users'[requests[q].id] # None =>
            requests[q].session <= users'[requests[q].id].activeSessionId
      BY <1>7, <3>1, <3>2 DEF RequestSound
    <3> QED
      BY <1>3, <3>1, <3>2, <3>3 DEF RequestSound
  <2> QED
    BY <2>1 DEF RequestsSound
<1>9. AccountsSound'
  <2>1. ASSUME NEW v \in Ids, users'[v] # None
        PROVE  v <= created' /\ users'[v].activeSessionId <= sessions'
    <3>1. CASE v = u
      BY <1>2, <1>3, <1>6, <2>1, <3>1, Numbers
    <3>2. CASE v # u
      <4>1. users[v] # None /\ v <= created /\ users[v].activeSessionId <= sessions
        BY <1>5, <2>1, <3>2 DEF IInv, AccountsSound
      <4> QED
        BY <1>3, <1>5, <3>2, <4>1, Numbers
    <3> QED
      BY <3>1, <3>2
  <2> QED
    BY <2>1 DEF AccountsSound
<1>10. TokensNumbered'
  BY <1>2, <1>3 DEF IInv, TokensNumbered
<1>11. TokensWereCurrent'
  <2>1. ASSUME NEW t \in tokens', t.jti # NoSession, users'[t.sub] # None
        PROVE  t.jti <= users'[t.sub].activeSessionId
    <3>1. CASE t \in tokens
      BY <1>7, <2>1, <3>1, Numbers DEF IInv, TokensWereCurrent
    <3>2. CASE t = [sub |-> u, jti |-> n]
      BY <1>6, <2>1, <3>2, Numbers
    <3> QED
      BY <1>3, <3>1, <3>2
  <2> QED
    BY <2>1 DEF TokensWereCurrent
<1> QED
  BY <1>8, <1>9, <1>10, <1>11 DEF IInv

\* The token of a verification names the session that the account had when
\* it was updated, or when it was found.
LEMMA GenerateTokenSound ==
  ASSUME IInv, TypeOK', NEW p \in Processes, generateTokenWithJti(p)
  PROVE  IInv'
<1> DEFINE r == requests[p]
<1>1. r # None /\ RequestSound(r)
  BY DEF generateTokenWithJti, Calling, IInv, RequestsSound
<1>2. r.id \in Ids \cup {None} /\ r.session \in Nat
  BY <1>1, Numbers
<1>3. UNCHANGED <<users, created, sessions>> /\ requests' = Finish(p)
  BY DEF generateTokenWithJti
<1>4. \A t \in tokens' : t \in tokens \/ (r.id # None /\ t = [sub |-> r.id, jti |-> r.session])
  BY DEF generateTokenWithJti, TokenOf
<1>5. requests \in [Processes -> Request \cup {None}]
  BY DEF IInv, TypeOK
<1>6. requests'[p] = None /\ \A q \in Processes \ {p} : requests'[q] = requests[q]
  BY <1>3, <1>5 DEF Finish
<1>7. RequestsSound'
  <2>1. \A q \in Processes : requests'[q] # None =>
          requests'[q] = requests[q] /\ RequestSound(requests[q])
    BY <1>6 DEF IInv, RequestsSound
  <2> QED
    BY <1>3, <2>1 DEF RequestsSound, RequestSound
<1>8. AccountsSound'
  BY <1>3 DEF IInv, AccountsSound
<1>9. TokensNumbered'
  BY <1>1, <1>3, <1>4 DEF IInv, TokensNumbered, RequestSound
<1>10. TokensWereCurrent'
  BY <1>1, <1>2, <1>3, <1>4 DEF IInv, TokensWereCurrent, RequestSound
<1> QED
  BY <1>7, <1>8, <1>9, <1>10 DEF IInv

LEMMA NextSound ==
  ASSUME IInv, [Next]_vars
  PROVE  IInv'
<1>1. TypeOK'
  BY NextTypeOK DEF IInv
<1>2. ASSUME NEW p \in Processes, Call(p)
      PROVE  IInv'
  BY <1>1, <1>2, QuietCallSound, VerifyUserSound, CreateUserSound, CreateSessionSound,
     GenerateTokenSound DEF Call
<1>3. CASE UNCHANGED vars
  BY <1>1, <1>3 DEF vars, IInv, RequestsSound, RequestSound, AccountsSound, TokensNumbered,
                    TokensWereCurrent
<1> QED
  BY <1>1, <1>2, <1>3, NewRequestSound, BesideSound DEF Next

\* No step gives an account an older session.
LEMMA SessionStep ==
  ASSUME IInv, [Next]_vars, NEW u \in Ids, users[u] # None, users'[u] # None
  PROVE  users'[u].activeSessionId >= users[u].activeSessionId
<1> DEFINE Keeps == users'[u].activeSessionId = users[u].activeSessionId
<1>1. users \in [Ids -> User \cup {None}] /\ users[u] \in User
  BY DEF IInv, TypeOK
<1>2. users[u].activeSessionId \in Nat /\ users[u].activeSessionId <= sessions
  BY Numbers DEF IInv, AccountsSound
<1>3. ASSUME NEW p \in Processes, NewRequest(p)
      PROVE  Keeps
  BY <1>3 DEF NewRequest, signup, login, findOrCreateOAuthUser, resendOtp, verifyOtp, Start
<1>4. ASSUME NEW p \in Processes, Call(p)
      PROVE  Keeps \/ users'[u].activeSessionId = sessions + 1
  <2>1. CASE createUser(p)
    <3>1. u # created + 1
      BY Numbers DEF IInv, AccountsSound, Ids
    <3> QED
      BY <1>1, <2>1, <3>1 DEF createUser
  <2>2. CASE createSessionAndGenerateToken(p)
    <3>1. users' = [users EXCEPT ![requests[p].id] =
                      StoreSession(users[requests[p].id], sessions + 1)]
      BY <2>2 DEF createSessionAndGenerateToken
    <3>2. CASE u = requests[p].id
      <4>1. users'[u] = [users[u] EXCEPT !.activeSessionId = sessions + 1]
        BY <1>1, <3>1, <3>2 DEF StoreSession
      <4> QED
        BY <1>1, <4>1 DEF User
    <3>3. CASE u # requests[p].id
      BY <1>1, <3>1, <3>3
    <3> QED
      BY <3>2, <3>3
  <2>3. CASE verifyUser(p)
    <3>1. CASE users' = users
      BY <3>1
    <3>2. ASSUME NEW v \in Ids,
                 users' = [users EXCEPT ![v] = VerifiedUser(@, requests[p])]
          PROVE  Keeps
      BY <1>1, <3>2 DEF VerifiedUser, User
    <3> QED
      BY <2>3, <3>1, <3>2 DEF verifyUser, WithEmail
  <2>4. CASE UNCHANGED users
    BY <2>4
  <2> QED
    BY <1>4, <2>1, <2>2, <2>3, <2>4
       DEF Call, deleteOtp, createOtp, sendEmail, touchOAuthUser, findOtp, deleteUsedOtp,
           generateTokenWithJti, Fail
<1>5. ASSUME \/ \E o \in otps : expire(o)
             \/ \E v \in Ids, status \in {"ACTIVE", "SUSPENDED"} : updateUserStatus(v, status)
             \/ \E v \in Ids : deleteUser(v)
      PROVE  Keeps
  BY <1>1, <1>5 DEF expire, updateUserStatus, deleteUser, User
<1>6. ASSUME UNCHANGED vars
      PROVE  Keeps
  <2>1. users' = users
    BY <1>6 DEF vars
  <2> QED
    BY <2>1
<1> HIDE DEF Keeps
<1>7. Keeps \/ users'[u].activeSessionId = sessions + 1
  BY <1>3, <1>4, <1>5, <1>6 DEF Next
<1> USE DEF Keeps
<1> QED
  BY <1>2, <1>7, Numbers

LEMMA InitSound ==
  ASSUME Init
  PROVE  IInv
<1>1. TypeOK
  BY UserAccountsAssumption DEF Init, TypeOK, User, Request, Otp, Token
<1> QED
  BY <1>1 DEF Init, IInv, RequestsSound, AccountsSound, TokensNumbered, TokensWereCurrent

LEMMA IInvAlways == Spec => []IInv
BY InitSound, NextSound, PTL DEF Spec

-----------------------------------------------------------------------------
(* The results.                                                            *)

\* Every request, account, one-time password and token keeps the form that
\* UserAuthService gives it, in every interleaving and after every failure.
THEOREM UserAccountsTypeCorrect == Spec => []TypeOK
<1>1. IInv => TypeOK
  BY DEF IInv
<1> QED
  BY <1>1, IInvAlways, PTL

\* validateAndGetUser refuses a token for its session only when a later
\* session was stored, for any number of requests, devices and accounts.
THEOREM TokensStayCurrent == Spec => []TokensWereCurrent
<1>1. IInv => TokensWereCurrent
  BY DEF IInv
<1> QED
  BY <1>1, IInvAlways, PTL

\* The session stored last stays: neither verifyOtp, which returns a token
\* for the session it has seen, nor a change by an administrator brings back
\* one that a later login has replaced.
THEOREM NewestSessionStays == Spec => NewestSessionWins
<1>1. ASSUME IInv, [Next]_vars
      PROVE  [\A u \in Ids : users[u] # None /\ users'[u] # None =>
                users'[u].activeSessionId >= users[u].activeSessionId]_vars
  <2>1. ASSUME NEW u \in Ids, users[u] # None, users'[u] # None
        PROVE  users'[u].activeSessionId >= users[u].activeSessionId
    BY <1>1, <2>1, SessionStep
  <2> QED
    BY <2>1
<1> QED
  BY <1>1, IInvAlways, PTL DEF Spec, NewestSessionWins

==============================================================================

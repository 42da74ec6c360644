---------------------------- MODULE UserOtpProofs -----------------------------
(***************************************************************************)
(* Proofs about the one-time passwords of UserAccounts, for all addresses, *)
(* processes and bounds.  A code is told from others by its number: the    *)
(* invariant says which number stands for which address and cause, and     *)
(* what a verification in progress knows of its code.                      *)
(***************************************************************************)
EXTENDS UserAccountsProofs

\* The code a request has generated or was given, as it would be stored.
Code(r) == [email |-> r.email, cause |-> r.cause, otp |-> r.otp]

AboutToMail(p) == requests[p] # None /\ "mail" \in requests[p].calls

\* Codes that are stored, were mailed or are about to be.
Known(o) ==
  \/ o \in otps
  \/ o \in mailed
  \/ \E p \in Processes : AboutToMail(p) /\ o = Code(requests[p])

NumbersIdentify ==
  \A o1, o2 \in Otp : Known(o1) /\ Known(o2) /\ o1.otp = o2.otp => o1 = o2

KnownWereIssued == \A o \in Otp : Known(o) => o.otp <= issued

\* The unique index of the otps collection.
OneCodeEach ==
  \A o1, o2 \in otps : o1.email = o2.email /\ o1.cause = o2.cause => o1 = o2

\* The calls of verifyOtp after the code was accepted.
Accepted == {"verifyUser", "deleteUsedOtp", "sign"}

\* A code that is typed was mailed, one that was accepted was mailed for
\* the address and the cause, and after its deletion it is gone.
VerificationSound(r) ==
  /\ "findOtp" \in r.calls => \E o \in mailed : o.otp = r.otp
  /\ r.calls \cap Accepted # {} => Code(r) \in mailed
  /\ "verifyUser" \in r.calls => r.cause = "email_verification"
  /\ r.calls \cap Verifying # {} => r.calls \subseteq Verifying
  /\ "sign" \in r.calls => r.calls = {"sign"}
  /\ (r.calls \cap Accepted # {} /\ "deleteUsedOtp" \notin r.calls) =>
       \A o \in otps : o.otp # r.otp

VerificationsSound ==
  \A p \in Processes : requests[p] # None => VerificationSound(requests[p])

UsedWereIssued == \A n \in used : n <= issued

CodesSound ==
  /\ NumbersIdentify
  /\ KnownWereIssued
  /\ OneCodeEach
  /\ VerificationsSound
  /\ UsedWereIssued
  /\ UsedCodesAreGone

CodesInv == IInv /\ CodesSound /\ CodesServeTheirPurpose

-----------------------------------------------------------------------------
(* Codes and verifications.                                                *)

LEMMA CodeType ==
  ASSUME TypeOK, NEW p \in Processes, requests[p] # None
  PROVE  /\ Code(requests[p]) \in Otp
         /\ Code(requests[p]).email = requests[p].email
         /\ Code(requests[p]).cause = requests[p].cause
         /\ Code(requests[p]).otp = requests[p].otp
BY RunningRequest DEF Code, Otp

LEMMA CodeNumbers ==
  ASSUME TypeOK
  PROVE  /\ issued \in Nat /\ MaxOtps \in Nat
         /\ otps \subseteq Otp /\ mailed \subseteq Otp
         /\ \A o \in Otp : o.otp \in Nat
         /\ used \subseteq Nat
BY UserAccountsAssumption DEF TypeOK, Otp

\* An accepted code was issued.
LEMMA AcceptedWereIssued ==
  ASSUME IInv, CodesSound, NEW p \in Processes, requests[p] # None,
         requests[p].calls \cap Accepted # {}
  PROVE  /\ Known(Code(requests[p]))
         /\ requests[p].otp <= issued
<1>1. Code(requests[p]) \in mailed
  BY DEF CodesSound, VerificationsSound, VerificationSound
<1>2. Code(requests[p]) \in Otp /\ Code(requests[p]).otp = requests[p].otp
  BY CodeType DEF IInv
<1> QED
  BY <1>1, <1>2 DEF CodesSound, KnownWereIssued, Known

\* Steps that store no code: the codes are known, every request that is not
\* as it was is sound anew and mails nothing, and what is used is gone.
LEMMA NoNewCode ==
  ASSUME IInv, CodesSound, TypeOK',
         otps' \subseteq otps, mailed \subseteq mailed', issued' = issued,
         \A o \in mailed' : Known(o),
         \A q \in Processes : requests'[q] # None =>
           \/ requests'[q] = requests[q]
           \/ VerificationSound(requests[q])' /\ "mail" \notin requests'[q].calls,
         \A n \in used' : n \in used \/ (n <= issued /\ \A o \in otps' : o.otp # n)
  PROVE  CodesSound'
<1>1. \A o : Known(o)' => Known(o)
  BY DEF Known, AboutToMail
<1>2. NumbersIdentify'
  BY <1>1 DEF CodesSound, NumbersIdentify
<1>3. KnownWereIssued'
  BY <1>1 DEF CodesSound, KnownWereIssued
<1>4. OneCodeEach'
  BY DEF CodesSound, OneCodeEach
<1>5. VerificationsSound'
  <2>1. ASSUME NEW q \in Processes, requests'[q] # None, requests'[q] = requests[q]
        PROVE  VerificationSound(requests[q])'
    <3>1. VerificationSound(requests[q])
      BY <2>1 DEF CodesSound, VerificationsSound
    <3> QED
      BY <2>1, <3>1 DEF VerificationSound, Code
  <2> QED
    BY <2>1 DEF VerificationsSound
<1>6. UsedWereIssued'
  BY DEF CodesSound, UsedWereIssued
<1>7. UsedCodesAreGone'
  BY DEF CodesSound, UsedCodesAreGone
<1> QED
  BY <1>2, <1>3, <1>4, <1>5, <1>6, <1>7 DEF CodesSound

\* The same for a step of one request.
LEMMA NoNewCodeOf ==
  ASSUME IInv, CodesSound, TypeOK', NEW p \in Processes,
         otps' \subseteq otps, mailed \subseteq mailed', issued' = issued,
         \A o \in mailed' : Known(o),
         \A q \in Processes \ {p} : requests'[q] = requests[q],
         requests'[p] # None =>
           VerificationSound(requests[p])' /\ "mail" \notin requests'[p].calls,
         \A n \in used' : n \in used \/ (n <= issued /\ \A o \in otps' : o.otp # n)
  PROVE  CodesSound'
BY NoNewCode

\* deleteOne removes the code of this address and cause: there is no other.
LEMMA DeleteOneGone ==
  ASSUME IInv, OneCodeEach, NEW e, NEW cause, DeleteOne(e, cause)
  PROVE  /\ otps' \subseteq otps
         /\ \A o \in otps' : ~ (o.email = e /\ o.cause = cause)
<1> DEFINE matching == {o \in otps : o.email = e /\ o.cause = cause}
<1>1. CASE matching = {}
  BY <1>1 DEF DeleteOne
<1>2. CASE matching # {}
  <2>1. PICK o \in matching : otps' = otps \ {o}
    BY <1>2 DEF DeleteOne
  <2> QED
    BY <2>1 DEF OneCodeEach
<1> QED
  BY <1>1, <1>2

LEMMA NewRequestCodes ==
  ASSUME IInv, CodesSound, TypeOK', NEW p \in Processes, NewRequest(p)
  PROVE  CodesSound'
<1>1. \E op, e, cause, found, otp, call :
        /\ Start(p, op, e, cause, found, otp, call)
        /\ call \notin Accepted \cup {"mail"}
        /\ call = "findOtp" => \E o \in mailed : o.otp = otp
  <2>1. PICK e \in Emails :
          \/ signup(p, e)
          \/ login(p, e)
          \/ findOrCreateOAuthUser(p, e)
          \/ \E cause \in OtpCause : resendOtp(p, e, cause)
          \/ \E cause \in OtpCause, o \in mailed : verifyOtp(p, e, cause, o.otp)
    BY DEF NewRequest
  <2>2. CASE signup(p, e)
    BY <2>2 DEF signup, Accepted
  <2>3. CASE login(p, e)
    BY <2>3 DEF login, Accepted
  <2>4. CASE findOrCreateOAuthUser(p, e)
    BY <2>4 DEF findOrCreateOAuthUser, Accepted
  <2>5. CASE \E cause \in OtpCause : resendOtp(p, e, cause)
    BY <2>5 DEF resendOtp, Accepted
  <2>6. CASE \E cause \in OtpCause, o \in mailed : verifyOtp(p, e, cause, o.otp)
    BY <2>6 DEF verifyOtp, Accepted
  <2> QED
    BY <2>1, <2>2, <2>3, <2>4, <2>5, <2>6
<1>2. PICK op, e, cause, found, otp, call :
        /\ Start(p, op, e, cause, found, otp, call)
        /\ call \notin Accepted \cup {"mail"}
        /\ call = "findOtp" => \E o \in mailed : o.otp = otp
  BY <1>1
<1>3. UNCHANGED <<otps, issued, mailed, used>>
  BY <1>2 DEF Start
<1>4. /\ requests'[p].calls = {call} /\ requests'[p].otp = otp
      /\ \A q \in Processes \ {p} : requests'[q] = requests[q]
  BY <1>2 DEF Start, IInv, TypeOK
<1>5. VerificationSound(requests[p])'
  BY <1>2, <1>3, <1>4 DEF VerificationSound, Accepted
<1>6. "mail" \notin requests'[p].calls
  BY <1>2, <1>4
<1> QED
  BY <1>3, <1>4, <1>5, <1>6, NoNewCodeOf DEF Known

\* The request ends, or has the call left that it makes next.
LEMMA NextCall ==
  ASSUME IInv, NEW p \in Processes, requests[p] # None
  PROVE  /\ requests' = Finish(p) =>
              /\ requests'[p] = None
              /\ \A q \in Processes \ {p} : requests'[q] = requests[q]
         /\ \A call : requests' = Then(p, call) =>
              /\ requests'[p].calls = {call}
              /\ \A q \in Processes \ {p} : requests'[q] = requests[q]
<1>1. requests \in [Processes -> Request \cup {None}] /\ requests[p] \in Request
  BY RunningRequest DEF IInv, TypeOK
<1> QED
  BY <1>1 DEF Finish, Then, Request

\* A request with one call left that is not about an accepted code.
LEMMA OtherCall ==
  ASSUME NEW p \in Processes, NEW call, requests'[p].calls = {call},
         call \notin Accepted \cup {"findOtp", "mail"}
  PROVE  VerificationSound(requests[p])' /\ "mail" \notin requests'[p].calls
BY DEF VerificationSound, Accepted

\* Calls that are not about codes.
LEMMA OtherCallCodes ==
  ASSUME IInv, CodesSound, TypeOK', NEW p \in Processes,
         \/ createUser(p)
         \/ touchOAuthUser(p)
         \/ createSessionAndGenerateToken(p)
         \/ Fail(p)
  PROVE  CodesSound'
<1>1. requests[p] # None
  BY DEF createUser, touchOAuthUser, createSessionAndGenerateToken, Fail, Calling
<1>2. UNCHANGED <<otps, issued, mailed, used>>
  BY DEF createUser, touchOAuthUser, createSessionAndGenerateToken, Fail
<1>3. CASE requests' = Finish(p)
  BY <1>1, <1>2, <1>3, NextCall, NoNewCodeOf DEF Known
<1>4. ASSUME NEW call \in {"session", "deleteOtp"}, requests'[p].calls = {call},
             \A q \in Processes \ {p} : requests'[q] = requests[q]
      PROVE  CodesSound'
  <2>1. VerificationSound(requests[p])' /\ "mail" \notin requests'[p].calls
    BY <1>4, OtherCall DEF Accepted
  <2> QED
    BY <1>2, <1>4, <2>1, NoNewCodeOf DEF Known
<1>5. CASE createUser(p)
  <2> DEFINE call == IF requests[p].op = "oauth" THEN "session" ELSE "deleteOtp"
  <2>1. requests \in [Processes -> Request \cup {None}] /\ requests[p] \in Request
    BY <1>1, RunningRequest DEF IInv, TypeOK
  <2>2. requests' = [requests EXCEPT ![p].id = created + 1, ![p].calls = {call}]
    BY <1>5 DEF createUser
  <2> HIDE DEF call
  <2>3. /\ requests'[p].calls = {call}
        /\ \A q \in Processes \ {p} : requests'[q] = requests[q]
    BY <2>1, <2>2 DEF Request
  <2>4. call \in {"session", "deleteOtp"}
    BY DEF call
  <2> QED
    BY <1>4, <2>3, <2>4
<1>6. CASE touchOAuthUser(p)
  <2>1. requests' = Finish(p) \/ requests' = Then(p, "session")
    BY <1>6 DEF touchOAuthUser
  <2> QED
    BY <1>1, <1>3, <1>4, <2>1, NextCall
<1> QED
  BY <1>3, <1>5, <1>6 DEF createSessionAndGenerateToken, Fail

LEMMA DeleteOtpCodes ==
  ASSUME IInv, CodesSound, TypeOK', NEW p \in Processes, deleteOtp(p)
  PROVE  CodesSound'
<1>1. requests[p] # None /\ requests' = Then(p, "createOtp")
  BY DEF deleteOtp, Calling
<1>2. otps' \subseteq otps /\ UNCHANGED <<issued, mailed, used>>
  BY DeleteOneGone DEF deleteOtp, CodesSound
<1>3. /\ requests'[p].calls = {"createOtp"}
      /\ \A q \in Processes \ {p} : requests'[q] = requests[q]
  BY <1>1, NextCall
<1>4. VerificationSound(requests[p])' /\ "mail" \notin requests'[p].calls
  BY <1>3, OtherCall DEF Accepted
<1> QED
  BY <1>2, <1>3, <1>4, NoNewCodeOf DEF Known

LEMMA SendEmailCodes ==
  ASSUME IInv, CodesSound, TypeOK', NEW p \in Processes, sendEmail(p)
  PROVE  CodesSound'
<1>1. requests[p] # None /\ AboutToMail(p)
  BY DEF sendEmail, Calling, AboutToMail
<1>2. UNCHANGED <<otps, issued, used>> /\ mailed \subseteq mailed'
  BY DEF sendEmail
<1>3. \A o \in mailed' : Known(o)
  BY <1>1 DEF sendEmail, Known, Code
<1>4. requests' = Finish(p) \/ requests' = Then(p, "session")
  BY DEF sendEmail
<1>5. requests'[p] # None =>
        VerificationSound(requests[p])' /\ "mail" \notin requests'[p].calls
  <2>1. requests'[p] # None => requests'[p].calls = {"session"}
    BY <1>1, <1>4, NextCall
  <2> QED
    BY <2>1, OtherCall DEF Accepted
<1>6. \A q \in Processes \ {p} : requests'[q] = requests[q]
  BY <1>1, <1>4, NextCall
<1> QED
  BY <1>2, <1>3, <1>5, <1>6, NoNewCodeOf

\* The code that was typed was mailed and is stored for the address and the
\* cause: by its number it is the code that was mailed for them.
LEMMA FindOtpCodes ==
  ASSUME IInv, CodesSound, TypeOK', NEW p \in Processes, findOtp(p)
  PROVE  CodesSound'
<1> DEFINE r == requests[p]
           calls == IF r.cause = "email_verification" THEN {"verifyUser", "deleteUsedOtp"}
                    ELSE {"deleteUsedOtp"}
<1>1. r # None /\ "findOtp" \in r.calls /\ r \in Request
  BY RunningRequest DEF findOtp, Calling, IInv
<1>2. UNCHANGED <<otps, issued, mailed, used>>
  BY DEF findOtp
<1>3. CASE requests' = Finish(p)
  BY <1>1, <1>2, <1>3, NextCall, NoNewCodeOf DEF Known
<1>4. ASSUME NEW o \in OtpRecords(r), o.otp = r.otp,
             requests' = [requests EXCEPT ![p].calls = calls]
      PROVE  CodesSound'
  <2>1. o \in otps /\ o \in Otp /\ o.email = r.email /\ o.cause = r.cause
    BY CodeNumbers DEF OtpRecords, IInv
  <2>2. PICK m \in mailed : m.otp = r.otp
    BY <1>1 DEF CodesSound, VerificationsSound, VerificationSound
  <2>3. m = o
    BY <1>4, <2>1, <2>2, CodeNumbers DEF CodesSound, NumbersIdentify, Known, IInv
  <2>4. Code(r) = o
    BY <1>4, <2>1 DEF Code, Otp
  <2>5. requests \in [Processes -> Request \cup {None}]
    BY DEF IInv, TypeOK
  <2> HIDE DEF calls
  <2>6. /\ requests'[p].email = r.email /\ requests'[p].cause = r.cause
        /\ requests'[p].otp = r.otp /\ requests'[p].calls = calls
        /\ \A q \in Processes \ {p} : requests'[q] = requests[q]
    BY <1>1, <1>4, <2>5 DEF Request
  <2>7. Code(requests'[p]) \in mailed'
    BY <1>2, <2>2, <2>3, <2>4, <2>6 DEF Code
  <2>8. /\ calls \subseteq {"verifyUser", "deleteUsedOtp"} /\ "deleteUsedOtp" \in calls
        /\ "verifyUser" \in calls => r.cause = "email_verification"
    BY DEF calls
  <2>9. VerificationSound(requests[p])' /\ "mail" \notin requests'[p].calls
    BY <2>6, <2>7, <2>8 DEF VerificationSound, Verifying
  <2> QED
    BY <1>2, <2>6, <2>9, NoNewCodeOf DEF Known
<1> QED
  BY <1>3, <1>4 DEF findOtp

\* The requests that go on after a call of verifyOtp returned.
LEMMA DoneSound ==
  ASSUME IInv, CodesSound, NEW p \in Processes, requests[p] # None,
         NEW call \in {"verifyUser", "deleteUsedOtp"}, call \in requests[p].calls,
         requests'[p].email = requests[p].email, requests'[p].cause = requests[p].cause,
         requests'[p].otp = requests[p].otp,
         requests'[p].calls = Done(requests[p], call).calls,
         otps' \subseteq otps, mailed' = mailed,
         call = "deleteUsedOtp" \/ "deleteUsedOtp" \notin requests[p].calls =>
           \A o \in otps' : o.otp # requests[p].otp
  PROVE  VerificationSound(requests[p])' /\ "mail" \notin requests'[p].calls
<1> DEFINE r == requests[p]
           left == IF r.calls = {call} THEN {"sign"} ELSE r.calls \ {call}
<1>1. /\ r \in Request /\ VerificationSound(r)
  BY RunningRequest DEF IInv, CodesSound, VerificationsSound
<1>2. r.calls \subseteq Verifying /\ Code(r) \in mailed
  BY <1>1 DEF VerificationSound, Verifying, Accepted
<1>3. requests'[p].calls = left
  BY <1>1 DEF Done, Request
<1>4. /\ call = "verifyUser" =>
           \/ left = {"sign"} /\ "deleteUsedOtp" \notin r.calls
           \/ left = {"deleteUsedOtp"}
      /\ call = "deleteUsedOtp" => left = {"sign"} \/ (left = {"verifyUser"} /\ "verifyUser" \in r.calls)
  BY <1>2 DEF Verifying
<1> HIDE DEF left
<1>5. Code(requests'[p]) \in mailed'
  BY <1>2 DEF Code
<1>6. CASE left = {"sign"}
  <2>1. \A o \in otps' : o.otp # requests'[p].otp
    BY <1>4, <1>6
  <2> QED
    BY <1>3, <1>5, <1>6, <2>1 DEF VerificationSound, Accepted, Verifying
<1>7. CASE left = {"deleteUsedOtp"}
  BY <1>3, <1>5, <1>7 DEF VerificationSound, Accepted, Verifying
<1>8. CASE left = {"verifyUser"} /\ "verifyUser" \in r.calls /\ call = "deleteUsedOtp"
  <2>1. \A o \in otps' : o.otp # requests'[p].otp
    BY <1>8
  <2>2. requests'[p].cause = "email_verification"
    BY <1>1, <1>8 DEF VerificationSound
  <2> QED
    BY <1>3, <1>5, <1>8, <2>1, <2>2 DEF VerificationSound, Accepted, Verifying
<1> QED
  BY <1>4, <1>6, <1>7, <1>8

LEMMA VerifyUserCodes ==
  ASSUME IInv, CodesSound, TypeOK', NEW p \in Processes, verifyUser(p)
  PROVE  CodesSound'
<1> DEFINE r == requests[p]
           done == Done(r, "verifyUser")
<1>1. /\ r # None /\ "verifyUser" \in r.calls /\ r \in Request /\ done \in Request
      /\ requests \in [Processes -> Request \cup {None}]
  BY RunningRequest, DoneType DEF verifyUser, Calling, IInv, TypeOK
<1>2. UNCHANGED <<otps, issued, mailed, used>>
  BY DEF verifyUser
<1>3. done.email = r.email /\ done.cause = r.cause /\ done.otp = r.otp
  BY <1>1 DEF Done, Request
<1> HIDE DEF done
<1>4. /\ requests'[p].email = r.email /\ requests'[p].cause = r.cause
      /\ requests'[p].otp = r.otp /\ requests'[p].calls = done.calls
      /\ \A q \in Processes \ {p} : requests'[q] = requests[q]
  <2>1. CASE requests' = [requests EXCEPT ![p] = [done EXCEPT !.id = None]]
    BY <1>1, <1>3, <2>1 DEF Request
  <2>2. ASSUME NEW u, requests' = [requests EXCEPT ![p] =
                        [done EXCEPT !.id = u, !.session = users[u].activeSessionId]]
        PROVE  /\ requests'[p].email = r.email /\ requests'[p].cause = r.cause
               /\ requests'[p].otp = r.otp /\ requests'[p].calls = done.calls
               /\ \A q \in Processes \ {p} : requests'[q] = requests[q]
    BY <1>1, <1>3, <2>2 DEF Request
  <2> QED
    BY <2>1, <2>2 DEF verifyUser, done
<1>5. "deleteUsedOtp" \notin r.calls => \A o \in otps' : o.otp # r.otp
  <2>1. VerificationSound(r) /\ r.calls \cap Accepted # {}
    BY <1>1 DEF CodesSound, VerificationsSound, Accepted
  <2> QED
    BY <1>2, <2>1 DEF VerificationSound
<1>6. VerificationSound(requests[p])' /\ "mail" \notin requests'[p].calls
  BY <1>1, <1>2, <1>4, <1>5, DoneSound DEF done
<1> QED
  BY <1>2, <1>4, <1>6, NoNewCodeOf DEF Known

\* The code that is deleted is the accepted one, or the one that replaced it.
LEMMA DeleteUsedOtpCodes ==
  ASSUME IInv, CodesSound, TypeOK', NEW p \in Processes, deleteUsedOtp(p)
  PROVE  CodesSound'
<1> DEFINE r == requests[p]
<1>1. /\ r # None /\ "deleteUsedOtp" \in r.calls /\ r \in Request
      /\ requests \in [Processes -> Request \cup {None}]
  BY RunningRequest DEF deleteUsedOtp, Calling, IInv, TypeOK
<1>2. /\ otps' \subseteq otps /\ UNCHANGED <<issued, mailed, used>>
      /\ \A o \in otps' : ~ (o.email = r.email /\ o.cause = r.cause)
  BY DeleteOneGone DEF deleteUsedOtp, DeleteUsed, CodesSound
<1>3. \A o \in otps' : o.otp # r.otp
  <2>1. Known(Code(r)) /\ Code(r) \in Otp
    BY <1>1, AcceptedWereIssued, CodeType DEF Accepted, IInv
  <2>2. ASSUME NEW o \in otps', o.otp = r.otp
        PROVE  FALSE
    <3>1. o \in Otp /\ Known(o)
      BY <1>2, CodeNumbers DEF Known, IInv
    <3>2. o = Code(r)
      BY <1>1, <2>1, <2>2, <3>1, CodeType DEF CodesSound, NumbersIdentify, IInv
    <3> QED
      BY <1>1, <1>2, <3>2, CodeType DEF IInv
  <2> QED
    BY <2>2
<1>4. /\ requests'[p] = Done(r, "deleteUsedOtp")
      /\ \A q \in Processes \ {p} : requests'[q] = requests[q]
  BY <1>1 DEF deleteUsedOtp
<1>5. /\ requests'[p].email = r.email /\ requests'[p].cause = r.cause
      /\ requests'[p].otp = r.otp
  BY <1>1, <1>4 DEF Done, Request
<1>6. VerificationSound(requests[p])' /\ "mail" \notin requests'[p].calls
  BY <1>1, <1>2, <1>3, <1>4, <1>5, DoneSound
<1> QED
  BY <1>2, <1>4, <1>6, NoNewCodeOf DEF Known

LEMMA GenerateTokenCodes ==
  ASSUME IInv, CodesSound, TypeOK', NEW p \in Processes, generateTokenWithJti(p)
  PROVE  CodesSound'
<1> DEFINE r == requests[p]
<1>1. r # None /\ "sign" \in r.calls /\ requests' = Finish(p)
  BY DEF generateTokenWithJti, Calling
<1>2. UNCHANGED <<otps, issued, mailed>> /\ used' = used \cup {r.otp}
  BY DEF generateTokenWithJti
<1>3. r.otp <= issued
  BY <1>1, AcceptedWereIssued DEF Accepted
<1>4. \A o \in otps : o.otp # r.otp
  <2>1. VerificationSound(r)
    BY <1>1 DEF CodesSound, VerificationsSound
  <2> QED
    BY <1>1, <2>1 DEF VerificationSound, Accepted
<1>5. requests'[p] = None /\ \A q \in Processes \ {p} : requests'[q] = requests[q]
  BY <1>1, NextCall
<1>6. \A n \in used' : n \in used \/ (n <= issued /\ \A o \in otps' : o.otp # n)
  BY <1>2, <1>3, <1>4
<1> QED
  BY <1>2, <1>5, <1>6, NoNewCodeOf DEF Known

\* A new code has a new number, and the unique index refuses it while
\* another code for the address and the cause is stored.
LEMMA CreateOtpCodes ==
  ASSUME IInv, CodesSound, TypeOK', NEW p \in Processes, createOtp(p)
  PROVE  CodesSound'
<1> DEFINE r == requests[p]
           n == issued + 1
           c == [email |-> r.email, cause |-> r.cause, otp |-> n]
<1>1. /\ r # None /\ r \in Request /\ r.email \in Emails /\ r.cause \in OtpCause
      /\ requests \in [Processes -> Request \cup {None}]
  BY RunningRequest DEF createOtp, Calling, IInv, TypeOK
<1>2. n \in Nat /\ issued \in Nat /\ n > issued
  BY CodeNumbers DEF IInv
<1>3. c \in Otp /\ c.email = r.email /\ c.cause = r.cause /\ c.otp = n
  BY <1>1, <1>2 DEF Otp
<1>4. /\ issued' = n /\ otps' = otps \cup {c} /\ UNCHANGED <<mailed, used>>
      /\ requests' = [requests EXCEPT ![p].otp = n, ![p].calls = {"mail"}]
      /\ UniqueOtp(r.email, r.cause)
  BY DEF createOtp
<1> HIDE DEF c
<1>5. /\ requests'[p].email = r.email /\ requests'[p].cause = r.cause
      /\ requests'[p].otp = n /\ requests'[p].calls = {"mail"}
      /\ \A q \in Processes \ {p} : requests'[q] = requests[q]
  BY <1>1, <1>4 DEF Request
<1>6. Code(requests'[p]) = c
  BY <1>5 DEF Code, c
<1>7. ASSUME NEW o, Known(o)'
      PROVE  Known(o) \/ o = c
  <2>1. CASE o \in otps' \/ o \in mailed'
    BY <1>4, <2>1 DEF Known
  <2>2. CASE \E q \in Processes : AboutToMail(q)' /\ o = Code(requests'[q])
    <3>1. PICK q \in Processes : AboutToMail(q)' /\ o = Code(requests'[q])
      BY <2>2
    <3>2. CASE q = p
      BY <1>6, <3>1, <3>2
    <3>3. CASE q # p
      BY <1>5, <3>1, <3>3 DEF Known, AboutToMail
    <3> QED
      BY <3>2, <3>3
  <2>3. \/ o \in otps' \/ o \in mailed'
        \/ \E q \in Processes : AboutToMail(q)' /\ o = Code(requests'[q])
    BY <1>7 DEF Known, Code
  <2> QED
    BY <2>1, <2>2, <2>3
<1>8. \A o \in Otp : Known(o) => o.otp <= issued /\ o.otp \in Nat
  BY CodeNumbers DEF CodesSound, KnownWereIssued, IInv
<1>9. NumbersIdentify'
  <2>1. ASSUME NEW o1 \in Otp, NEW o2 \in Otp, Known(o1)', Known(o2)', o1.otp = o2.otp
        PROVE  o1 = o2
    <3>1. (Known(o1) \/ o1 = c) /\ (Known(o2) \/ o2 = c)
      BY <1>7, <2>1
    <3>2. CASE Known(o1) /\ Known(o2)
      BY <2>1, <3>2 DEF CodesSound, NumbersIdentify
    <3>3. CASE o1 = c \/ o2 = c
      BY <1>2, <1>3, <1>8, <2>1, <3>1, <3>3
    <3> QED
      BY <3>1, <3>2, <3>3
  <2> QED
    BY <2>1 DEF NumbersIdentify
<1>10. KnownWereIssued'
  <2>1. ASSUME NEW o \in Otp, Known(o)'
        PROVE  o.otp <= issued'
    BY <1>2, <1>3, <1>4, <1>7, <1>8, <2>1
  <2> QED
    BY <2>1 DEF KnownWereIssued
<1>11. OneCodeEach'
  BY <1>3, <1>4 DEF OneCodeEach, CodesSound, UniqueOtp
<1>12. VerificationsSound'
  <2>1. VerificationSound(requests[p])'
    BY <1>5 DEF VerificationSound, Accepted, Verifying
  <2>2. ASSUME NEW q \in Processes \ {p}, requests'[q] # None
        PROVE  VerificationSound(requests[q])'
    <3>1. requests'[q] = requests[q] /\ VerificationSound(requests[q])
      BY <1>5, <2>2 DEF CodesSound, VerificationsSound
    <3>2. requests[q].calls \cap Accepted # {} => requests[q].otp # n
      <4>1. requests[q].calls \cap Accepted # {} => requests[q].otp <= issued
        BY <2>2, <3>1, AcceptedWereIssued
      <4>2. requests[q].otp \in Nat
        BY <2>2, <3>1, RunningRequest DEF IInv
      <4> QED
        BY <1>2, <4>1, <4>2
    <3>3. Code(requests'[q]) \in mailed' <=> Code(requests[q]) \in mailed
      BY <1>4, <3>1
    <3> QED
      BY <1>3, <1>4, <3>1, <3>2, <3>3 DEF VerificationSound
  <2> QED
    BY <2>1, <2>2 DEF VerificationsSound
<1>13. used \subseteq Nat /\ \A m \in used : m <= issued
  BY CodeNumbers DEF CodesSound, UsedWereIssued, IInv
<1>14. UsedWereIssued'
  BY <1>2, <1>4, <1>13 DEF UsedWereIssued
<1>15. UsedCodesAreGone'
  BY <1>2, <1>3, <1>4, <1>13 DEF CodesSound, UsedCodesAreGone
<1> QED
  BY <1>9, <1>10, <1>11, <1>12, <1>14, <1>15 DEF CodesSound

LEMMA BesideCodes ==
  ASSUME IInv, CodesSound, TypeOK',
         \/ \E o \in otps : expire(o)
         \/ \E u \in Ids, status \in {"ACTIVE", "SUSPENDED"} : updateUserStatus(u, status)
         \/ \E u \in Ids : deleteUser(u)
  PROVE  CodesSound'
<1>1. otps' \subseteq otps /\ UNCHANGED <<requests, issued, mailed, used>>
  BY DEF expire, updateUserStatus, deleteUser
<1> QED
  BY <1>1, NoNewCode DEF Known

LEMMA NextCodes ==
  ASSUME IInv, CodesSound, [Next]_vars
  PROVE  CodesSound'
<1>1. TypeOK'
  BY NextTypeOK DEF IInv
<1>2. ASSUME NEW p \in Processes, Call(p)
      PROVE  CodesSound'
  BY <1>1, <1>2, OtherCallCodes, DeleteOtpCodes, CreateOtpCodes, SendEmailCodes, FindOtpCodes,
     VerifyUserCodes, DeleteUsedOtpCodes, GenerateTokenCodes DEF Call
<1>3. ASSUME UNCHANGED vars
      PROVE  CodesSound'
  BY <1>1, <1>3, NoNewCode DEF vars, Known
<1> QED
  BY <1>1, <1>2, <1>3, NewRequestCodes, BesideCodes DEF Next

-----------------------------------------------------------------------------
(* What the codes serve for.                                               *)

Proven(u) == users[u] # None /\ users[u].strategy = "local" /\ users[u].isVerified

\* Accounts that are verified, and stay so.
LEMMA NoNewVerification ==
  ASSUME CodesServeTheirPurpose, mailed \subseteq mailed', resettable' = resettable,
         \A u \in Ids : Proven(u)' => Proven(u) /\ users'[u].email = users[u].email
  PROVE  CodesServeTheirPurpose'
BY DEF CodesServeTheirPurpose, Proven

LEMMA NextPurpose ==
  ASSUME IInv, CodesSound, CodesServeTheirPurpose, [Next]_vars
  PROVE  CodesServeTheirPurpose'
<1>1. users \in [Ids -> User \cup {None}]
  BY DEF IInv, TypeOK
<1> DEFINE Keeps == \A u \in Ids : Proven(u)' => Proven(u) /\ users'[u].email = users[u].email
<1>2. users' = users => Keeps
  BY DEF Proven
<1>3. ASSUME NEW p \in Processes, NewRequest(p)
      PROVE  CodesServeTheirPurpose'
  <2>1. UNCHANGED <<users, mailed, resettable>>
    BY <1>3 DEF NewRequest, signup, login, findOrCreateOAuthUser, resendOtp, verifyOtp, Start
  <2> QED
    BY <1>2, <2>1, NoNewVerification
<1>4. ASSUME NEW p \in Processes,
             \/ deleteOtp(p) \/ createOtp(p) \/ sendEmail(p) \/ touchOAuthUser(p)
             \/ findOtp(p) \/ deleteUsedOtp(p) \/ Fail(p)
      PROVE  CodesServeTheirPurpose'
  <2>1. UNCHANGED <<users, resettable>> /\ mailed \subseteq mailed'
    BY <1>4 DEF deleteOtp, createOtp, sendEmail, touchOAuthUser, findOtp, deleteUsedOtp, Fail
  <2> QED
    BY <1>2, <2>1, NoNewVerification
<1>5. ASSUME NEW p \in Processes, createUser(p)
      PROVE  CodesServeTheirPurpose'
  <2> DEFINE n == created + 1
             oauth == requests[p].op = "oauth"
             account == [email |-> requests[p].email,
                         strategy |-> IF oauth THEN "oauth" ELSE "local",
                         isVerified |-> oauth,
                         status |-> "ACTIVE", activeSessionId |-> NoSession]
  <2>1. users' = [users EXCEPT ![n] = account] /\ UNCHANGED <<mailed, resettable>>
    BY <1>5 DEF createUser
  <2>2. ~ (account.strategy = "local" /\ account.isVerified)
    OBVIOUS
  <2> HIDE DEF account
  <2>3. Keeps
    BY <1>1, <2>1, <2>2 DEF Proven
  <2> QED
    BY <2>1, <2>3, NoNewVerification
<1>6. ASSUME NEW p \in Processes, createSessionAndGenerateToken(p)
      PROVE  CodesServeTheirPurpose'
  <2>1. users' = [users EXCEPT ![requests[p].id] =
                    StoreSession(users[requests[p].id], sessions + 1)]
    BY <1>6 DEF createSessionAndGenerateToken
  <2>2. UNCHANGED <<mailed, resettable>>
    BY <1>6 DEF createSessionAndGenerateToken
  <2>3. Keeps
    <3>1. ASSUME NEW u \in Ids, Proven(u)'
          PROVE  Proven(u) /\ users'[u].email = users[u].email
      <4>1. CASE u = requests[p].id /\ users[u] # None
        <5>1. users'[u] = [users[u] EXCEPT !.activeSessionId = sessions + 1]
          BY <1>1, <2>1, <4>1 DEF StoreSession
        <5>2. users[u] \in User
          BY <1>1, <4>1
        <5>3. /\ users'[u].email = users[u].email /\ users'[u].strategy = users[u].strategy
              /\ users'[u].isVerified = users[u].isVerified
          BY <5>1, <5>2 DEF User
        <5> QED
          BY <3>1, <4>1, <5>3 DEF Proven
      <4>2. CASE u = requests[p].id /\ users[u] = None
        BY <1>1, <2>1, <3>1, <4>2 DEF Proven, StoreSession
      <4>3. CASE u # requests[p].id
        BY <1>1, <2>1, <3>1, <4>3 DEF Proven
      <4> QED
        BY <4>1, <4>2, <4>3
    <3> QED
      BY <3>1
  <2> QED
    BY <2>2, <2>3, NoNewVerification
\* The code was accepted for the address of the account that is updated.
<1>7. ASSUME NEW p \in Processes, verifyUser(p)
      PROVE  CodesServeTheirPurpose'
  <2> DEFINE r == requests[p]
  <2>1. r # None /\ "verifyUser" \in r.calls
    BY <1>7 DEF verifyUser, Calling
  <2>2. Code(r) \in mailed /\ r.cause = "email_verification"
    BY <2>1 DEF CodesSound, VerificationsSound, VerificationSound, Accepted
  <2>3. Code(r).email = r.email /\ Code(r).cause = r.cause
    BY <2>1, CodeType DEF IInv
  <2>4. UNCHANGED <<mailed, resettable>>
    BY <1>7 DEF verifyUser
  <2>5. CASE users' = users
    BY <1>2, <2>4, <2>5, NoNewVerification
  <2>6. ASSUME NEW u \in WithEmail(r.email), users' = [users EXCEPT ![u] = VerifiedUser(@, r)]
        PROVE  CodesServeTheirPurpose'
    <3>1. u \in Ids /\ users[u] # None /\ users[u].email = r.email /\ users[u] \in User
      BY <1>1 DEF WithEmail
    <3>2. users'[u].email = r.email /\ \A v \in Ids \ {u} : users'[v] = users[v]
      BY <1>1, <2>6, <3>1 DEF VerifiedUser, User
    <3> QED
      BY <2>2, <2>3, <2>4, <3>2 DEF CodesServeTheirPurpose
  <2> QED
    BY <1>7, <2>5, <2>6 DEF verifyUser
\* A reset token is signed for the address the code was accepted for.
<1>8. ASSUME NEW p \in Processes, generateTokenWithJti(p)
      PROVE  CodesServeTheirPurpose'
  <2> DEFINE r == requests[p]
  <2>1. r # None /\ "sign" \in r.calls
    BY <1>8 DEF generateTokenWithJti, Calling
  <2>2. Code(r) \in mailed /\ r.cause \in OtpCause
    BY <2>1, RunningRequest DEF CodesSound, VerificationsSound, VerificationSound, Accepted, IInv
  <2>3. Code(r).email = r.email /\ Code(r).cause = r.cause
    BY <2>1, CodeType DEF IInv
  <2>4. UNCHANGED <<users, mailed>>
    BY <1>8 DEF generateTokenWithJti
  <2>5. CASE r.cause = "email_verification"
    <3>1. resettable' = resettable
      BY <1>8, <2>5 DEF generateTokenWithJti
    <3> QED
      BY <1>2, <2>4, <3>1, NoNewVerification
  <2>6. CASE r.cause = "forget_password"
    <3>1. resettable' = resettable \cup {r.email}
      BY <1>8, <2>6 DEF generateTokenWithJti
    <3> QED
      BY <2>2, <2>3, <2>4, <2>6, <3>1 DEF CodesServeTheirPurpose
  <2> QED
    BY <2>2, <2>5, <2>6 DEF OtpCause
<1>9. ASSUME \/ \E o \in otps : expire(o)
             \/ \E u \in Ids, status \in {"ACTIVE", "SUSPENDED"} : updateUserStatus(u, status)
             \/ \E u \in Ids : deleteUser(u)
      PROVE  CodesServeTheirPurpose'
  <2>1. UNCHANGED <<mailed, resettable>>
    BY <1>9 DEF expire, updateUserStatus, deleteUser
  <2>2. CASE \E o \in otps : expire(o)
    BY <1>2, <2>1, <2>2, NoNewVerification DEF expire
  <2>3. ASSUME NEW u \in Ids, NEW status, updateUserStatus(u, status)
        PROVE  Keeps
    <3>1. users[u] \in User /\ users' = [users EXCEPT ![u].status = status]
      BY <1>1, <2>3 DEF updateUserStatus
    <3>2. /\ users'[u].email = users[u].email /\ users'[u].strategy = users[u].strategy
          /\ users'[u].isVerified = users[u].isVerified
          /\ \A v \in Ids \ {u} : users'[v] = users[v]
      BY <1>1, <3>1 DEF User
    <3> QED
      BY <2>3, <3>2 DEF Proven, updateUserStatus
  <2>4. ASSUME NEW u \in Ids, deleteUser(u)
        PROVE  Keeps
    BY <1>1, <2>4 DEF deleteUser, Proven
  <2> HIDE DEF Keeps
  <2>5. CASE Keeps
    BY <2>1, <2>5, NoNewVerification DEF Keeps
  <2> QED
    BY <1>9, <2>2, <2>3, <2>4, <2>5
<1>10. ASSUME UNCHANGED vars
       PROVE  CodesServeTheirPurpose'
  BY <1>2, <1>10, NoNewVerification DEF vars
<1> QED
  BY <1>3, <1>4, <1>5, <1>6, <1>7, <1>8, <1>9, <1>10 DEF Next, Call

-----------------------------------------------------------------------------
(* The results.                                                            *)

LEMMA CodesInvAlways == Spec => []CodesInv
<1>1. Init => CodesInv
  <2>1. Init => IInv
    BY InitSound
  <2>2. Init => CodesSound
    BY UserAccountsAssumption
       DEF Init, CodesSound, NumbersIdentify, KnownWereIssued, OneCodeEach, VerificationsSound,
           UsedWereIssued, UsedCodesAreGone, Known, AboutToMail
  <2>3. Init => CodesServeTheirPurpose
    BY UserAccountsAssumption DEF Init, CodesServeTheirPurpose
  <2> QED
    BY <2>1, <2>2, <2>3 DEF CodesInv
<1>2. CodesInv /\ [Next]_vars => CodesInv'
  BY NextSound, NextCodes, NextPurpose DEF CodesInv
<1> QED
  BY <1>1, <1>2, PTL DEF Spec

\* What verifyOtp deletes by address and cause is the code it accepted or
\* the code that replaced it: a code serves once, whatever resends race it.
THEOREM CodesServeOnce == Spec => []UsedCodesAreGone
<1>1. CodesInv => UsedCodesAreGone
  BY DEF CodesInv, CodesSound
<1> QED
  BY <1>1, CodesInvAlways, PTL

\* An account is verified, and a reset token signed, only after a code for
\* this purpose was mailed to the address, for any number of addresses.
THEOREM CodesProveTheAddress == Spec => []CodesServeTheirPurpose
<1>1. CodesInv => CodesServeTheirPurpose
  BY DEF CodesInv
<1> QED
  BY <1>1, CodesInvAlways, PTL

=============================================================================

----------------------------- MODULE UserAccounts -----------------------------
(***************************************************************************)
(* Accounts, one-time passwords and sessions: sign-up, login, OAuth login, *)
(* verification and resend (UserAuthService), call by call, beside the     *)
(* expiry of one-time passwords and what administrators do to an account.  *)
(*                                                                         *)
(* A request is a sequence of calls to MongoDB and to the mail service; a  *)
(* step of the model is one call.  Two collections carry a unique index:   *)
(* users (email) and otps (email and cause).  A login works on one device: *)
(* a token names a session and is accepted while users.activeSessionId     *)
(* still is that session.                                                  *)
(*                                                                         *)
(* Passwords are not modelled: the login whose password is wrong changes   *)
(* nothing.  One-time passwords, sessions and users are numbered in the    *)
(* order they are stored.                                                  *)
(***************************************************************************)
EXTENDS Naturals, FiniteSets

CONSTANTS Emails,       \* addresses of users
          Processes,    \* requests that run at the same time
          MaxUsers,     \* bound on accounts created
          MaxOtps,      \* bound on one-time passwords stored
          MaxSessions,  \* bound on sessions
          None          \* no user or request

VARIABLES users,      \* the users collection
          otps,       \* the otps collection
          requests,   \* the running requests
          created,    \* how many accounts were created
          issued,     \* how many one-time passwords were stored
          sessions,   \* how many session identifiers were drawn
          tokens,     \* the access tokens returned
          mailed,     \* history: the one-time passwords that reached a mailbox
          used,       \* history: the one-time passwords of completed verifications
          resettable  \* history: the addresses for which a reset token was signed

vars == <<users, otps, requests, created, issued, sessions, tokens, mailed,
          used, resettable>>

Ids == 1 .. MaxUsers

\* activeSessionId that is not set, and the jti of a token without one.
NoSession == 0

OtpCause == {"email_verification", "forget_password"}

User == [email : Emails, strategy : {"local", "oauth"}, isVerified : BOOLEAN,
         status : {"ACTIVE", "SUSPENDED"}, activeSessionId : Nat]

Otp == [email : Emails, cause : OtpCause, otp : Nat]

Token == [sub : Ids, jti : Nat]

Calls == {"create", "deleteOtp", "createOtp", "mail", "session", "touch",
          "findOtp", "verifyUser", "deleteUsedOtp", "sign"}

\* id is the user the request has found or created, session the session that
\* user had when it was found or updated, calls what remains to be called
\* now, otp what was typed or generated.
Request == [op : {"signup", "login", "oauth", "verifyOtp", "resendOtp"},
            email : Emails, cause : OtpCause, id : Ids \cup {None},
            session : Nat, otp : Nat, calls : SUBSET Calls]

ASSUME UserAccountsAssumption ==
  /\ {MaxUsers, MaxOtps, MaxSessions} \subseteq Nat
  /\ None \notin User \cup Request \cup Ids

TypeOK ==
  /\ users \in [Ids -> User \cup {None}]
  /\ otps \subseteq Otp
  /\ requests \in [Processes -> Request \cup {None}]
  /\ created \in 0 .. MaxUsers
  /\ issued \in 0 .. MaxOtps
  /\ sessions \in Nat
  /\ tokens \subseteq Token
  /\ mailed \subseteq Otp
  /\ used \subseteq Nat
  /\ resettable \subseteq Emails

Init ==
  /\ users = [u \in Ids |-> None]
  /\ otps = {}
  /\ requests = [p \in Processes |-> None]
  /\ created = 0
  /\ issued = 0
  /\ sessions = 0
  /\ tokens = {}
  /\ mailed = {}
  /\ used = {}
  /\ resettable = {}

-----------------------------------------------------------------------------
(* Starts of requests.  A request that is refused after its first query    *)
(* changes nothing and is not a step.                                      *)

\* userRepo.findOne({ email })
WithEmail(e) == {u \in Ids : users[u] # None /\ users[u].email = e}

Start(p, op, e, cause, found, otp, call) ==
  /\ requests[p] = None
  /\ requests' = [requests EXCEPT ![p] =
       [op |-> op, email |-> e, cause |-> cause, id |-> found,
        session |-> IF found = None THEN NoSession ELSE users[found].activeSessionId,
        otp |-> otp, calls |-> {call}]]
  /\ UNCHANGED <<users, otps, created, issued, sessions, tokens, mailed, used,
                 resettable>>

\* No account with this address yet; hashing and the country come before
\* the account is created.
signup(p, e) ==
  /\ WithEmail(e) = {}
  /\ Start(p, "signup", e, "email_verification", None, 0, "create")

login(p, e) ==
  \E u \in WithEmail(e) :
    /\ users[u].strategy = "local"
    /\ users[u].status = "ACTIVE"
    /\ Start(p, "login", e, "email_verification", u, 0, "session")

findOrCreateOAuthUser(p, e) ==
  \/ /\ WithEmail(e) = {}
     /\ Start(p, "oauth", e, "email_verification", None, 0, "create")
  \/ \E u \in WithEmail(e) :
       /\ users[u].strategy = "oauth"
       /\ Start(p, "oauth", e, "email_verification", u, 0, "touch")

verifyOtp(p, e, cause, otp) ==
  \E u \in WithEmail(e) :
    /\ ~ (cause = "email_verification" /\ users[u].isVerified)
    /\ Start(p, "verifyOtp", e, cause, u, otp, "findOtp")

\* With cause forget_password also forgetPassword.
resendOtp(p, e, cause) ==
  \E u \in WithEmail(e) :
    /\ ~ (cause = "email_verification" /\ users[u].isVerified)
    /\ Start(p, "resendOtp", e, cause, u, 0, "deleteOtp")

-----------------------------------------------------------------------------
(* The calls.                                                              *)

Calling(p, call) ==
  /\ requests[p] # None
  /\ call \in requests[p].calls

Then(p, call) == [requests EXCEPT ![p].calls = {call}]

Finish(p) == [requests EXCEPT ![p] = None]

UniqueEmail(e) == WithEmail(e) = {}

\* userRepo.create, refused by the index when another request was faster.
\* OAuth accounts are created verified.
createUser(p) ==
  /\ Calling(p, "create")
  /\ LET r == requests[p] IN
       /\ UniqueEmail(r.email)
       /\ created < MaxUsers
       /\ created' = created + 1
       /\ users' = [users EXCEPT ![created + 1] =
            [email |-> r.email,
             strategy |-> IF r.op = "oauth" THEN "oauth" ELSE "local",
             isVerified |-> r.op = "oauth",
             status |-> "ACTIVE", activeSessionId |-> NoSession]]
       /\ requests' = [requests EXCEPT ![p].id = created + 1,
            ![p].calls = {IF r.op = "oauth" THEN "session" ELSE "deleteOtp"}]
  /\ UNCHANGED <<otps, issued, sessions, tokens, mailed, used, resettable>>

\* otpRepo.delete: deleteOne, which removes one document, if there is one.
DeleteOne(e, cause) ==
  LET matching == {o \in otps : o.email = e /\ o.cause = cause} IN
    IF matching = {} THEN otps' = otps
                     ELSE \E o \in matching : otps' = otps \ {o}

deleteOtp(p) ==
  /\ Calling(p, "deleteOtp")
  /\ DeleteOne(requests[p].email, requests[p].cause)
  /\ requests' = Then(p, "createOtp")
  /\ UNCHANGED <<users, created, issued, sessions, tokens, mailed, used, resettable>>

UniqueOtp(e, cause) == ~ \E o \in otps : o.email = e /\ o.cause = cause

createOtp(p) ==
  /\ Calling(p, "createOtp")
  /\ LET r == requests[p] IN
       /\ UniqueOtp(r.email, r.cause)
       /\ issued < MaxOtps
       /\ issued' = issued + 1
       /\ otps' = otps \cup
            {[email |-> r.email, cause |-> r.cause, otp |-> issued + 1]}
       /\ requests' = [requests EXCEPT ![p].otp = issued + 1, ![p].calls = {"mail"}]
  /\ UNCHANGED <<users, created, sessions, tokens, mailed, used, resettable>>

\* sendEmail never throws: a mail that three attempts could not deliver is
\* logged, and the request goes on.
sendEmail(p) ==
  /\ Calling(p, "mail")
  /\ LET r == requests[p] IN
       /\ mailed' \in {mailed, mailed \cup
                          {[email |-> r.email, cause |-> r.cause, otp |-> r.otp]}}
       /\ requests' = IF r.op = "signup" THEN Then(p, "session") ELSE Finish(p)
  /\ UNCHANGED <<users, otps, created, issued, sessions, tokens, used, resettable>>

\* The OAuth user is found and its activity updated, unless it was deleted
\* in between.
touchOAuthUser(p) ==
  /\ Calling(p, "touch")
  /\ requests' = IF users[requests[p].id] = None THEN Finish(p)
                                                 ELSE Then(p, "session")
  /\ UNCHANGED <<users, otps, created, issued, sessions, tokens, mailed, used,
                 resettable>>

\* A slip, for comparison: generateToken, whose session is not stored.
NotStored(d, jti) == d

StoreSession(d, jti) ==
  IF d = None THEN None ELSE [d EXCEPT !.activeSessionId = jti]

\* The end of signup, login and OAuth login: store a new session, sign a
\* token that names it.  findOneAndUpdate ignores a user who is gone.
createSessionAndGenerateToken(p) ==
  /\ Calling(p, "session")
  /\ sessions < MaxSessions
  /\ sessions' = sessions + 1
  /\ LET u == requests[p].id IN
       /\ users' = [users EXCEPT ![u] = StoreSession(@, sessions + 1)]
       /\ tokens' = tokens \cup {[sub |-> u, jti |-> sessions + 1]}
  /\ requests' = Finish(p)
  /\ UNCHANGED <<otps, created, issued, mailed, used, resettable>>

\* A slip, for comparison: any code mailed to the address will do.
AnyCause(r) == {o \in otps : o.email = r.email}

\* otpRepo.findOne({ email, cause })
OtpRecords(r) == {o \in otps : o.email = r.email /\ o.cause = r.cause}

\* The code must be the stored one.  Then a verification updates the user
\* and deletes the code at the same time (Promise.all); a reset deletes the
\* code first.
findOtp(p) ==
  /\ Calling(p, "findOtp")
  /\ LET r == requests[p] IN
       requests' =
         IF ~ \E o \in OtpRecords(r) : o.otp = r.otp
         THEN Finish(p)
         ELSE [requests EXCEPT ![p].calls =
                 IF r.cause = "email_verification"
                 THEN {"verifyUser", "deleteUsedOtp"}
                 ELSE {"deleteUsedOtp"}]
  /\ UNCHANGED <<users, otps, created, issued, sessions, tokens, mailed, used,
                 resettable>>

\* Calls made at the same time: the request goes on when all have returned.
Done(r, call) ==
  [r EXCEPT !.calls = IF @ = {call} THEN {"sign"} ELSE @ \ {call}]

\* A slip, for comparison: the session found at the beginning is written
\* back, instead of leaving the stored one alone.
WritesTheSessionBack(d, r) ==
  [d EXCEPT !.isVerified = TRUE, !.activeSessionId = r.session]

VerifiedUser(d, r) == [d EXCEPT !.isVerified = TRUE]

\* findOneAndUpdate by the address, which returns the user as updated, or
\* null when the account is gone.
verifyUser(p) ==
  /\ Calling(p, "verifyUser")
  /\ LET r == requests[p]
         found == WithEmail(r.email)
     IN \/ /\ found = {}
           /\ users' = users
           /\ requests' = [requests EXCEPT ![p] =
                [Done(r, "verifyUser") EXCEPT !.id = None]]
        \/ \E u \in found :
             /\ users' = [users EXCEPT ![u] = VerifiedUser(@, r)]
             /\ requests' = [requests EXCEPT ![p] =
                  [Done(r, "verifyUser") EXCEPT
                     !.id = u, !.session = users[u].activeSessionId]]
  /\ UNCHANGED <<otps, created, issued, sessions, tokens, mailed, used, resettable>>

\* A slip, for comparison: the code stays until it expires.
KeepOne(e, cause) == otps' = otps

DeleteUsed(e, cause) == DeleteOne(e, cause)

deleteUsedOtp(p) ==
  /\ Calling(p, "deleteUsedOtp")
  /\ DeleteUsed(requests[p].email, requests[p].cause)
  /\ requests' = [requests EXCEPT ![p] = Done(@, "deleteUsedOtp")]
  /\ UNCHANGED <<users, created, issued, sessions, tokens, mailed, used, resettable>>

\* A slip, for comparison: newUser?._id, without looking whether it is null.
NoNullCheck(r) == {[sub |-> r.id, jti |-> r.session]}

\* newUser is null when the account is gone, and the request throws.
TokenOf(r) == IF r.id = None THEN {} ELSE {[sub |-> r.id, jti |-> r.session]}

\* A verification returns a token for the session the user has: without one
\* when the sign-up has stored none (yet).  A reset returns a reset token.
generateTokenWithJti(p) ==
  /\ Calling(p, "sign")
  /\ LET r == requests[p] IN
       /\ used' = used \cup {r.otp}
       /\ IF r.cause = "email_verification"
          THEN /\ tokens' = tokens \cup TokenOf(r)
               /\ resettable' = resettable
          ELSE /\ tokens' = tokens
               /\ resettable' = resettable \cup {r.email}
  /\ requests' = Finish(p)
  /\ UNCHANGED <<users, otps, created, issued, sessions, mailed>>

\* A call fails (the database, the unique index) or the server restarts:
\* what the request has stored so far stays.
Fail(p) ==
  /\ requests[p] # None
  /\ requests' = Finish(p)
  /\ UNCHANGED <<users, otps, created, issued, sessions, tokens, mailed, used,
                 resettable>>

-----------------------------------------------------------------------------
(* Beside the requests.                                                    *)

\* MongoDB removes a one-time password 15 minutes after it was stored.
expire(o) ==
  /\ o \in otps
  /\ otps' = otps \ {o}
  /\ UNCHANGED <<users, requests, created, issued, sessions, tokens, mailed, used,
                 resettable>>

updateUserStatus(u, status) ==
  /\ users[u] # None
  /\ users' = [users EXCEPT ![u].status = status]
  /\ UNCHANGED <<otps, requests, created, issued, sessions, tokens, mailed, used,
                 resettable>>

deleteUser(u) ==
  /\ users[u] # None
  /\ users' = [users EXCEPT ![u] = None]
  /\ UNCHANGED <<otps, requests, created, issued, sessions, tokens, mailed, used,
                 resettable>>

\* People type codes that were mailed, to themselves or to somebody else.
NewRequest(p) ==
  \E e \in Emails :
    \/ signup(p, e)
    \/ login(p, e)
    \/ findOrCreateOAuthUser(p, e)
    \/ \E cause \in OtpCause : resendOtp(p, e, cause)
    \/ \E cause \in OtpCause, o \in mailed : verifyOtp(p, e, cause, o.otp)

Call(p) ==
  \/ createUser(p)
  \/ deleteOtp(p)
  \/ createOtp(p)
  \/ sendEmail(p)
  \/ touchOAuthUser(p)
  \/ createSessionAndGenerateToken(p)
  \/ findOtp(p)
  \/ verifyUser(p)
  \/ deleteUsedOtp(p)
  \/ generateTokenWithJti(p)
  \/ Fail(p)

Next ==
  \/ \E p \in Processes : NewRequest(p) \/ Call(p)
  \/ \E o \in otps : expire(o)
  \/ \E u \in Ids, status \in {"ACTIVE", "SUSPENDED"} : updateUserStatus(u, status)
  \/ \E u \in Ids : deleteUser(u)

Spec == Init /\ [][Next]_vars

-----------------------------------------------------------------------------

\* A one-time password whose verification has completed is never stored
\* again: what verifyOtp deletes by address and cause is the code it
\* accepted, or the code that has replaced it, whatever the resends do.
UsedCodesAreGone == \A o \in otps : o.otp \notin used

\* An account is verified, and a reset token signed, only after a code for
\* this purpose reached a mailbox of the address: a code for one cause or
\* one address never serves for another.
CodesServeTheirPurpose ==
  /\ \A u \in Ids :
       users[u] # None /\ users[u].strategy = "local" /\ users[u].isVerified =>
         \E o \in mailed : o.email = users[u].email /\ o.cause = "email_verification"
  /\ \A e \in resettable : \E o \in mailed : o.email = e /\ o.cause = "forget_password"

\* validateAndGetUser refuses a token for its session only when a later
\* session was stored: no login, sign-up or OAuth login hands out a token
\* whose session never was the account's.
TokensWereCurrent ==
  \A t \in tokens :
    t.jti # NoSession /\ users[t.sub] # None => t.jti <= users[t.sub].activeSessionId

\* The session stored last stays the account's session until a later one is
\* stored: no request that began before brings an older one back.
NewestSessionWins ==
  [][\A u \in Ids :
       users[u] # None /\ users'[u] # None =>
         users'[u].activeSessionId >= users[u].activeSessionId]_vars

===============================================================================

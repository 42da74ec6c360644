------------------------ MODULE InactiveUsersProofs ------------------------
(***************************************************************************)
(* Proofs about InactiveUsers, for every number of users and failures,     *)
(* every size of a page and every limit in days.                           *)
(***************************************************************************)
EXTENDS InactiveUsers, FiniteSetTheorems, WellFoundedInduction, TLAPS

-----------------------------------------------------------------------------
(* Types.                                                                  *)

\* Sets of users can be counted.
LEMMA UsersAreFinite ==
  ASSUME NEW S \in SUBSET Users
  PROVE  Cardinality(S) \in Nat
<1>1. NumUsers \in Int
  BY InactiveUsersAssumption
<1>2. IsFiniteSet(Users)
  BY <1>1, FS_Interval DEF Users
<1>3. IsFiniteSet(S)
  BY <1>2, FS_Subset
<1> QED
  BY <1>3, FS_CardinalityType

\* The number of pages, as Math.ceil computes it.
LEMMA PagesType ==
  ASSUME NEW n \in Nat
  PROVE  (n + BatchSize - 1) \div BatchSize \in Nat
BY InactiveUsersAssumption

LEMMA StatusUpdateType ==
  ASSUME TypeOK, NEW d \in User, NEW status \in UserStatus
  PROVE  statusUpdate(d, status) \in User
BY DEF TypeOK, User, statusUpdate

\* What everybody but the job does to one user.
LEMMA UserStepTypeOK ==
  ASSUME TypeOK, displaced' \subseteq Users, NEW u \in Users,
         \/ verifyOtp(u)
         \/ validateAndGetUser(u)
         \/ updateLastActivity(u)
         \/ resetPasswordWithToken(u)
         \/ \E status \in UserStatus : updateUserStatus(u, status)
         \/ deleteUser(u)
  PROVE  TypeOK'
<1>1. CASE verifyOtp(u)
  BY <1>1 DEF verifyOtp, TypeOK, User
<1>2. CASE validateAndGetUser(u)
  BY <1>2 DEF validateAndGetUser, TypeOK
<1>3. CASE updateLastActivity(u)
  BY <1>3 DEF updateLastActivity, TypeOK, User
<1>4. CASE resetPasswordWithToken(u)
  BY <1>4 DEF resetPasswordWithToken, TypeOK, User
<1>5. ASSUME NEW status \in UserStatus, updateUserStatus(u, status)
      PROVE  TypeOK'
  BY <1>5, StatusUpdateType DEF updateUserStatus, TypeOK
<1>6. CASE deleteUser(u)
  BY <1>6 DEF deleteUser, TypeOK
<1> QED
  BY <1>1, <1>2, <1>3, <1>4, <1>5, <1>6

\* A step of the job at one user of the page.
LEMMA ProcessTypeOK ==
  ASSUME TypeOK, displaced' \subseteq Users, NEW f, processSingleUser(f)
  PROVE  TypeOK'
<1>1. job \in Job /\ f \in job.data
  BY DEF TypeOK, processSingleUser, SuspendUser, MailUser, FailToSuspend, InTurn
<1>2. [job EXCEPT !.data = @ \ {f}] \in Job
  BY <1>1 DEF Job
<1>3. CASE SuspendUser(f)
  <2>1. f.id \in Users /\ job.startTime \in Nat
    BY <1>1 DEF Job, Found
  <2>2. users' \in [Users -> User \cup {None}]
    BY <1>3, <2>1 DEF SuspendUser, TypeOK, User, UserStatus
  <2> QED
    BY <1>2, <1>3, <2>2 DEF SuspendUser, TypeOK
<1>4. CASE MailUser(f)
  BY <1>2, <1>4 DEF MailUser, TypeOK
<1>5. CASE FailToSuspend(f)
  BY <1>2, <1>5 DEF FailToSuspend, TypeOK
<1> QED
  BY <1>3, <1>4, <1>5 DEF processSingleUser

LEMMA JobTypeOK ==
  ASSUME TypeOK, displaced' \subseteq Users, handleInactiveUsers
  PROVE  TypeOK'
<1>1. CASE StartJob
  <2>1. [startTime |-> now, page |-> FirstPage, found |-> FALSE, data |-> {},
         totalPages |-> None] \in Job
    BY DEF TypeOK, Job, FirstPage
  <2> QED
    BY <1>1, <2>1 DEF StartJob, TypeOK
<1>2. CASE FindPage
  <2> DEFINE S == Page(Matching(job.startTime), job.page)
  <2>1. job \in Job
    BY <1>2 DEF FindPage, TypeOK
  <2>2. S \subseteq {u \in Users : users[u] # None}
    BY DEF Page, Matching
  <2>3. \A u \in S : copy(u) \in Found
    BY <2>2 DEF copy, Found, TypeOK, User
  <2> HIDE DEF S
  <2>4. {copy(u) : u \in S} \in SUBSET Found
    BY <2>3
  <2>5. [job EXCEPT !.found = TRUE, !.data = {copy(u) : u \in S}] \in Job
    BY <2>1, <2>4 DEF Job
  <2>6. job' \in Job \cup {None}
    BY <1>2, <2>5 DEF FindPage, S
  <2> QED
    BY <1>2, <2>6 DEF FindPage, TypeOK
<1>3. CASE CountPages
  <2> DEFINE n == Cardinality(Matching(job.startTime))
  <2>1. n \in Nat
    BY UsersAreFinite DEF Matching
  <2> HIDE DEF n
  <2>2. (n + BatchSize - 1) \div BatchSize \in Nat
    BY <2>1, PagesType
  <2>3. job' = [job EXCEPT !.totalPages = (n + BatchSize - 1) \div BatchSize]
    BY <1>3 DEF CountPages, n
  <2>4. job \in Job
    BY <1>3 DEF CountPages, TypeOK
  <2>5. job' \in Job
    BY <2>2, <2>3, <2>4 DEF Job
  <2> QED
    BY <1>3, <2>5 DEF CountPages, TypeOK
<1>4. ASSUME NEW f \in job.data, processSingleUser(f)
      PROVE  TypeOK'
  BY <1>4, ProcessTypeOK
<1>5. CASE EndPage
  <2>1. job \in Job
    BY <1>5 DEF EndPage, TypeOK
  <2> DEFINE n == job.page + 1
  <2>2. n \in Nat \ {0}
    BY <2>1 DEF Job
  <2>3. job' \in {None, [job EXCEPT !.page = n, !.found = FALSE,
                                   !.totalPages = None]}
    BY <1>5 DEF EndPage, NextPage
  <2> HIDE DEF n
  <2>4. [job EXCEPT !.page = n, !.found = FALSE, !.totalPages = None] \in Job
    BY <2>1, <2>2 DEF Job
  <2> QED
    BY <1>5, <2>3, <2>4 DEF EndPage, TypeOK
<1> QED
  BY <1>1, <1>2, <1>3, <1>4, <1>5 DEF handleInactiveUsers

LEMMA NextTypeOK == TypeOK /\ [Next]_vars => TypeOK'
<1> SUFFICES ASSUME TypeOK, [Next]_vars
             PROVE  TypeOK'
  OBVIOUS
<1>0. displaced' \subseteq Users
  BY DEF Next, Watch, TypeOK, vars
<1>1. CASE signup
  <2>1. signups + 1 \in Users
    BY <1>1, InactiveUsersAssumption DEF signup, TypeOK, Users
  <2>2. [isVerified |-> FALSE, status |-> "ACTIVE", lastActivity |-> now,
         suspendedAt |-> None, suspensionReason |-> None] \in User
    BY DEF TypeOK, User, UserStatus
  <2>3. users' \in [Users -> User \cup {None}]
    BY <1>1, <2>1, <2>2 DEF signup, TypeOK
  <2>4. signups' \in 0 .. NumUsers
    BY <1>1, InactiveUsersAssumption DEF signup, TypeOK
  <2> QED
    BY <1>0, <1>1, <2>3, <2>4 DEF signup, TypeOK
<1>2. ASSUME NEW u \in Users,
             \/ verifyOtp(u)
             \/ validateAndGetUser(u)
             \/ updateLastActivity(u)
             \/ resetPasswordWithToken(u)
             \/ \E status \in UserStatus : updateUserStatus(u, status)
             \/ deleteUser(u)
      PROVE  TypeOK'
  BY <1>0, <1>2, UserStepTypeOK
<1>3. CASE Tick
  BY <1>0, <1>3 DEF Tick, TypeOK
<1>4. CASE handleInactiveUsers
  BY <1>0, <1>4, JobTypeOK
<1>5. CASE AbortJob
  BY <1>0, <1>5 DEF AbortJob, TypeOK
<1>6. CASE UNCHANGED vars
  BY <1>6 DEF vars, state, TypeOK
<1> QED
  BY <1>1, <1>2, <1>3, <1>4, <1>5, <1>6 DEF Next, Step

LEMMA InitTypeOK == Init => TypeOK
BY InactiveUsersAssumption DEF Init, TypeOK

\* What the job copies, writes and counts, and every user document, is well
\* formed, for every size of a page (processSingleUser, findWithPagination).
THEOREM InactiveUsersTypeCorrect == Spec => []TypeOK
BY InitTypeOK, NextTypeOK, PTL DEF Spec

-----------------------------------------------------------------------------
(* The invariant.                                                          *)

\* A user document whose dates lie in the past and fit together.
Sound(d) ==
  /\ d.lastActivity <= now
  /\ d.suspendedAt # None => d.suspendedAt <= now
  /\ (d.status = "ACTIVE") = (d.suspendedAt = None)
  /\ (d.status = "ACTIVE") = (d.suspensionReason = None)
  /\ d.suspensionReason = "inactive" =>
       \/ d.suspendedAt - d.lastActivity >= SuspendDays
       \/ d.lastActivity >= d.suspendedAt

AllSound == \A u \in Users : users[u] # None => Sound(users[u])

\* A user is as the job's copy says, or has come back since the run started.
Copied(f) ==
  users[f.id] # None =>
    \/ users[f.id].lastActivity = f.lastActivity
    \/ users[f.id].lastActivity >= job.startTime

JobSound ==
  job # None => /\ job.startTime <= now
                /\ \A f \in job.data : Copied(f)

IInv == TypeOK /\ AllSound /\ JobSound

LEMMA InitIInv == Init => IInv
BY InitTypeOK DEF Init, IInv, AllSound, JobSound

\* The documents written.
LEMMA NewUserSound ==
  ASSUME TypeOK
  PROVE  Sound([isVerified |-> FALSE, status |-> "ACTIVE", lastActivity |-> now,
                suspendedAt |-> None, suspensionReason |-> None])
BY InactiveUsersAssumption DEF Sound, TypeOK

LEMMA TouchedSound ==
  ASSUME TypeOK, NEW d \in User, Sound(d)
  PROVE  /\ [d EXCEPT !.lastActivity = now] \in User
         /\ Sound([d EXCEPT !.lastActivity = now])
<1> DEFINE e == [d EXCEPT !.lastActivity = now]
<1>1. /\ e \in User
      /\ e.lastActivity = now
      /\ e.status = d.status
      /\ e.suspendedAt = d.suspendedAt
      /\ e.suspensionReason = d.suspensionReason
  BY DEF User, TypeOK
<1>2. d.suspensionReason = "inactive" => d.suspendedAt \in Nat /\ d.suspendedAt <= now
  BY InactiveUsersAssumption DEF Sound, User
<1> HIDE DEF e
<1>3. Sound(e)
  BY <1>1, <1>2 DEF Sound, TypeOK
<1> QED
  BY <1>1, <1>3 DEF e

LEMMA VerifiedSound ==
  ASSUME TypeOK, NEW d \in User, Sound(d)
  PROVE  Sound([d EXCEPT !.isVerified = TRUE])
BY DEF Sound, User

LEMMA StatusUpdateSound ==
  ASSUME TypeOK, NEW d \in User, NEW status \in UserStatus, Sound(d)
  PROVE  /\ Sound(statusUpdate(d, status))
         /\ statusUpdate(d, status).lastActivity = d.lastActivity
BY InactiveUsersAssumption DEF Sound, User, UserStatus, statusUpdate, TypeOK

\* The job suspends from a copy that says the user is due.
LEMMA SuspendedSound ==
  ASSUME TypeOK, NEW d \in User, NEW f \in Found, job \in Job,
         Sound(d), job.startTime <= now, MustSuspend(f),
         d.lastActivity = f.lastActivity \/ d.lastActivity >= job.startTime
  PROVE  /\ Sound([d EXCEPT !.status = "SUSPENDED",
                            !.suspendedAt = job.startTime,
                            !.suspensionReason = "inactive"])
<1>1. job.startTime \in Nat /\ f.lastActivity \in Nat /\ d.lastActivity \in Nat
  BY DEF Job, Found, User
<1>2. job.startTime # None /\ "inactive" # None
  BY <1>1, InactiveUsersAssumption
<1> DEFINE e == [d EXCEPT !.status = "SUSPENDED",
                          !.suspendedAt = job.startTime,
                          !.suspensionReason = "inactive"]
<1>3. /\ e.lastActivity = d.lastActivity
      /\ e.status = "SUSPENDED"
      /\ e.suspendedAt = job.startTime
      /\ e.suspensionReason = "inactive"
  BY DEF User
<1>4. \/ job.startTime - d.lastActivity >= SuspendDays
      \/ d.lastActivity >= job.startTime
  BY <1>1 DEF MustSuspend
<1> HIDE DEF e
<1>5. Sound(e)
  BY <1>2, <1>3, <1>4 DEF Sound
<1> QED
  BY <1>5 DEF e

\* Writing one user keeps the invariant if the document is sound and either
\* keeps its date or gets today's.
LEMMA WriteUser ==
  ASSUME IInv, TypeOK', now' = now, job' = job,
         NEW u \in Users, NEW d \in User \cup {None},
         users' = [users EXCEPT ![u] = d],
         d # None => /\ Sound(d)
                     /\ \/ d.lastActivity = now
                        \/ users[u] # None /\ d.lastActivity = users[u].lastActivity
  PROVE  IInv'
<1>1. \A v \in Users : users'[v] = IF v = u THEN d ELSE users[v]
  BY DEF IInv, TypeOK
<1>2. AllSound'
  BY <1>1 DEF IInv, AllSound, Sound
<1>3. ASSUME job # None, NEW f \in job.data
      PROVE  Copied(f)'
  <2>1. f \in Found /\ f.id \in Users /\ Copied(f) /\ job.startTime <= now
    BY <1>3 DEF IInv, TypeOK, Job, Found, JobSound
  <2>2. CASE f.id = u
    BY <1>1, <2>1, <2>2 DEF Copied
  <2>3. CASE f.id # u
    BY <1>1, <2>1, <2>3 DEF Copied
  <2> QED
    BY <2>2, <2>3
<1>4. JobSound'
  BY <1>3 DEF IInv, JobSound
<1> QED
  BY <1>2, <1>4 DEF IInv

\* The steps of everybody but the job.
LEMMA UserStepIInv ==
  ASSUME IInv, TypeOK', NEW u \in Users,
         \/ verifyOtp(u)
         \/ validateAndGetUser(u)
         \/ updateLastActivity(u)
         \/ resetPasswordWithToken(u)
         \/ \E status \in UserStatus : updateUserStatus(u, status)
         \/ deleteUser(u)
  PROVE  IInv'
<1> DEFINE d == users[u]
<1>1. /\ TypeOK
      /\ d # None => d \in User /\ Sound(d)
  BY DEF IInv, TypeOK, AllSound
<1>2. CASE verifyOtp(u)
  <2> DEFINE e == [d EXCEPT !.isVerified = TRUE]
  <2>1. e \in User /\ e.lastActivity = d.lastActivity /\ Sound(e)
    BY <1>1, <1>2, VerifiedSound DEF verifyOtp, User
  <2>2. users' = [users EXCEPT ![u] = e] /\ now' = now /\ job' = job
    BY <1>2 DEF verifyOtp
  <2>3. users[u] # None
    BY <1>2 DEF verifyOtp
  <2> HIDE DEF e
  <2> QED
    BY <2>1, <2>2, <2>3, WriteUser
<1>3. CASE validateAndGetUser(u)
  BY <1>3 DEF validateAndGetUser, IInv, AllSound, Sound, JobSound, Copied
<1>4. CASE updateLastActivity(u)
  <2> DEFINE e == IF d = None THEN None ELSE [d EXCEPT !.lastActivity = now]
  <2>1. /\ e \in User \cup {None}
        /\ e # None => Sound(e) /\ e.lastActivity = now
    BY <1>1, TouchedSound DEF User
  <2>2. users' = [users EXCEPT ![u] = e] /\ now' = now /\ job' = job
    BY <1>4 DEF updateLastActivity
  <2> HIDE DEF e
  <2> QED
    BY <2>1, <2>2, WriteUser
<1>5. CASE resetPasswordWithToken(u)
  <2> DEFINE e == [d EXCEPT !.lastActivity = now]
  <2>1. e \in User /\ Sound(e) /\ e.lastActivity = now
    BY <1>1, <1>5, TouchedSound DEF User, resetPasswordWithToken
  <2>2. users' = [users EXCEPT ![u] = e] /\ now' = now /\ job' = job
    BY <1>5 DEF resetPasswordWithToken
  <2> HIDE DEF e
  <2> QED
    BY <2>1, <2>2, WriteUser
<1>6. ASSUME NEW status \in UserStatus, updateUserStatus(u, status)
      PROVE  IInv'
  <2> DEFINE e == statusUpdate(d, status)
  <2>1. users[u] # None
    BY <1>6 DEF updateUserStatus
  <2>2. e \in User /\ Sound(e) /\ e.lastActivity = d.lastActivity
    BY <1>1, <2>1, StatusUpdateType, StatusUpdateSound
  <2>3. users' = [users EXCEPT ![u] = e] /\ now' = now /\ job' = job
    BY <1>6 DEF updateUserStatus
  <2> HIDE DEF e
  <2> QED
    BY <2>1, <2>2, <2>3, WriteUser
<1>7. CASE deleteUser(u)
  <2>1. users' = [users EXCEPT ![u] = None] /\ now' = now /\ job' = job
    BY <1>7 DEF deleteUser
  <2> QED
    BY <2>1, WriteUser
<1> QED
  BY <1>2, <1>3, <1>4, <1>5, <1>6, <1>7

LEMMA SignupIInv ==
  ASSUME IInv, TypeOK', signup
  PROVE  IInv'
<1> DEFINE d == [isVerified |-> FALSE, status |-> "ACTIVE", lastActivity |-> now,
                 suspendedAt |-> None, suspensionReason |-> None]
<1>1. signups + 1 \in Users
  BY InactiveUsersAssumption DEF signup, IInv, TypeOK, Users
<1>2. d \in User /\ Sound(d) /\ d.lastActivity = now
  BY NewUserSound DEF IInv, TypeOK, User, UserStatus
<1>3. users' = [users EXCEPT ![signups + 1] = d] /\ now' = now /\ job' = job
  BY DEF signup
<1> HIDE DEF d
<1> QED
  BY <1>1, <1>2, <1>3, WriteUser

\* The clock only makes the past longer.
LEMMA TickIInv ==
  ASSUME IInv, TypeOK', Tick
  PROVE  IInv'
<1>1. ASSUME NEW u \in Users, users[u] # None
      PROVE  Sound(users[u])'
  <2>1. Sound(users[u]) /\ users[u] \in User /\ now \in Nat /\ now' = now + 1
    BY <1>1 DEF IInv, AllSound, TypeOK, Tick
  <2>2. users[u].lastActivity \in Nat /\ users[u].suspendedAt \in Nat \cup {None}
    BY <2>1 DEF User
  <2> QED
    BY <2>1, <2>2 DEF Sound, Tick
<1>2. AllSound'
  BY <1>1 DEF AllSound, Tick
<1>3. job # None => job.startTime <= now'
  BY DEF IInv, TypeOK, Job, JobSound, Tick
<1>4. JobSound'
  BY <1>3 DEF IInv, JobSound, Copied, Tick
<1> QED
  BY <1>2, <1>4 DEF IInv

\* Steps of the job that leave the users alone and copy nothing.
LEMMA JobOnly ==
  ASSUME IInv, TypeOK', users' = users, now' = now,
         job' # None => /\ job'.startTime <= now
                        /\ \/ job'.data = {}
                           \/ /\ job # None
                              /\ job'.startTime = job.startTime
                              /\ job'.data \subseteq job.data
  PROVE  IInv'
<1>1. AllSound'
  BY DEF IInv, AllSound, Sound
<1>2. JobSound'
  BY DEF IInv, JobSound, Copied
<1> QED
  BY <1>1, <1>2 DEF IInv

LEMMA FindPageIInv ==
  ASSUME IInv, TypeOK', FindPage
  PROVE  IInv'
<1> DEFINE S == Page(Matching(job.startTime), job.page)
<1>1. job \in Job /\ users' = users /\ now' = now
  BY DEF FindPage, IInv, TypeOK
<1>2. CASE S = {}
  BY <1>1, <1>2, JobOnly DEF FindPage
<1>3. CASE S # {}
  <2>1. job' = [job EXCEPT !.found = TRUE, !.data = {copy(u) : u \in S}]
    BY <1>3 DEF FindPage
  <2>2. job'.startTime = job.startTime /\ job'.data = {copy(u) : u \in S}
    BY <1>1, <2>1 DEF Job
  <2>3. \A f \in job'.data : Copied(f)'
    BY <1>1, <2>2 DEF Copied, copy
  <2>4. JobSound'
    BY <1>1, <2>2, <2>3 DEF IInv, JobSound, FindPage
  <2>5. AllSound'
    BY <1>1 DEF IInv, AllSound, Sound
  <2> QED
    BY <2>4, <2>5 DEF IInv
<1> QED
  BY <1>2, <1>3

LEMMA ProcessIInv ==
  ASSUME IInv, TypeOK', NEW f \in job.data, processSingleUser(f)
  PROVE  IInv'
<1>1. job \in Job /\ job # None
  BY DEF IInv, TypeOK, processSingleUser, SuspendUser, MailUser, FailToSuspend, InTurn
<1>2. f \in Found /\ f.id \in Users /\ Copied(f) /\ job.startTime <= now
  BY <1>1 DEF Job, Found, IInv, JobSound
<1>3. [job EXCEPT !.data = @ \ {f}].startTime = job.startTime
  BY <1>1 DEF Job
<1>4. [job EXCEPT !.data = @ \ {f}].data = job.data \ {f}
  BY <1>1 DEF Job
<1>5. CASE SuspendUser(f)
  <2> DEFINE d == users[f.id]
             e == [d EXCEPT !.status = "SUSPENDED",
                            !.suspendedAt = job.startTime,
                            !.suspensionReason = "inactive"]
  <2>1. users' = [users EXCEPT ![f.id] = IF d = None THEN None ELSE e]
    BY <1>5 DEF SuspendUser
  <2>2. now' = now /\ job' = [job EXCEPT !.data = @ \ {f}]
    BY <1>5 DEF SuspendUser
  <2>3. TypeOK /\ MustSuspend(f)
    BY <1>5 DEF IInv, SuspendUser
  <2>4. d # None => d \in User /\ Sound(d)
    BY <1>2, <2>3 DEF IInv, TypeOK, AllSound
  <2>5. d # None => Sound(e) /\ e.lastActivity = d.lastActivity
    <3> SUFFICES ASSUME d # None PROVE Sound(e) /\ e.lastActivity = d.lastActivity
      OBVIOUS
    <3>1. Sound(e)
      BY <1>1, <1>2, <2>3, <2>4, SuspendedSound DEF Copied
    <3>2. e.lastActivity = d.lastActivity
      BY <2>4 DEF User
    <3> QED
      BY <3>1, <3>2
  <2> HIDE DEF e
  <2>6. \A v \in Users : users'[v] = IF v = f.id
                                     THEN IF d = None THEN None ELSE e
                                     ELSE users[v]
    BY <1>2, <2>1, <2>3 DEF TypeOK
  <2>7. AllSound'
    BY <2>2, <2>5, <2>6 DEF IInv, AllSound, Sound
  <2>8. ASSUME NEW g \in job.data
        PROVE  Copied(g)'
    <3>1. Copied(g) /\ g.id \in Users
      BY <1>1 DEF IInv, JobSound, Job, Found
    <3>2. users'[g.id] # None =>
            users[g.id] # None /\ users'[g.id].lastActivity = users[g.id].lastActivity
      BY <2>5, <2>6, <3>1
    <3> QED
      BY <1>3, <2>2, <3>1, <3>2 DEF Copied
  <2>9. JobSound'
    BY <1>2, <1>3, <1>4, <2>2, <2>8 DEF JobSound
  <2> QED
    BY <2>7, <2>9 DEF IInv
<1>6. CASE MailUser(f)
  BY <1>1, <1>2, <1>3, <1>4, <1>6, JobOnly DEF MailUser
<1>7. CASE FailToSuspend(f)
  BY <1>1, <1>2, <1>3, <1>4, <1>7, JobOnly DEF FailToSuspend
<1> QED
  BY <1>5, <1>6, <1>7 DEF processSingleUser

LEMMA NextIInv == IInv /\ [Next]_vars => IInv'
<1> SUFFICES ASSUME IInv, [Next]_vars
             PROVE  IInv'
  OBVIOUS
<1>1. TypeOK'
  BY NextTypeOK DEF IInv
<1>2. job # None => job \in Job /\ job.startTime <= now
  BY DEF IInv, TypeOK, JobSound
<1>3. CASE signup
  BY <1>1, <1>3, SignupIInv
<1>4. ASSUME NEW u \in Users,
             \/ verifyOtp(u)
             \/ validateAndGetUser(u)
             \/ updateLastActivity(u)
             \/ resetPasswordWithToken(u)
             \/ \E status \in UserStatus : updateUserStatus(u, status)
             \/ deleteUser(u)
      PROVE  IInv'
  BY <1>1, <1>4, UserStepIInv
<1>5. CASE Tick
  BY <1>1, <1>5, TickIInv
<1>6. CASE StartJob
  BY <1>1, <1>6, JobOnly DEF StartJob, IInv, TypeOK
<1>7. CASE FindPage
  BY <1>1, <1>7, FindPageIInv
<1>8. CASE CountPages
  <2>1. job'.startTime = job.startTime /\ job'.data = job.data
    BY <1>2, <1>8 DEF CountPages, Job
  <2> QED
    BY <1>1, <1>2, <1>8, <2>1, JobOnly DEF CountPages
<1>9. ASSUME NEW f \in job.data, processSingleUser(f)
      PROVE  IInv'
  BY <1>1, <1>9, ProcessIInv
<1>10. CASE EndPage
  <2>1. job' # None => job'.startTime = job.startTime /\ job'.data = job.data
    BY <1>2, <1>10 DEF EndPage, Job
  <2> QED
    BY <1>1, <1>2, <1>10, <2>1, JobOnly DEF EndPage
<1>11. CASE AbortJob
  BY <1>1, <1>11, JobOnly DEF AbortJob
<1>12. CASE UNCHANGED vars
  BY <1>1, <1>12 DEF vars, state, IInv, AllSound, Sound, JobSound, Copied
<1> QED
  BY <1>3, <1>4, <1>5, <1>6, <1>7, <1>8, <1>9, <1>10, <1>11, <1>12
     DEF Next, Step, handleInactiveUsers

LEMMA Inductive == Spec => []IInv
BY InitIInv, NextIInv, PTL DEF Spec

\* Status, date and reason of a suspension agree, whoever wrote last
\* (processSingleUser, updateUserStatus).
THEOREM SuspensionsAreRecorded == Spec => []SuspensionRecorded
<1>1. IInv => SuspensionRecorded
  BY DEF IInv, AllSound, Sound, SuspensionRecorded
<1> QED
  BY <1>1, Inductive, PTL

\* Whom the job suspends had been away for SuspendDays, or came back while the
\* run was under way (processSingleUser).
THEOREM SuspendedHadBeenAway == Spec => []SuspendedWereInactive
<1>1. IInv => SuspendedWereInactive
  BY DEF IInv, AllSound, Sound, SuspendedWereInactive
<1> QED
  BY <1>1, Inductive, PTL

-----------------------------------------------------------------------------
(* Places in a page.                                                       *)

LEMMA UserType == ASSUME NEW u \in Users PROVE u \in Nat /\ u >= 1
BY InactiveUsersAssumption DEF Users

LEMMA PositionType ==
  ASSUME NEW S \in SUBSET Users, NEW u \in Nat
  PROVE  /\ IsFiniteSet({v \in S : v <= u})
         /\ Position(u, S) \in Nat
<1>1. NumUsers \in Int
  BY InactiveUsersAssumption
<1>2. IsFiniteSet(Users)
  BY <1>1, FS_Interval DEF Users
<1>3. IsFiniteSet({v \in S : v <= u})
  BY <1>2, FS_Subset
<1> QED
  BY <1>3, FS_CardinalityType DEF Position

\* Who is in a set has a place in it, and places follow the set.
LEMMA PositionPositive ==
  ASSUME NEW S \in SUBSET Users, NEW u \in S
  PROVE  Position(u, S) >= 1 /\ Position(u, S) <= Cardinality(S)
<1>1. u \in Nat
  BY InactiveUsersAssumption DEF Users
<1>2. IsFiniteSet({v \in S : v <= u}) /\ Position(u, S) \in Nat
  BY <1>1, PositionType
<1>3. u \in {v \in S : v <= u}
  BY <1>1
<1>4. Position(u, S) # 0
  BY <1>2, <1>3, FS_EmptySet DEF Position
<1>5. IsFiniteSet(S)
  <2>1. NumUsers \in Int
    BY InactiveUsersAssumption
  <2>2. IsFiniteSet(Users)
    BY <2>1, FS_Interval DEF Users
  <2> QED
    BY <2>2, FS_Subset
<1>6. Position(u, S) <= Cardinality(S)
  BY <1>5, FS_Subset DEF Position
<1> QED
  BY <1>2, <1>4, <1>6

LEMMA PositionMonotone ==
  ASSUME NEW S \in SUBSET Users, NEW T \in SUBSET Users, NEW u \in Users,
         \A v \in 1 .. u : v \in S => v \in T
  PROVE  Position(u, S) <= Position(u, T)
<1>1. u \in Nat /\ \A v \in S : v \in Nat /\ v >= 1
  BY UserType
<1>2. ASSUME NEW v \in S, v <= u PROVE v \in T
  <2>1. v \in 1 .. u
    BY <1>1, <1>2
  <2> QED
    BY <2>1
<1>3. {v \in S : v <= u} \subseteq {v \in T : v <= u}
  BY <1>2
<1>4. IsFiniteSet({v \in T : v <= u})
  BY <1>1, PositionType
<1> QED
  BY <1>3, <1>4, FS_Subset DEF Position

LEMMA LeastNumber ==
  ASSUME NEW S \in SUBSET Nat, S # {}
  PROVE  \E n \in S : \A m \in S : n <= m
<1> DEFINE R == {p \in Nat \X Nat : p[1] < p[2]}
<1>1. IsWellFoundedOn(R, Nat)
  BY NatLessThanWellFounded DEF OpToRel
<1>2. \A m, n \in Nat : m < n => <<m, n>> \in R
  OBVIOUS
<1> HIDE DEF R
<1>3. PICK n \in S : \A m \in S : ~ (<<m, n>> \in R)
  BY <1>1, WFMin
<1>4. \A m \in S : m \in Nat /\ n \in Nat /\ ~ (m < n)
  BY <1>2, <1>3
<1> QED
  BY <1>4

\* There is no gap between places: where one is beyond n, one is n + 1.
LEMMA EveryPlaceIsTaken ==
  ASSUME NEW S \in SUBSET Users, NEW u \in S, NEW n \in Nat, Position(u, S) > n
  PROVE  \E v \in S : Position(v, S) = n + 1
<1> DEFINE Beyond == {k \in Nat : Position(k, S) > n}
<1>1. \A v \in S : v \in Nat /\ v >= 1
  BY UserType
<1>2. Beyond \in SUBSET Nat /\ u \in Beyond
  BY <1>1
<1>3. PICK k \in Beyond : \A m \in Beyond : k <= m
  <2> HIDE DEF Beyond
  <2> QED
    BY <1>2, LeastNumber
<1>4. k \in Nat /\ Position(k, S) > n /\ Position(k, S) \in Nat
  BY <1>3, PositionType
<1>5. \A m \in Nat : m < k => ~ (Position(m, S) > n)
  BY <1>3, <1>4
<1> HIDE DEF Beyond
<1>6. k # 0
  <2>1. ASSUME k = 0 PROVE Position(k, S) = 0
    <3>1. \A v \in S : ~ (v <= k)
      BY <1>1, <2>1
    <3>2. {v \in S : v <= k} = {}
      BY <3>1
    <3> QED
      BY <3>2, FS_EmptySet DEF Position
  <2> QED
    BY <1>4, <2>1
<1> DEFINE j == k - 1
           Before == {v \in S : v <= j}
<1>7. j \in Nat /\ j < k
  BY <1>4, <1>6
<1>8. \A v \in S : v <= k <=> v <= j \/ v = k
  BY <1>1, <1>4, <1>7
<1>9. ~ (k <= j)
  BY <1>4
<1> HIDE DEF j
<1>10. /\ IsFiniteSet(Before) /\ Cardinality(Before) \in Nat
       /\ Cardinality(Before) = Position(j, S)
  BY <1>7, PositionType DEF Position
<1>11. Cardinality(Before) <= n
  BY <1>5, <1>7, <1>10
<1>12. ASSUME k \notin S PROVE FALSE
  <2>1. {v \in S : v <= k} = Before
    BY <1>8, <1>12
  <2> QED
    BY <1>4, <1>10, <1>11, <2>1 DEF Position
<1>13. {v \in S : v <= k} = Before \cup {k} /\ k \notin Before
  BY <1>8, <1>9, <1>12
<1> HIDE DEF Before
<1>14. Position(k, S) = Cardinality(Before) + 1
  BY <1>10, <1>13, FS_AddElement DEF Position
<1> QED
  BY <1>4, <1>10, <1>11, <1>12, <1>14

\* Where somebody is beyond the pages before this one, this one is not empty.
LEMMA PageNotEmpty ==
  ASSUME NEW S \in SUBSET Users, NEW u \in S, NEW page \in Nat \ {0},
         Position(u, S) > (page - 1) * BatchSize
  PROVE  Page(S, page) # {}
<1> DEFINE n == (page - 1) * BatchSize
<1>1. n \in Nat /\ n + 1 <= page * BatchSize
  BY InactiveUsersAssumption
<1>2. Position(u, S) > n
  OBVIOUS
<1> HIDE DEF n
<1>3. PICK v \in S : Position(v, S) = n + 1
  BY <1>1, <1>2, EveryPlaceIsTaken
<1>4. n + 1 \in n + 1 .. page * BatchSize
  BY <1>1, InactiveUsersAssumption
<1> QED
  BY <1>3, <1>4 DEF Page, n

\* Math.ceil(total / limit) pages hold everybody.
LEMMA PagesHoldAll ==
  ASSUME NEW n \in Nat
  PROVE  n <= ((n + BatchSize - 1) \div BatchSize) * BatchSize
BY InactiveUsersAssumption

-----------------------------------------------------------------------------
(* Paging.                                                                 *)

\* A place among users in an order.
Place(u) == Position(u, Filter)

Copies == {f.id : f \in job.data}

\* The run has u before it: on the page it is at, or on a later one that its
\* count of pages reaches.
ToCome(u) ==
  /\ ~ job.found => Place(u) > (job.page - 1) * BatchSize
  /\ job.found => u \in Copies \/ Place(u) > job.page * BatchSize
  /\ job.totalPages # None /\ ~ job.found =>
       Place(u) <= job.totalPages * BatchSize
  /\ job.totalPages # None /\ job.found =>
       u \in Copies \/ job.totalPages > job.page

PagingSound ==
  job # None =>
    /\ \A f \in job.data : job.startTime - f.lastActivity >= MailDays
    /\ \A u \in Users \ displaced :
         u \in Filter /\ (Due(u, job.startTime) => ToCome(u))

\* A page further on is beyond more users.
LEMMA NextPageIsFurther ==
  ASSUME NEW p \in Nat, NEW t \in Nat, p * BatchSize < t * BatchSize
  PROVE  p < t
<1>1. ASSUME t <= p PROVE t * BatchSize <= p * BatchSize
  BY <1>1, InactiveUsersAssumption
<1> QED
  BY <1>1, InactiveUsersAssumption

\* Whom a step does not displace stays in the filter, and nobody before him
\* leaves it.
LEMMA StaysInFilter ==
  ASSUME Watch, job # None, job' # None, NEW u \in Users, u \notin displaced', u \in Filter
  PROVE  /\ u \notin displaced
         /\ u \in Filter'
         /\ Place(u)' >= Place(u)
         /\ job.totalPages # None /\ ~ job.found => Place(u)' = Place(u)
         /\ ~ \E f \in job.data : f.id = u /\ FailToSuspend(f)
<1>1. u \notin displaced /\ ~ Displaces(u)
  BY DEF Watch
<1>2. u \in Nat /\ u \in 1 .. u
  BY UserType
<1>3. \A v \in 1 .. u : v \in Filter => v \in Filter'
  BY <1>1 DEF Displaces
<1>4. Filter \in SUBSET Users /\ Filter' \in SUBSET Users
  BY DEF Filter, Matching
<1> DEFINE S == Filter
           T == Filter'
<1>5. Place(u) = Position(u, S) /\ Place(u)' = Position(u, T)
  BY DEF Place, Position
<1>6. Place(u) \in Nat /\ Place(u)' \in Nat
  BY <1>2, <1>4, <1>5, PositionType
<1>7. Place(u)' >= Place(u)
  <2>1. S \in SUBSET Users /\ T \in SUBSET Users /\ \A v \in 1 .. u : v \in S => v \in T
    BY <1>3, <1>4
  <2> HIDE DEF S, T
  <2> QED
    BY <1>5, <1>6, <2>1, PositionMonotone
<1>8. ASSUME job.totalPages # None, ~ job.found PROVE Place(u)' <= Place(u)
  <2>1. S \in SUBSET Users /\ T \in SUBSET Users /\ \A v \in 1 .. u : v \in T => v \in S
    BY <1>1, <1>4, <1>8 DEF Displaces
  <2> HIDE DEF S, T
  <2> QED
    BY <1>5, <1>6, <2>1, PositionMonotone
<1> QED
  BY <1>1, <1>2, <1>3, <1>6, <1>7, <1>8 DEF Displaces

\* Nobody who stays in the filter of a run becomes due while it runs.
LEMMA ActivityOnlyAdvances ==
  ASSUME IInv, [Next]_vars, NEW u \in Users, users[u] # None, users'[u] # None
  PROVE  \/ users'[u].lastActivity = users[u].lastActivity
         \/ users'[u].lastActivity = now
<1>1. users \in [Users -> User \cup {None}] /\ users[u] \in User
  BY DEF IInv, TypeOK
<1>2. ASSUME NEW v \in Users, verifyOtp(v) PROVE users'[u].lastActivity = users[u].lastActivity
  BY <1>1, <1>2 DEF verifyOtp, User
<1>3. ASSUME NEW v \in Users, updateLastActivity(v) \/ resetPasswordWithToken(v)
      PROVE  users'[u].lastActivity \in {users[u].lastActivity, now}
  BY <1>1, <1>3 DEF updateLastActivity, resetPasswordWithToken, User
<1>4. ASSUME NEW v \in Users, NEW status \in UserStatus, updateUserStatus(v, status)
      PROVE  users'[u].lastActivity = users[u].lastActivity
  BY <1>1, <1>4 DEF updateUserStatus, statusUpdate, User
<1>5. ASSUME NEW v \in Users, deleteUser(v) PROVE users'[u].lastActivity = users[u].lastActivity
  BY <1>1, <1>5 DEF deleteUser
<1>6. ASSUME signup PROVE users'[u].lastActivity \in {users[u].lastActivity, now}
  BY <1>1, <1>6 DEF signup
<1>7. ASSUME NEW f, SuspendUser(f) PROVE users'[u].lastActivity = users[u].lastActivity
  BY <1>1, <1>7 DEF SuspendUser, User
<1>8. CASE users' = users
  BY <1>8
<1>9. \/ users' = users
      \/ signup
      \/ \E v \in Users : \/ verifyOtp(v) \/ updateLastActivity(v)
                          \/ resetPasswordWithToken(v) \/ deleteUser(v)
                          \/ \E status \in UserStatus : updateUserStatus(v, status)
      \/ \E f \in job.data : SuspendUser(f)
  BY DEF Next, Step, vars, state, validateAndGetUser, Tick, handleInactiveUsers,
     AbortJob, StartJob, FindPage, CountPages, processSingleUser, MailUser,
     FailToSuspend, EndPage
<1> QED
  BY <1>2, <1>3, <1>4, <1>5, <1>6, <1>7, <1>8, <1>9

LEMMA DueStaysDue ==
  ASSUME IInv, [Next]_vars, job # None, NEW u \in Users,
         u \in Filter, users'[u] # None, Due(u, job.startTime)'
  PROVE  job' # None /\ job'.startTime = job.startTime => Due(u, job.startTime)
<1>1. SUFFICES ASSUME job'.startTime = job.startTime
               PROVE  Due(u, job.startTime)
  OBVIOUS
<1>2. /\ job.startTime \in Nat /\ job.startTime <= now
      /\ SuspendDays \in Nat /\ MailDays \in Nat /\ now \in Nat
  BY InactiveUsersAssumption DEF IInv, TypeOK, JobSound, Job
<1>3. /\ users[u] # None /\ users[u] \in User /\ users[u].lastActivity \in Nat
      /\ users[u].isVerified /\ users[u].status = "ACTIVE"
      /\ job.startTime - users[u].lastActivity >= MailDays
  BY DEF Filter, Matching, IInv, TypeOK, User
<1>4. job.startTime - users'[u].lastActivity >= SuspendDays
  BY <1>1 DEF Due
<1>5. CASE users'[u].lastActivity = users[u].lastActivity
  BY <1>3, <1>4, <1>5 DEF Due
<1>6. CASE users'[u].lastActivity = now
  BY <1>2, <1>3, <1>4, <1>6 DEF Due
<1> QED
  BY <1>3, <1>5, <1>6, ActivityOnlyAdvances

\* The steps of others, and those at one user of the page.
LEMMA SamePageToCome ==
  ASSUME Watch, job # None, job' # None, NEW u \in Users, u \notin displaced',
         u \in Filter, ToCome(u), IInv,
         job'.page = job.page, job'.found = job.found,
         job'.totalPages = job.totalPages, u \in Copies => u \in Copies'
  PROVE  ToCome(u)'
<1>1. /\ Place(u)' >= Place(u)
      /\ job.totalPages # None /\ ~ job.found => Place(u)' = Place(u)
  BY StaysInFilter
<1>2. Place(u) \in Nat /\ Place(u)' \in Nat
  <2>1. Filter \in SUBSET Users /\ Filter' \in SUBSET Users /\ u \in Nat
    BY UserType DEF Filter, Matching
  <2> DEFINE S == Filter
             T == Filter'
  <2>2. Place(u) = Position(u, S) /\ Place(u)' = Position(u, T)
    BY DEF Place, Position
  <2>3. S \in SUBSET Users /\ T \in SUBSET Users
    BY <2>1
  <2> HIDE DEF S, T
  <2> QED
    BY <2>1, <2>2, <2>3, PositionType
<1>3. /\ (job.page - 1) * BatchSize \in Int /\ job.page * BatchSize \in Int
      /\ job.totalPages # None => job.totalPages * BatchSize \in Int
  <2>1. job.page \in Int /\ job.page - 1 \in Int /\ BatchSize \in Int
        /\ (job.totalPages # None => job.totalPages \in Int)
    BY InactiveUsersAssumption DEF IInv, TypeOK, Job
  <2> QED
    BY <2>1
<1> QED
  BY <1>1, <1>2, <1>3 DEF ToCome

\* Users who were found and are due are suspended, or the suspension fails.
LEMMA DueIsNotMailed ==
  ASSUME IInv, PagingSound, job # None, NEW f \in job.data, MailUser(f),
         f.id \in Filter
  PROVE  ~ Due(f.id, job.startTime)
<1>1. /\ f \in Found /\ f.id \in Users /\ Copied(f) /\ job.startTime \in Nat
      /\ f.lastActivity \in Nat
      /\ job.startTime - f.lastActivity >= MailDays
      /\ MailDays \in Nat /\ SuspendDays \in Nat
  BY InactiveUsersAssumption DEF IInv, TypeOK, JobSound, Job, Found, PagingSound
<1>2. users[f.id] # None /\ users[f.id].lastActivity \in Nat
  BY <1>1 DEF IInv, TypeOK, User, Filter, Matching
<1>3. job.startTime - f.lastActivity < SuspendDays
  BY <1>1 DEF MailUser, MustSuspend
<1> QED
  BY <1>1, <1>2, <1>3 DEF Copied, Due

LEMMA CopiesOld ==
  ASSUME IInv, PagingSound, [Next]_vars, job' # None
  PROVE  \A f \in job'.data : job'.startTime - f.lastActivity >= MailDays
<1>1. job # None => job \in Job
  BY DEF IInv, TypeOK
<1>2. CASE StartJob
  BY <1>2 DEF StartJob
<1>3. CASE FindPage
  <2> DEFINE S == Page(Matching(job.startTime), job.page)
  <2>1. job' = [job EXCEPT !.found = TRUE, !.data = {copy(u) : u \in S}] /\ job # None
    BY <1>3 DEF FindPage
  <2>2. job'.startTime = job.startTime /\ job'.data = {copy(u) : u \in S}
    BY <1>1, <2>1 DEF Job
  <2>3. \A u \in S : job.startTime - users[u].lastActivity >= MailDays
    BY DEF Page, Matching
  <2> HIDE DEF S
  <2> QED
    BY <2>2, <2>3 DEF copy
<1>4. CASE job # None /\ job'.startTime = job.startTime /\ job'.data \subseteq job.data
  BY <1>4 DEF PagingSound
<1>5. CASE CountPages \/ EndPage
  BY <1>1, <1>4, <1>5 DEF CountPages, EndPage, Job
<1>6. ASSUME NEW f \in job.data, job # None, processSingleUser(f)
      PROVE job # None /\ job'.startTime = job.startTime /\ job'.data \subseteq job.data
  <2>1. job' = [job EXCEPT !.data = @ \ {f}]
    BY <1>6 DEF processSingleUser, SuspendUser, MailUser, FailToSuspend
  <2> QED
    BY <1>1, <1>6, <2>1 DEF Job
<1>7. CASE job' = job
  BY <1>4, <1>7
<1>8. job' = job \/ handleInactiveUsers
  BY DEF Next, Step, vars, state, signup, verifyOtp, validateAndGetUser,
     updateLastActivity, resetPasswordWithToken, updateUserStatus, deleteUser,
     Tick, AbortJob
<1> QED
  BY <1>2, <1>3, <1>4, <1>5, <1>6, <1>7, <1>8 DEF handleInactiveUsers

LEMMA PlaceType ==
  ASSUME NEW u \in Filter
  PROVE  /\ u \in Users /\ Place(u) \in Nat
         /\ Place(u) >= 1 /\ Place(u) <= Cardinality(Filter)
         /\ Cardinality(Filter) \in Nat
<1> DEFINE S == Filter
<1>1. S \in SUBSET Users /\ u \in S /\ Place(u) = Position(u, S)
  BY DEF Filter, Matching, Place
<1>2. u \in Nat
  BY <1>1, UserType
<1> HIDE DEF S
<1>3. Position(u, S) \in Nat /\ Position(u, S) >= 1 /\ Position(u, S) <= Cardinality(S)
  BY <1>1, <1>2, PositionType, PositionPositive
<1>4. Cardinality(S) \in Nat
  BY <1>1, UsersAreFinite
<1> QED
  BY <1>1, <1>3, <1>4 DEF S

\* The first page is all of the filter that there is to come.
LEMMA StartsAtTheFirstPage ==
  ASSUME IInv, StartJob, NEW u \in Users, u \in Filter'
  PROVE  ToCome(u)'
<1>1. job' = [startTime |-> now, page |-> 1, found |-> FALSE, data |-> {},
              totalPages |-> None]
  BY DEF StartJob, FirstPage
<1>2. Place(u)' \in Nat /\ Place(u)' >= 1
  <2> DEFINE T == Filter'
  <2>1. T \in SUBSET Users /\ u \in T /\ Place(u)' = Position(u, T)
    BY DEF Filter, Matching, Place, Position
  <2>2. u \in Nat
    BY UserType
  <2> HIDE DEF T
  <2> QED
    BY <2>1, <2>2, PositionType, PositionPositive
<1>3. (1 - 1) * BatchSize = 0
  BY InactiveUsersAssumption
<1> QED
  BY <1>1, <1>2, <1>3 DEF ToCome

LEMMA FindPageToCome ==
  ASSUME IInv, FindPage, job' # None, NEW u \in Filter, ToCome(u)
  PROVE  ToCome(u)'
<1> DEFINE S == Page(Filter, job.page)
<1>1. job \in Job /\ ~ job.found /\ users' = users
  BY DEF FindPage, IInv, TypeOK
<1>2. job' = [job EXCEPT !.found = TRUE, !.data = {copy(v) : v \in S}]
  BY DEF FindPage, Filter
<1>3. /\ job'.found /\ job'.data = {copy(v) : v \in S}
      /\ job'.page = job.page /\ job'.totalPages = job.totalPages
      /\ job'.startTime = job.startTime
  BY <1>1, <1>2 DEF Job
<1>4. Filter' = Filter /\ Place(u)' = Place(u)
  BY <1>1, <1>3 DEF Place, Filter, Matching
<1>5. /\ Place(u) > (job.page - 1) * BatchSize
      /\ job.totalPages # None => Place(u) <= job.totalPages * BatchSize
  BY <1>1 DEF ToCome
<1>6. /\ job.page \in Nat \ {0} /\ BatchSize \in Nat
      /\ job.totalPages \in Nat \cup {None} /\ Place(u) \in Nat
  BY <1>1, PlaceType, InactiveUsersAssumption DEF Job
<1>7. job.page * BatchSize \in Nat /\ (job.page - 1) * BatchSize \in Nat
  BY <1>6
<1>8. ASSUME ~ (Place(u) > job.page * BatchSize) PROVE u \in Copies'
  <2>1. Place(u) \in (job.page - 1) * BatchSize + 1 .. job.page * BatchSize
    BY <1>5, <1>6, <1>7, <1>8
  <2>2. u \in S
    BY <2>1 DEF Page, Place
  <2>3. copy(u) \in job'.data /\ copy(u).id = u
    BY <1>3, <2>2 DEF copy
  <2> QED
    BY <2>3 DEF Copies
<1>9. ASSUME Place(u) > job.page * BatchSize, job.totalPages # None
      PROVE  job.totalPages > job.page
  <2>1. job.page * BatchSize < job.totalPages * BatchSize
    <3>1. job.totalPages \in Nat /\ job.totalPages * BatchSize \in Nat
      BY <1>6, <1>9
    <3> QED
      BY <1>5, <1>6, <1>7, <1>9, <3>1
  <2> QED
    BY <1>6, <1>9, <2>1, NextPageIsFurther
<1> HIDE DEF S
<1> QED
  BY <1>3, <1>4, <1>8, <1>9 DEF ToCome

LEMMA CountPagesToCome ==
  ASSUME IInv, CountPages, NEW u \in Filter, ToCome(u)
  PROVE  ToCome(u)'
<1> DEFINE n == Cardinality(Filter)
           total == (n + BatchSize - 1) \div BatchSize
<1>1. job \in Job /\ job.totalPages = None /\ users' = users
  BY DEF CountPages, IInv, TypeOK
<1>2. job' = [job EXCEPT !.totalPages = total]
  BY DEF CountPages, Filter
<1>3. Place(u) \in Nat /\ Place(u) <= n /\ n \in Nat
  BY PlaceType
<1>4. total \in Nat /\ n <= total * BatchSize
  BY <1>3, PagesType, PagesHoldAll
<1> HIDE DEF n, total
<1>5. /\ job'.found = job.found /\ job'.data = job.data
      /\ job'.page = job.page /\ job'.totalPages = total
      /\ job'.startTime = job.startTime
  BY <1>1, <1>2 DEF Job
<1>6. /\ Filter' = Filter /\ Place(u)' = Place(u) /\ Copies' = Copies
  BY <1>1, <1>5 DEF Place, Filter, Matching, Copies
<1>7. job.page \in Nat /\ job.page * BatchSize \in Nat /\ total * BatchSize \in Nat
  <2>1. job.page \in Nat /\ BatchSize \in Nat
    BY <1>1, InactiveUsersAssumption DEF Job
  <2> QED
    BY <1>4, <2>1
<1>8. Place(u) <= total * BatchSize
  BY <1>3, <1>4, <1>7
<1>9. ASSUME Place(u) > job.page * BatchSize PROVE total > job.page
  <2>1. job.page * BatchSize < total * BatchSize
    BY <1>3, <1>7, <1>8, <1>9
  <2> QED
    BY <1>4, <1>7, <2>1, NextPageIsFurther
<1> QED
  BY <1>5, <1>6, <1>8, <1>9 DEF ToCome

LEMMA EndPageToCome ==
  ASSUME IInv, EndPage, NEW u \in Filter, ToCome(u)
  PROVE  job' # None /\ ToCome(u)'
<1>1. job \in Job /\ job.found /\ job.data = {} /\ users' = users
        /\ job.totalPages # None
  BY DEF EndPage, IInv, TypeOK
<1>2. job.totalPages > job.page /\ Place(u) > job.page * BatchSize
  BY <1>1 DEF ToCome, Copies
<1>3. job.totalPages \in Nat /\ job.page \in Nat
  BY <1>1 DEF Job
<1> DEFINE n == job.page + 1
<1>4. job' = [job EXCEPT !.page = n, !.found = FALSE, !.totalPages = None]
  BY <1>2, <1>3 DEF EndPage, IsLastPage, NextPage
<1>5. n \in Nat \ {0} /\ n - 1 = job.page
  BY <1>3
<1> HIDE DEF n
<1>6. job' \in Job
  BY <1>1, <1>4, <1>5 DEF Job
<1>7. /\ ~ job'.found /\ job'.page = n /\ job'.totalPages = None
      /\ job'.startTime = job.startTime
  BY <1>1, <1>4 DEF Job
<1>8. Place(u)' = Place(u)
  BY <1>1, <1>7 DEF Place, Filter, Matching
<1>9. job' # None
  BY <1>6, InactiveUsersAssumption
<1> QED
  BY <1>2, <1>5, <1>7, <1>8, <1>9 DEF ToCome

LEMMA ProcessToCome ==
  ASSUME IInv, PagingSound, Watch, job # None, job' # None,
         NEW f \in job.data, processSingleUser(f),
         NEW u \in Users, u \notin displaced', u \in Filter,
         Due(u, job.startTime), ToCome(u)
  PROVE  ToCome(u)'
<1>1. job \in Job
  BY DEF IInv, TypeOK
<1>2. job' = [job EXCEPT !.data = @ \ {f}]
  BY DEF processSingleUser, SuspendUser, MailUser, FailToSuspend
<1>3. /\ job'.page = job.page /\ job'.found = job.found
      /\ job'.totalPages = job.totalPages /\ job'.data = job.data \ {f}
      /\ job'.startTime = job.startTime
  BY <1>1, <1>2 DEF Job
<1>4. ASSUME f.id = u PROVE FALSE
  <2>1. CASE SuspendUser(f)
    <3>1. users \in [Users -> User \cup {None}] /\ u \in Users
      BY DEF IInv, TypeOK
    <3>2. users'[u] # None => users'[u].status = "SUSPENDED"
      BY <1>4, <2>1, <3>1 DEF SuspendUser, User
    <3>3. u \notin Filter'
      BY <3>2 DEF Filter, Matching
    <3> QED
      BY <3>3, StaysInFilter
  <2>2. CASE MailUser(f)
    BY <1>4, <2>2, DueIsNotMailed
  <2>3. CASE FailToSuspend(f)
    BY <1>4, <2>3, StaysInFilter
  <2> QED
    BY <2>1, <2>2, <2>3 DEF processSingleUser
<1>5. u \in Copies => u \in Copies'
  BY <1>3, <1>4 DEF Copies
<1> QED
  BY <1>3, <1>5, SamePageToCome

LEMMA InitPagingSound == Init => PagingSound
BY DEF Init, PagingSound

\* What each step leaves to come, for somebody who is not displaced.
LEMMA ToComeKept ==
  ASSUME IInv, PagingSound, Step, Watch, job' # None, NEW u \in Users, u \notin displaced'
  PROVE  u \in Filter' /\ (Due(u, job.startTime)' => ToCome(u)')
<1>1. CASE job = None
  <2>1. StartJob
    BY <1>1 DEF Step, handleInactiveUsers, signup, verifyOtp, validateAndGetUser,
       updateLastActivity, resetPasswordWithToken, updateUserStatus, deleteUser,
       Tick, AbortJob, FindPage, CountPages, EndPage
  <2>2. u \in Filter'
    BY <1>1 DEF Watch
  <2> QED
    BY <2>1, <2>2, StartsAtTheFirstPage
<1>2. CASE job # None
  <2>1. u \notin displaced /\ u \in Filter
    BY <1>2 DEF Watch, PagingSound
  <2>2. u \in Filter' /\ users'[u] # None
    BY <1>2, <2>1, StaysInFilter DEF Filter, Matching
  <2>3. job \in Job
    BY <1>2 DEF IInv, TypeOK
  <2>4. ~ StartJob
    BY <1>2 DEF StartJob
  <2>5. job' = job \/ handleInactiveUsers
    BY DEF Step, signup, verifyOtp, validateAndGetUser,
       updateLastActivity, resetPasswordWithToken, updateUserStatus, deleteUser,
       Tick, AbortJob
  <2>6. \/ job' = job
        \/ FindPage
        \/ CountPages
        \/ \E f \in job.data : processSingleUser(f)
        \/ EndPage
    BY <2>4, <2>5 DEF handleInactiveUsers
  <2>7. job'.startTime = job.startTime
    BY <2>3, <2>6 DEF FindPage, CountPages, processSingleUser, SuspendUser,
       MailUser, FailToSuspend, EndPage, Job
  <2>8. SUFFICES ASSUME Due(u, job.startTime)' PROVE ToCome(u)'
    BY <2>2
  <2>9. Due(u, job.startTime)
    BY <1>2, <2>1, <2>2, <2>7, <2>8, DueStaysDue DEF Next
  <2>10. ToCome(u)
    BY <1>2, <2>1, <2>9 DEF PagingSound
  <2>11. CASE job' = job
    BY <1>2, <2>1, <2>10, <2>11, SamePageToCome DEF Copies
  <2>12. CASE FindPage
    BY <2>1, <2>10, <2>12, FindPageToCome
  <2>13. CASE CountPages
    BY <2>1, <2>10, <2>13, CountPagesToCome
  <2>14. ASSUME NEW f \in job.data, processSingleUser(f) PROVE ToCome(u)'
    BY <1>2, <2>1, <2>9, <2>10, <2>14, ProcessToCome
  <2>15. CASE EndPage
    BY <2>1, <2>10, <2>15, EndPageToCome
  <2> QED
    BY <2>6, <2>11, <2>12, <2>13, <2>14, <2>15
<1> QED
  BY <1>1, <1>2

LEMMA NextPagingSound == IInv /\ PagingSound /\ [Next]_vars => PagingSound'
<1> SUFFICES ASSUME IInv, PagingSound, [Next]_vars, job' # None
             PROVE  PagingSound'
  BY DEF PagingSound
<1>1. CASE UNCHANGED vars
  BY <1>1 DEF vars, state, PagingSound, Filter, Matching, Due, ToCome, Place,
     Position, Copies
<1>2. CASE Next
  <2>1. \A u \in Users \ displaced' :
          u \in Filter' /\ (Due(u, job.startTime)' => ToCome(u)')
    BY <1>2, ToComeKept DEF Next
  <2> QED
    BY <2>1, CopiesOld DEF PagingSound
<1> QED
  BY <1>1, <1>2

\* Whom a run that came to its end left active although he was due and in the
\* filter all the time was displaced, or his suspension failed: for every
\* number of users, every size of a page, and whatever others do meanwhile
\* (handleInactiveUsers).
THEOREM OnlyDisplacedAreLeftOut == Spec => LeftOutWereDisplaced
<1> DEFINE A == job # None /\ job' = None /\ failures' = failures =>
                  {u \in Users : Due(u, job.startTime)} \subseteq displaced
<1>1. ASSUME IInv, PagingSound, [Next]_vars PROVE [A]_vars
  <2> SUFFICES ASSUME Next, job # None, job' = None, failures' = failures,
                      NEW u \in Users, Due(u, job.startTime), u \notin displaced
               PROVE  FALSE
    BY <1>1
  <2>1. u \in Filter /\ ToCome(u) /\ job \in Job
    BY <1>1 DEF PagingSound, IInv, TypeOK
  <2>2. FindPage \/ EndPage
    <3>1. job' # job /\ ~ StartJob
      BY DEF StartJob
    <3>2. handleInactiveUsers
      BY <1>1, <3>1 DEF Next, Step, signup, verifyOtp, validateAndGetUser,
         updateLastActivity, resetPasswordWithToken, updateUserStatus, deleteUser,
         Tick, AbortJob, IInv, TypeOK
    <3>3. ASSUME NEW f \in job.data, processSingleUser(f) PROVE FALSE
      <4>1. job' \in Job
        BY <2>1, <3>3 DEF processSingleUser, SuspendUser, MailUser, FailToSuspend, Job
      <4> QED
        BY <4>1, InactiveUsersAssumption
    <3>4. ASSUME CountPages PROVE FALSE
      <4>1. Cardinality(Filter) \in Nat
        BY <2>1, PlaceType
      <4>2. (Cardinality(Filter) + BatchSize - 1) \div BatchSize \in Nat
        BY <4>1, PagesType
      <4>3. job' \in Job
        BY <2>1, <3>4, <4>2 DEF CountPages, Job, Filter
      <4> QED
        BY <4>3, InactiveUsersAssumption
    <3> QED
      BY <3>1, <3>2, <3>3, <3>4 DEF handleInactiveUsers
  <2>3. CASE FindPage
    <3>1. Page(Filter, job.page) = {}
      <4>1. ASSUME Page(Filter, job.page) # {} PROVE job' \in Job
        <5> DEFINE S == Page(Filter, job.page)
        <5>1. S \subseteq {v \in Users : users[v] # None}
          BY DEF Page, Filter, Matching
        <5>2. \A v \in S : copy(v) \in Found
          BY <1>1, <5>1 DEF copy, Found, IInv, TypeOK, User
        <5>3. job' = [job EXCEPT !.found = TRUE, !.data = {copy(v) : v \in S}]
          BY <2>3, <4>1 DEF FindPage, Filter
        <5> HIDE DEF S
        <5>4. {copy(v) : v \in S} \in SUBSET Found
          BY <5>2
        <5> QED
          BY <2>1, <5>3, <5>4 DEF Job
      <4> QED
        BY <4>1, InactiveUsersAssumption
    <3>2. Place(u) > (job.page - 1) * BatchSize
      BY <2>1, <2>3 DEF ToCome, FindPage
    <3> DEFINE S == Filter
    <3>3. S \in SUBSET Users /\ u \in S /\ Position(u, S) > (job.page - 1) * BatchSize
            /\ job.page \in Nat \ {0}
      BY <2>1, <3>2 DEF Place, Filter, Matching, Job
    <3> HIDE DEF S
    <3>4. Page(S, job.page) # {}
      BY <3>3, PageNotEmpty
    <3> QED
      BY <3>1, <3>4 DEF S
  <2>4. CASE EndPage
    BY <1>1, <2>1, <2>4, EndPageToCome
  <2> QED
    BY <2>2, <2>3, <2>4
<1> QED
  BY <1>1, InitIInv, NextIInv, InitPagingSound, NextPagingSound, PTL
     DEF Spec, LeftOutWereDisplaced

=============================================================================

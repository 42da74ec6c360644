---------------------------- MODULE InactiveUsers ----------------------------
(***************************************************************************)
(* The daily job that mails and suspends inactive users, page by page      *)
(* (InactiveUserCronService), beside everything that changes a user in the *)
(* meantime: requests, which touch lastActivity, password resets,          *)
(* administrators, sign-ups.                                               *)
(*                                                                         *)
(* The job has no transaction.  It queries a page, then handles its users  *)
(* one after the other from the copies the query returned, with seconds of *)
(* mailing in between, then queries the next page of what matches by then. *)
(*                                                                         *)
(* Users are numbered as they signed up, which is the order in which a     *)
(* query without a sort returns them.  Time is counted in days.            *)
(***************************************************************************)
EXTENDS Integers, FiniteSets

CONSTANTS NumUsers,     \* bound on sign-ups
          BatchSize,    \* 100 in the code
          MailDays,     \* 7 in the code
          SuspendDays,  \* 65 in the code
          MaxDay,       \* bound on the clock
          MaxFailures,  \* bound on restarts and database errors
          MaxChanges,   \* bound on what administrators do
          None          \* no user, date, reason, result or job

VARIABLES users,     \* the users collection
          signups,   \* how many have signed up
          entered,   \* users with a request that passed validateAndGetUser
          job,       \* the run of the job, if there is one
          displaced, \* history: whom this run need not find, see Watch
          now,       \* the day
          failures,  \* counts to MaxFailures
          changes    \* counts to MaxChanges

state == <<users, signups, entered, job, now, failures, changes>>

vars == <<state, displaced>>

Users == 1 .. NumUsers

UserStatus == {"ACTIVE", "SUSPENDED", "BLOCKED"}

User == [isVerified : BOOLEAN, status : UserStatus, lastActivity : Nat,
         suspendedAt : Nat \cup {None},
         suspensionReason : {"inactive", "admin", None}]

\* What the job keeps of a user it found.
Found == [id : Users, lastActivity : Nat]

\* data and totalPages are the results of the two queries of
\* findWithPagination, found says that the first has returned; data shrinks
\* as its users are processed.
Job == [startTime : Nat, page : Nat \ {0},
        found : BOOLEAN, data : SUBSET Found, totalPages : Nat \cup {None}]

ASSUME InactiveUsersAssumption ==
  /\ {NumUsers, MailDays, MaxDay, MaxFailures, MaxChanges} \subseteq Nat
  /\ BatchSize \in Nat \ {0}
  /\ SuspendDays \in Nat /\ MailDays <= SuspendDays
  /\ None \notin User \cup Nat \cup Job \cup {"inactive", "admin"}

TypeOK ==
  /\ users \in [Users -> User \cup {None}]
  /\ signups \in 0 .. NumUsers
  /\ entered \subseteq Users
  /\ job \in Job \cup {None}
  /\ displaced \subseteq Users
  /\ now \in Nat
  /\ failures \in Nat
  /\ changes \in Nat

Init ==
  /\ users = [u \in Users |-> None]
  /\ signups = 0
  /\ entered = {}
  /\ job = None
  /\ displaced = {}
  /\ now = 0
  /\ failures = 0
  /\ changes = 0

-----------------------------------------------------------------------------
(* Everybody but the job.                                                  *)

signup ==
  /\ signups < NumUsers
  /\ signups' = signups + 1
  /\ users' = [users EXCEPT ![signups + 1] =
                 [isVerified |-> FALSE, status |-> "ACTIVE", lastActivity |-> now,
                  suspendedAt |-> None, suspensionReason |-> None]]
  /\ UNCHANGED <<entered, job, now, failures, changes>>

\* The right code was entered; lastActivity is not touched.
verifyOtp(u) ==
  /\ users[u] # None
  /\ users' = [users EXCEPT ![u].isVerified = TRUE]
  /\ UNCHANGED <<signups, entered, job, now, failures, changes>>

\* A request or login passes the check of the account's status ...
validateAndGetUser(u) ==
  /\ users[u] # None
  /\ users[u].status \notin {"SUSPENDED", "BLOCKED"}
  /\ entered' = entered \cup {u}
  /\ UNCHANGED <<users, signups, job, now, failures, changes>>

\* ... and stores its activity in another call, wherever it finds the user.
\* The clock is read just before that call: one step, as time is in days.
updateLastActivity(u) ==
  /\ u \in entered
  /\ entered' = entered \ {u}
  /\ users' = [users EXCEPT ![u] =
                 IF @ = None THEN None ELSE [@ EXCEPT !.lastActivity = now]]
  /\ UNCHANGED <<signups, job, now, failures, changes>>

\* Password resets and OAuth logins touch lastActivity whatever the status.
resetPasswordWithToken(u) ==
  /\ users[u] # None
  /\ users' = [users EXCEPT ![u].lastActivity = now]
  /\ UNCHANGED <<signups, entered, job, now, failures, changes>>

\* A slip, for comparison: the date and the reason survive an activation.
KeepsTheReason(d, status) ==
  IF status = "ACTIVE"
  THEN [d EXCEPT !.status = status]
  ELSE [d EXCEPT !.status = status, !.suspendedAt = now,
                 !.suspensionReason = "admin"]

statusUpdate(d, status) ==
  IF status = "ACTIVE"
  THEN [d EXCEPT !.status = status, !.suspendedAt = None,
                 !.suspensionReason = None]
  ELSE [d EXCEPT !.status = status, !.suspendedAt = now,
                 !.suspensionReason = "admin"]

updateUserStatus(u, status) ==
  /\ users[u] # None
  /\ changes < MaxChanges
  /\ changes' = changes + 1
  /\ users' = [users EXCEPT ![u] = statusUpdate(@, status)]
  /\ UNCHANGED <<signups, entered, job, now, failures>>

deleteUser(u) ==
  /\ users[u] # None
  /\ changes < MaxChanges
  /\ changes' = changes + 1
  /\ users' = [users EXCEPT ![u] = None]
  /\ UNCHANGED <<signups, entered, job, now, failures>>

Tick ==
  /\ now < MaxDay
  /\ now' = now + 1
  /\ UNCHANGED <<users, signups, entered, job, failures, changes>>

-----------------------------------------------------------------------------
(* The job.                                                                *)

\* The filter: active, verified and without activity for MailDays.
Matching(startTime) ==
  {u \in Users : /\ users[u] # None
                 /\ users[u].isVerified
                 /\ users[u].status = "ACTIVE"
                 /\ startTime - users[u].lastActivity >= MailDays}

\* Who is to be suspended.
Due(u, day) ==
  /\ users[u] # None
  /\ users[u].isVerified
  /\ users[u].status = "ACTIVE"
  /\ day - users[u].lastActivity >= SuspendDays

Position(u, S) == Cardinality({v \in S : v <= u})

\* A slip, for comparison: skip counted from page 0.
SkipsAPage(S, page) ==
  {u \in S : Position(u, S) \in page * BatchSize + 1 .. (page + 1) * BatchSize}

\* skip((page - 1) * limit).limit(limit)
Page(S, page) ==
  {u \in S : Position(u, S) \in (page - 1) * BatchSize + 1 .. page * BatchSize}

\* A slip, for comparison: pages counted from 0.
ZerothPage == 0

FirstPage == 1

copy(u) == [id |-> u, lastActivity |-> users[u].lastActivity]

StartJob ==
  /\ job = None
  /\ job' = [startTime |-> now, page |-> FirstPage,
             found |-> FALSE, data |-> {}, totalPages |-> None]
  /\ UNCHANGED <<users, signups, entered, now, failures, changes>>

\* No users: the loop ends, whatever the other query says.
FindPage ==
  /\ job # None
  /\ ~ job.found
  /\ LET page == Page(Matching(job.startTime), job.page) IN
       job' = IF page = {}
              THEN None
              ELSE [job EXCEPT !.found = TRUE,
                               !.data = {copy(u) : u \in page}]
  /\ UNCHANGED <<users, signups, entered, now, failures, changes>>

CountPages ==
  /\ job # None
  /\ job.totalPages = None
  /\ job' = [job EXCEPT !.totalPages =
               (Cardinality(Matching(job.startTime)) + BatchSize - 1) \div BatchSize]
  /\ UNCHANGED <<users, signups, entered, now, failures, changes>>

\* Both queries have returned, and f is the next user of the page.
InTurn(f) ==
  /\ job # None
  /\ job.totalPages # None
  /\ f \in job.data
  /\ \A g \in job.data : f.id <= g.id

\* A slip, for comparison: the other limit.
AfterAWeek(f) == job.startTime - f.lastActivity >= MailDays

MustSuspend(f) == job.startTime - f.lastActivity >= SuspendDays

\* findOneAndUpdate by _id alone, from the copy.
SuspendUser(f) ==
  /\ InTurn(f)
  /\ MustSuspend(f)
  /\ users' = [users EXCEPT ![f.id] =
                 IF @ = None THEN None
                 ELSE [@ EXCEPT !.status = "SUSPENDED",
                                !.suspendedAt = job.startTime,
                                !.suspensionReason = "inactive"]]
  /\ job' = [job EXCEPT !.data = @ \ {f}]
  /\ UNCHANGED <<signups, entered, now, failures, changes>>

\* A user who is not due gets a mail, or nothing.
MailUser(f) ==
  /\ InTurn(f)
  /\ ~ MustSuspend(f)
  /\ job' = [job EXCEPT !.data = @ \ {f}]
  /\ UNCHANGED <<users, signups, entered, now, failures, changes>>

\* The update fails: the error is counted and the loop goes on.
FailToSuspend(f) ==
  /\ InTurn(f)
  /\ MustSuspend(f)
  /\ failures < MaxFailures
  /\ failures' = failures + 1
  /\ job' = [job EXCEPT !.data = @ \ {f}]
  /\ UNCHANGED <<users, signups, entered, now, changes>>

\* A slip, for comparison: page++ forgotten.
SamePage(page) == page

NextPage(page) == page + 1

\* A slip, for comparison: pages counted from 0 here.
StopsEarly(page, totalPages) == page + 1 >= totalPages

IsLastPage(page, totalPages) == page >= totalPages

EndPage ==
  /\ job # None
  /\ job.found
  /\ job.data = {}
  /\ job.totalPages # None
  /\ job' = IF IsLastPage(job.page, job.totalPages)
            THEN None
            ELSE [job EXCEPT !.page = NextPage(@), !.found = FALSE,
                             !.totalPages = None]
  /\ UNCHANGED <<users, signups, entered, now, failures, changes>>

\* A query fails, or the process is restarted: the next run starts over.
AbortJob ==
  /\ job # None
  /\ failures < MaxFailures
  /\ failures' = failures + 1
  /\ job' = None
  /\ UNCHANGED <<users, signups, entered, now, changes>>

processSingleUser(f) == SuspendUser(f) \/ MailUser(f) \/ FailToSuspend(f)

handleInactiveUsers ==
  \/ StartJob
  \/ FindPage
  \/ CountPages
  \/ job # None /\ \E f \in job.data : processSingleUser(f)
  \/ EndPage

-----------------------------------------------------------------------------
(* History.                                                                *)

Filter == Matching(job.startTime)

\* A step after which the run may miss u: u or somebody before u leaves the
\* filter, somebody enters it before u after the pages were counted and before
\* the page was found, or the suspension of u fails.
Displaces(u) ==
  \/ \E v \in 1 .. u : v \in Filter \ Filter'
  \/ /\ job.totalPages # None
     /\ ~ job.found
     /\ \E v \in 1 .. u : v \in Filter' \ Filter
  \/ \E f \in job.data : f.id = u /\ FailToSuspend(f)

Watch ==
  displaced' =
    IF job' = None THEN {}
    ELSE IF job = None THEN Users \ Filter'
    ELSE displaced \cup {u \in Users : Displaces(u)}

-----------------------------------------------------------------------------

Step ==
  \/ signup
  \/ \E u \in Users :
       \/ verifyOtp(u)
       \/ validateAndGetUser(u)
       \/ updateLastActivity(u)
       \/ resetPasswordWithToken(u)
       \/ \E status \in UserStatus : updateUserStatus(u, status)
       \/ deleteUser(u)
  \/ Tick
  \/ handleInactiveUsers
  \/ AbortJob

Next == Step /\ Watch

Spec == Init /\ [][Next]_vars

\* The scheduler starts the job for ever, and a run that is neither restarted
\* nor failed by the database gets to its end.
FairSpec ==
  /\ Spec
  /\ WF_state(StartJob)
  /\ WF_state(FindPage)
  /\ WF_state(CountPages)
  /\ WF_state(job # None /\ \E f \in job.data : processSingleUser(f))
  /\ WF_state(EndPage)

-----------------------------------------------------------------------------
(* Properties.                                                             *)

\* The status of an account and the reason given to its owner at login never
\* contradict each other, whoever of the job and the administrators wrote
\* last (processSingleUser, updateUserStatus).
SuspensionRecorded ==
  \A u \in Users : users[u] # None =>
    /\ (users[u].status = "ACTIVE") = (users[u].suspendedAt = None)
    /\ (users[u].status = "ACTIVE") = (users[u].suspensionReason = None)

\* The job works from old copies, but whom it suspends had been away for
\* SuspendDays when it started, unless they came back while it ran: nobody
\* is suspended who was active before the run (processSingleUser).
SuspendedWereInactive ==
  \A u \in Users :
    users[u] # None /\ users[u].suspensionReason = "inactive" =>
      \/ users[u].suspendedAt - users[u].lastActivity >= SuspendDays
      \/ users[u].lastActivity >= users[u].suspendedAt

\* A run ends, although the number of its pages is counted anew on each page
\* (handleInactiveUsers).
JobEnds == job # None ~> job = None

\* A run pages with skip and limit through a filter that it shrinks itself,
\* from queries that are not made at one moment.  All the same it suspends
\* everybody who is due and was in the filter all the time, but those before
\* whom the filter changed in the one way or the other that Displaces names,
\* and those whose suspension failed (handleInactiveUsers).
LeftOutWereDisplaced ==
  [][job # None /\ job' = None /\ failures' = failures =>
       {u \in Users : Due(u, job.startTime)} \subseteq displaced]_vars

\* Whoever a run leaves out is not left out for ever.
NobodyStaysDue == \A u \in Users : []<>(~ Due(u, now))

=============================================================================

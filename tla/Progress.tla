------------------------------ MODULE Progress ------------------------------
(***************************************************************************)
(* A learner's way through a level: tasks and days are completed one after *)
(* the other, the last day issues the certificate (UserService, UserRepo). *)
(*                                                                         *)
(* Nothing here runs in a transaction.  A handler reads the orders and the *)
(* progress, and writes later; between any two of its database calls other *)
(* requests of the same learner run, and any call may be its last (process *)
(* restart, database error).  The day and task documents, which all users  *)
(* share, are identified with their keys: getOrCreateDay and the task      *)
(* upsert return the one document the unique indexes allow.                *)
(***************************************************************************)
EXTENDS Integers

CONSTANTS Users, Levels, TaskNames,
          LastDay,         \* 50 in the code
          CertificateIds,  \* generateCertificateId: 14 random characters
          Requests,        \* concurrent requests
          None             \* no request

VARIABLES owned,         \* levels of which a user has a completed order
          progress,      \* userprogresses: the days completed
          userTasks,     \* usertasks: the tasks completed
          certificates,  \* the certifications collection
          reqs           \* requests being handled

vars == <<owned, progress, userTasks, certificates, reqs>>

Days == 1 .. LastDay

Task == [levelName : Levels, day : Days, name : TaskNames]

Certification ==
  [userId : Users, level_name : Levels, certificateId : CertificateIds]

\* A request between its checks and its end: it will write its day or task,
\* look for a certificate, or create one.
Request ==
  [stage : {"day"}, userId : Users, levelName : Levels, day : Days]
    \cup
  [stage : {"task"}, userId : Users, task : Task]
    \cup
  [stage : {"find", "create"}, userId : Users, levelName : Levels]

ASSUME ProgressAssumption ==
  /\ LastDay \in Nat \ {0}
  /\ None \notin Request

TypeOK ==
  /\ owned \in [Users -> SUBSET Levels]
  /\ progress \in [Users -> [Levels -> SUBSET Days]]
  /\ userTasks \in [Users -> SUBSET Task]
  /\ certificates \subseteq Certification
  /\ reqs \in [Requests -> Request \cup {None}]

Init ==
  /\ owned = [u \in Users |-> {}]
  /\ progress = [u \in Users |-> [l \in Levels |-> {}]]
  /\ userTasks = [u \in Users |-> {}]
  /\ certificates = {}
  /\ reqs = [r \in Requests |-> None]

-----------------------------------------------------------------------------
(* Queries.                                                                *)

findCertificate(u, l) ==
  {c \in certificates : c.userId = u /\ c.level_name = l}

\* userProgress(u, l) >= n, where userProgress is the greatest completed day.
HasReached(u, l, n) == n = 0 \/ \E d \in progress[u][l] : d >= n

\* A slip, for comparison: no look at the completed days.
AnyDay(u, l, day) == l \in owned[u]

\* A slip, for comparison: off by one.
TwoDaysAhead(u, l, day) ==
  /\ l \in owned[u]
  /\ day <= 2 \/ HasReached(u, l, day - 2)

\* "You can only complete the next day": any day up to the next one.
MayComplete(u, l, day) ==
  /\ l \in owned[u]
  /\ HasReached(u, l, day - 1)

\* A slip, for comparison: no look at the completed days.
AnyLearner(u, l) == l \in owned[u]

\* A slip, for comparison: > for >=.
PastTheLastDay(u, l) ==
  /\ l \in owned[u]
  /\ HasReached(u, l, LastDay + 1)

\* "You have to finish day 50 to complete this level".
MayFinish(u, l) ==
  /\ l \in owned[u]
  /\ HasReached(u, l, LastDay)

-----------------------------------------------------------------------------
(* The handlers.                                                           *)

\* An order of the user is completed (module Orders).
CompleteOrder(u, l) ==
  /\ owned' = [owned EXCEPT ![u] = @ \cup {l}]
  /\ UNCHANGED <<progress, userTasks, certificates, reqs>>

Goto(r, next) == reqs' = [reqs EXCEPT ![r] = next]

\* POST user/complete-day
markDayAsCompleted(r, u, l, day) ==
  /\ reqs[r] = None
  /\ MayComplete(u, l, day)
  /\ Goto(r, [stage |-> "day", userId |-> u, levelName |-> l, day |-> day])
  /\ UNCHANGED <<owned, progress, userTasks, certificates>>

\* A slip, for comparison: the level not handed on.
LosesTheLevel(q) ==
  IF q.day = LastDay THEN [stage |-> "find", userId |-> q.userId] ELSE None

\* checkAndAutoCompleteLevelIfNeeded goes on after the last day only.
AfterDay(q) ==
  IF q.day = LastDay
  THEN [stage |-> "find", userId |-> q.userId, levelName |-> q.levelName]
  ELSE None

WriteDay(r) ==
  /\ reqs[r] # None
  /\ reqs[r].stage = "day"
  /\ progress' = [progress EXCEPT ![reqs[r].userId][reqs[r].levelName] =
                    @ \cup {reqs[r].day}]
  /\ Goto(r, AfterDay(reqs[r]))
  /\ UNCHANGED <<owned, userTasks, certificates>>

\* POST user/complete-task
markTaskAsCompleted(r, u, task) ==
  /\ reqs[r] = None
  /\ MayComplete(u, task.levelName, task.day)
  /\ Goto(r, [stage |-> "task", userId |-> u, task |-> task])
  /\ UNCHANGED <<owned, progress, userTasks, certificates>>

WriteTask(r) ==
  /\ reqs[r] # None
  /\ reqs[r].stage = "task"
  /\ userTasks' = [userTasks EXCEPT ![reqs[r].userId] = @ \cup {reqs[r].task}]
  /\ Goto(r, None)
  /\ UNCHANGED <<owned, progress, certificates>>

\* POST user/complete-level
markLevelAsCompleted(r, u, l) ==
  /\ reqs[r] = None
  /\ MayFinish(u, l)
  /\ Goto(r, [stage |-> "find", userId |-> u, levelName |-> l])
  /\ UNCHANGED <<owned, progress, userTasks, certificates>>

\* A certificate that exists ends the request: silently after the last day,
\* with "User already completed this level" for complete-level.
FindCertificate(r) ==
  /\ reqs[r] # None
  /\ reqs[r].stage = "find"
  /\ Goto(r, IF findCertificate(reqs[r].userId, reqs[r].levelName) = {}
             THEN [reqs[r] EXCEPT !.stage = "create"]
             ELSE None)
  /\ UNCHANGED <<owned, progress, userTasks, certificates>>

\* A slip, for comparison: certifications without their index.
NoUniqueIndex(u, l) == TRUE

\* The unique index on userId and level_name.
UniqueCertificate(u, l) == findCertificate(u, l) = {}

CreateCertificate(r, id) ==
  /\ reqs[r] # None
  /\ reqs[r].stage = "create"
  /\ UniqueCertificate(reqs[r].userId, reqs[r].levelName)
  /\ certificates' = certificates \cup
       {[userId |-> reqs[r].userId, level_name |-> reqs[r].levelName,
         certificateId |-> id]}
  /\ Goto(r, None)
  /\ UNCHANGED <<owned, progress, userTasks>>

\* A duplicate key, a database error or a restart ends the request; what it
\* wrote stays.
FailRequest(r) ==
  /\ reqs[r] # None
  /\ Goto(r, None)
  /\ UNCHANGED <<owned, progress, userTasks, certificates>>

Next ==
  \/ \E u \in Users, l \in Levels : CompleteOrder(u, l)
  \/ \E r \in Requests :
       \/ \E u \in Users, l \in Levels, d \in Days : markDayAsCompleted(r, u, l, d)
       \/ \E u \in Users, t \in Task : markTaskAsCompleted(r, u, t)
       \/ \E u \in Users, l \in Levels : markLevelAsCompleted(r, u, l)
       \/ WriteDay(r)
       \/ WriteTask(r)
       \/ FindCertificate(r)
       \/ \E id \in CertificateIds : CreateCertificate(r, id)
       \/ FailRequest(r)

Spec == Init /\ [][Next]_vars

-----------------------------------------------------------------------------
(* Properties.                                                             *)

\* A learner's completed days are the first days of the level, without a
\* gap: requests that raced, that were checked against an older progress or
\* that failed half way never let one jump a day (markDayAsCompleted).
NoDaySkipped ==
  \A u \in Users, l \in Levels : \A d \in progress[u][l] :
    1 .. d \subseteq progress[u][l]

\* Tasks are completed only up to the day after the last completed one
\* (markTaskAsCompleted).
TasksWithinReach ==
  \A u \in Users : \A t \in userTasks[u] :
    HasReached(u, t.levelName, t.day - 1)

\* A level has one certificate per learner, however many of complete-day and
\* complete-level found none at the same time (certification.schema.ts).
OneCertificate ==
  \A c, d \in certificates :
    c.userId = d.userId /\ c.level_name = d.level_name => c = d

\* A certificate stands for a level that its owner bought and went through
\* to the last day, by either of the two ways to get it.
CertificateEarned ==
  \A c \in certificates :
    /\ c.level_name \in owned[c.userId]
    /\ progress[c.userId][c.level_name] = Days

\* A request that fails between the last day and the certificate leaves the
\* learner able to ask for it: who has the last day has a certificate or
\* passes the checks of complete-level (markLevelAsCompleted).
CertificateNotLost ==
  \A u \in Users, l \in Levels :
    LastDay \in progress[u][l] => findCertificate(u, l) # {} \/ MayFinish(u, l)

=============================================================================

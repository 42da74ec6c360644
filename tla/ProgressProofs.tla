--------------------------- MODULE ProgressProofs ---------------------------
(***************************************************************************)
(* Proofs about Progress and LearnerPage, for every number of learners,    *)
(* levels and concurrent requests and every length of a level.             *)
(***************************************************************************)
EXTENDS LearnerPage, FiniteSetTheorems, WellFoundedInduction, TLAPS

\* What a request was checked against stays true until it writes: orders and
\* completed days are never taken back.
Grounded(q) ==
  CASE q.stage = "day"  -> MayComplete(q.userId, q.levelName, q.day)
    [] q.stage = "task" -> MayComplete(q.userId, q.task.levelName, q.task.day)
    [] OTHER            -> /\ q.levelName \in owned[q.userId]
                           /\ LastDay \in progress[q.userId][q.levelName]

InFlight == \A r \in Requests : reqs[r] # None => Grounded(reqs[r])

\* Only customers of a level make progress in it.
ProgressIsOwned ==
  \A u \in Users, l \in Levels : progress[u][l] # {} => l \in owned[u]

IInv ==
  /\ TypeOK
  /\ InFlight
  /\ ProgressIsOwned
  /\ NoDaySkipped
  /\ TasksWithinReach
  /\ OneCertificate
  /\ CertificateEarned

-----------------------------------------------------------------------------
(* Facts about the queries.                                                *)

LEMMA LastDayIsADay == LastDay \in Days
BY ProgressAssumption DEF Days

\* The greatest completed day reaches the last one only if the last one is
\* completed.
LEMMA ReachedLastDay ==
  ASSUME TypeOK, NEW u \in Users, NEW l \in Levels, HasReached(u, l, LastDay)
  PROVE  LastDay \in progress[u][l]
<1>1. PICK d \in progress[u][l] : d >= LastDay
  BY ProgressAssumption DEF HasReached
<1>2. d \in 1 .. LastDay
  BY DEF TypeOK, Days
<1> QED
  BY <1>1, <1>2, ProgressAssumption

\* A completed day implies everything before it, so the day after the
\* greatest completed one closes no gap.
LEMMA NextDayInSequence ==
  ASSUME TypeOK, NoDaySkipped, NEW u \in Users, NEW l \in Levels,
         NEW day \in Days, HasReached(u, l, day - 1)
  PROVE  1 .. day \subseteq progress[u][l] \cup {day}
<1>1. CASE day - 1 = 0
  BY <1>1 DEF Days
<1>2. CASE day - 1 # 0
  <2>1. PICK d \in progress[u][l] : d >= day - 1
    BY <1>2 DEF HasReached
  <2>2. d \in Int /\ day \in Int
    BY DEF TypeOK, Days
  <2>3. 1 .. d \subseteq progress[u][l]
    BY DEF NoDaySkipped
  <2>4. \A n \in 1 .. day : n \in 1 .. d \/ n = day
    BY <2>1, <2>2
  <2> QED
    BY <2>3, <2>4
<1> QED
  BY <1>1, <1>2

\* Orders and days only grow, and with them what a learner may do.
LEMMA Monotone ==
  ASSUME TypeOK, TypeOK',
         \A u \in Users : owned[u] \subseteq owned'[u],
         \A u \in Users, l \in Levels : progress[u][l] \subseteq progress'[u][l],
         NEW u \in Users, NEW l \in Levels, NEW n \in Int
  PROVE  /\ HasReached(u, l, n) => HasReached(u, l, n)'
         /\ MayComplete(u, l, n) => MayComplete(u, l, n)'
BY DEF HasReached, MayComplete

LEMMA GroundKept ==
  ASSUME TypeOK, TypeOK',
         \A u \in Users : owned[u] \subseteq owned'[u],
         \A u \in Users, l \in Levels : progress[u][l] \subseteq progress'[u][l],
         NEW q \in Request, Grounded(q)
  PROVE  Grounded(q)'
<1>1. CASE q.stage = "day"
  <2>1. q.userId \in Users /\ q.levelName \in Levels /\ q.day \in Int
    BY <1>1 DEF Request, Days
  <2> QED
    BY <1>1, <2>1, Monotone DEF Grounded
<1>2. CASE q.stage = "task"
  <2>1. q.userId \in Users /\ q.task.levelName \in Levels /\ q.task.day \in Int
    BY <1>2 DEF Request, Task, Days
  <2> QED
    BY <1>2, <2>1, Monotone DEF Grounded
<1>3. CASE q.stage \notin {"day", "task"}
  <2>1. q.userId \in Users /\ q.levelName \in Levels
    BY <1>3 DEF Request
  <2> QED
    BY <1>3, <2>1 DEF Grounded
<1> QED
  BY <1>1, <1>2, <1>3

\* A step of request r leaves the ground of the others as it is.
LEMMA StepInFlight ==
  ASSUME TypeOK, TypeOK', InFlight,
         \A u \in Users : owned[u] \subseteq owned'[u],
         \A u \in Users, l \in Levels : progress[u][l] \subseteq progress'[u][l],
         NEW r \in Requests,
         \A q \in Requests \ {r} : reqs'[q] = reqs[q],
         reqs'[r] # None => Grounded(reqs[r])'
  PROVE  InFlight'
<1> SUFFICES ASSUME NEW q \in Requests, q # r, reqs'[q] # None
             PROVE  Grounded(reqs[q])'
  BY DEF InFlight
<1>1. PICK c \in Request : c = reqs[q]
  BY DEF TypeOK
<1>2. reqs'[q] = c
  BY <1>1
<1>3. Grounded(c)
  BY <1>1, <1>2 DEF InFlight
<1>4. Grounded(c)'
  BY <1>3, GroundKept
<1> QED
  BY <1>2, <1>4 DEF Grounded, MayComplete, HasReached

-----------------------------------------------------------------------------
(* Types.                                                                  *)

LEMMA NextTypeOK == TypeOK /\ [Next]_vars => TypeOK'
<1> SUFFICES ASSUME TypeOK, [Next]_vars
             PROVE  TypeOK'
  OBVIOUS
<1> USE DEF TypeOK, Goto
<1>1. ASSUME NEW u \in Users, NEW l \in Levels, CompleteOrder(u, l)
      PROVE  TypeOK'
  BY <1>1 DEF CompleteOrder
<1>2. ASSUME NEW r \in Requests, NEW u \in Users, NEW l \in Levels, NEW d \in Days,
             markDayAsCompleted(r, u, l, d)
      PROVE  TypeOK'
  BY <1>2 DEF markDayAsCompleted, Request
<1>3. ASSUME NEW r \in Requests, NEW u \in Users, NEW t \in Task,
             markTaskAsCompleted(r, u, t)
      PROVE  TypeOK'
  BY <1>3 DEF markTaskAsCompleted, Request
<1>4. ASSUME NEW r \in Requests, NEW u \in Users, NEW l \in Levels,
             markLevelAsCompleted(r, u, l)
      PROVE  TypeOK'
  BY <1>4 DEF markLevelAsCompleted, Request
<1>5. ASSUME NEW r \in Requests, WriteDay(r)
      PROVE  TypeOK'
  <2>1. /\ reqs[r].userId \in Users
        /\ reqs[r].levelName \in Levels
        /\ reqs[r].day \in Days
    BY <1>5 DEF WriteDay, Request
  <2>2. AfterDay(reqs[r]) \in Request \cup {None}
    BY <2>1 DEF AfterDay, Request
  <2> QED
    BY <1>5, <2>1, <2>2 DEF WriteDay
<1>6. ASSUME NEW r \in Requests, WriteTask(r)
      PROVE  TypeOK'
  BY <1>6 DEF WriteTask, Request
<1>7. ASSUME NEW r \in Requests, FindCertificate(r)
      PROVE  TypeOK'
  <2>1. [reqs[r] EXCEPT !.stage = "create"] \in Request
    BY <1>7 DEF FindCertificate, Request
  <2> QED
    BY <1>7, <2>1 DEF FindCertificate
<1>8. ASSUME NEW r \in Requests, NEW id \in CertificateIds, CreateCertificate(r, id)
      PROVE  TypeOK'
  <2>1. reqs[r].userId \in Users /\ reqs[r].levelName \in Levels
    BY <1>8 DEF CreateCertificate, Request
  <2> QED
    BY <1>8, <2>1 DEF CreateCertificate, Certification
<1>9. ASSUME NEW r \in Requests, FailRequest(r)
      PROVE  TypeOK'
  BY <1>9 DEF FailRequest
<1>10. CASE UNCHANGED vars
  BY <1>10 DEF vars
<1> QED
  BY <1>1, <1>2, <1>3, <1>4, <1>5, <1>6, <1>7, <1>8, <1>9, <1>10 DEF Next

-----------------------------------------------------------------------------
(* The invariant.                                                          *)

LEMMA InitIInv == Init => IInv
BY DEF Init, IInv, TypeOK, InFlight, ProgressIsOwned, NoDaySkipped,
       TasksWithinReach, OneCertificate, CertificateEarned

\* Steps that only start, turn or end a request.
LEMMA ControlStep ==
  ASSUME IInv, TypeOK', UNCHANGED <<owned, progress, userTasks, certificates>>,
         InFlight'
  PROVE  IInv'
BY DEF IInv, ProgressIsOwned, NoDaySkipped, TasksWithinReach, HasReached,
       OneCertificate, CertificateEarned

LEMMA CompleteOrderIInv ==
  ASSUME IInv, TypeOK', NEW u \in Users, NEW l \in Levels, CompleteOrder(u, l)
  PROVE  IInv'
<1> USE DEF IInv
<1>1. /\ \A v \in Users : owned[v] \subseteq owned'[v]
      /\ UNCHANGED <<progress, userTasks, certificates, reqs>>
  BY DEF CompleteOrder, TypeOK
<1>2. InFlight'
  BY <1>1, GroundKept DEF InFlight, TypeOK
<1>3. ProgressIsOwned' /\ NoDaySkipped' /\ TasksWithinReach' /\ OneCertificate'
  BY <1>1 DEF ProgressIsOwned, NoDaySkipped, TasksWithinReach, HasReached,
              OneCertificate
<1>4. CertificateEarned'
  BY <1>1 DEF CertificateEarned, TypeOK, Certification
<1> QED
  BY <1>2, <1>3, <1>4

LEMMA WriteDayIInv ==
  ASSUME IInv, TypeOK', NEW r \in Requests, WriteDay(r)
  PROVE  IInv'
<1> USE DEF IInv
<1> DEFINE u == reqs[r].userId
           l == reqs[r].levelName
           day == reqs[r].day
<1>1. /\ u \in Users /\ l \in Levels /\ day \in Days /\ day \in Int
      /\ MayComplete(u, l, day)
  BY DEF WriteDay, TypeOK, Request, InFlight, Grounded, Days
<1>2. /\ progress'[u][l] = progress[u][l] \cup {day}
      /\ \A v \in Users, k \in Levels :
           <<v, k>> # <<u, l>> => progress'[v][k] = progress[v][k]
      /\ UNCHANGED <<owned, userTasks, certificates>>
  BY <1>1 DEF WriteDay, TypeOK
<1>3. /\ \A v \in Users : owned[v] \subseteq owned'[v]
      /\ \A v \in Users, k \in Levels : progress[v][k] \subseteq progress'[v][k]
  BY <1>2
<1>4. InFlight'
  <2>1. reqs'[r] = AfterDay(reqs[r]) /\ \A q \in Requests \ {r} : reqs'[q] = reqs[q]
    BY DEF WriteDay, Goto, TypeOK
  <2>2. reqs'[r] # None => Grounded(reqs[r])'
    <3> SUFFICES ASSUME day = LastDay
                 PROVE  Grounded(reqs[r])'
      BY <2>1 DEF AfterDay
    <3>1. reqs'[r] = [stage |-> "find", userId |-> u, levelName |-> l]
      BY <2>1 DEF AfterDay
    <3>2. l \in owned'[u] /\ LastDay \in progress'[u][l]
      BY <1>1, <1>2 DEF MayComplete
    <3> QED
      BY <3>1, <3>2 DEF Grounded
  <2> QED
    BY <1>3, <2>1, <2>2, StepInFlight
<1>5. ProgressIsOwned'
  BY <1>1, <1>2 DEF ProgressIsOwned, MayComplete
<1>6. NoDaySkipped'
  <2>1. 1 .. day \subseteq progress'[u][l]
    BY <1>1, <1>2, NextDayInSequence DEF MayComplete
  <2> SUFFICES ASSUME NEW v \in Users, NEW k \in Levels, NEW d \in progress'[v][k]
               PROVE  1 .. d \subseteq progress'[v][k]
    BY DEF NoDaySkipped
  <2>2. CASE d \in progress[v][k]
    BY <1>3, <2>2 DEF NoDaySkipped
  <2>3. CASE d \notin progress[v][k]
    <3>1. v = u /\ k = l /\ d = day
      BY <1>2, <2>3
    <3> QED
      BY <2>1, <3>1
  <2> QED
    BY <2>2, <2>3
<1>7. TasksWithinReach'
  <2> SUFFICES ASSUME NEW v \in Users, NEW t \in userTasks[v]
               PROVE  HasReached(v, t.levelName, t.day - 1)'
    BY <1>2 DEF TasksWithinReach
  <2>1. t.levelName \in Levels /\ t.day - 1 \in Int
    BY DEF TypeOK, Task, Days
  <2>2. HasReached(v, t.levelName, t.day - 1)
    BY DEF TasksWithinReach
  <2> QED
    BY <1>3, <2>1, <2>2, Monotone
<1>8. OneCertificate'
  BY <1>2 DEF OneCertificate
<1>9. CertificateEarned'
  <2> SUFFICES ASSUME NEW c \in certificates
               PROVE  progress'[c.userId][c.level_name] = Days
    BY <1>2 DEF CertificateEarned
  <2>1. c.userId \in Users /\ c.level_name \in Levels
    BY DEF TypeOK, Certification
  <2>2. progress[c.userId][c.level_name] = Days
    BY DEF CertificateEarned
  <2>3. progress'[c.userId][c.level_name] \subseteq Days
    BY <2>1 DEF TypeOK
  <2> QED
    BY <1>3, <2>1, <2>2, <2>3
<1> QED
  BY <1>4, <1>5, <1>6, <1>7, <1>8, <1>9

LEMMA WriteTaskIInv ==
  ASSUME IInv, TypeOK', NEW r \in Requests, WriteTask(r)
  PROVE  IInv'
<1> USE DEF IInv
<1>1. /\ UNCHANGED <<owned, progress, certificates>>
      /\ reqs'[r] = None
      /\ \A q \in Requests \ {r} : reqs'[q] = reqs[q]
  BY DEF WriteTask, Goto, TypeOK
<1>2. InFlight'
  BY <1>1, StepInFlight
<1>3. TasksWithinReach'
  <2>1. /\ reqs[r].userId \in Users
        /\ HasReached(reqs[r].userId, reqs[r].task.levelName, reqs[r].task.day - 1)
    BY DEF WriteTask, TypeOK, Request, InFlight, Grounded, MayComplete
  <2> QED
    BY <1>1, <2>1 DEF WriteTask, TypeOK, TasksWithinReach, HasReached
<1>4. ProgressIsOwned' /\ NoDaySkipped' /\ OneCertificate' /\ CertificateEarned'
  BY <1>1 DEF ProgressIsOwned, NoDaySkipped, OneCertificate, CertificateEarned
<1> QED
  BY <1>2, <1>3, <1>4

LEMMA CreateCertificateIInv ==
  ASSUME IInv, TypeOK', NEW r \in Requests, NEW id \in CertificateIds,
         CreateCertificate(r, id)
  PROVE  IInv'
<1> USE DEF IInv
<1> DEFINE u == reqs[r].userId
           l == reqs[r].levelName
           new == [userId |-> u, level_name |-> l, certificateId |-> id]
<1>1. /\ u \in Users /\ l \in Levels
      /\ l \in owned[u]
      /\ LastDay \in progress[u][l]
  BY DEF CreateCertificate, TypeOK, Request, InFlight, Grounded
<1>2. /\ UNCHANGED <<owned, progress, userTasks>>
      /\ certificates' = certificates \cup {new}
      /\ reqs'[r] = None
      /\ \A q \in Requests \ {r} : reqs'[q] = reqs[q]
  BY DEF CreateCertificate, Goto, TypeOK
<1>3. InFlight'
  BY <1>2, StepInFlight
<1>4. OneCertificate'
  <2>1. \A c \in certificates : ~ (c.userId = u /\ c.level_name = l)
    BY DEF CreateCertificate, UniqueCertificate, findCertificate
  <2> QED
    BY <1>2, <2>1 DEF OneCertificate
<1>5. CertificateEarned'
  <2>1. progress[u][l] = Days
    <3>1. 1 .. LastDay \subseteq progress[u][l]
      BY <1>1 DEF NoDaySkipped
    <3>2. progress[u][l] \subseteq Days
      BY <1>1 DEF TypeOK
    <3> QED
      BY <3>1, <3>2 DEF Days
  <2> QED
    BY <1>1, <1>2, <2>1 DEF CertificateEarned
<1>6. ProgressIsOwned' /\ NoDaySkipped' /\ TasksWithinReach'
  BY <1>2 DEF ProgressIsOwned, NoDaySkipped, TasksWithinReach, HasReached
<1> QED
  BY <1>3, <1>4, <1>5, <1>6

LEMMA NextIInv == IInv /\ [Next]_vars => IInv'
<1> SUFFICES ASSUME IInv, [Next]_vars
             PROVE  IInv'
  OBVIOUS
<1>0. TypeOK' /\ TypeOK /\ InFlight
  BY NextTypeOK DEF IInv
<1>1. ASSUME NEW r \in Requests, NEW u \in Users, NEW l \in Levels, NEW d \in Days,
             markDayAsCompleted(r, u, l, d)
      PROVE  IInv'
  <2>1. /\ UNCHANGED <<owned, progress, userTasks, certificates>>
        /\ reqs'[r] = [stage |-> "day", userId |-> u, levelName |-> l, day |-> d]
        /\ \A q \in Requests \ {r} : reqs'[q] = reqs[q]
        /\ MayComplete(u, l, d)
    BY <1>0, <1>1 DEF markDayAsCompleted, Goto, TypeOK
  <2>2. Grounded(reqs[r])'
    BY <2>1 DEF Grounded, MayComplete, HasReached
  <2> QED
    BY <1>0, <2>1, <2>2, StepInFlight, ControlStep
<1>2. ASSUME NEW r \in Requests, NEW u \in Users, NEW t \in Task,
             markTaskAsCompleted(r, u, t)
      PROVE  IInv'
  <2>1. /\ UNCHANGED <<owned, progress, userTasks, certificates>>
        /\ reqs'[r] = [stage |-> "task", userId |-> u, task |-> t]
        /\ \A q \in Requests \ {r} : reqs'[q] = reqs[q]
        /\ MayComplete(u, t.levelName, t.day)
    BY <1>0, <1>2 DEF markTaskAsCompleted, Goto, TypeOK
  <2>2. Grounded(reqs[r])'
    BY <2>1 DEF Grounded, MayComplete, HasReached
  <2> QED
    BY <1>0, <2>1, <2>2, StepInFlight, ControlStep
<1>3. ASSUME NEW r \in Requests, NEW u \in Users, NEW l \in Levels,
             markLevelAsCompleted(r, u, l)
      PROVE  IInv'
  <2>1. LastDay \in progress[u][l] /\ l \in owned[u]
    BY <1>0, <1>3, ReachedLastDay DEF markLevelAsCompleted, MayFinish
  <2>2. /\ UNCHANGED <<owned, progress, userTasks, certificates>>
        /\ reqs'[r] = [stage |-> "find", userId |-> u, levelName |-> l]
        /\ \A q \in Requests \ {r} : reqs'[q] = reqs[q]
    BY <1>0, <1>3 DEF markLevelAsCompleted, Goto, TypeOK
  <2>3. Grounded(reqs[r])'
    BY <2>1, <2>2 DEF Grounded
  <2> QED
    BY <1>0, <2>2, <2>3, StepInFlight, ControlStep
<1>4. ASSUME NEW r \in Requests, FindCertificate(r)
      PROVE  IInv'
  <2>1. PICK c \in Request : c = reqs[r] /\ c.stage = "find" /\ Grounded(c)
    BY <1>0, <1>4 DEF FindCertificate, InFlight, TypeOK
  <2>2. /\ UNCHANGED <<owned, progress, userTasks, certificates>>
        /\ reqs'[r] \in {[c EXCEPT !.stage = "create"], None}
        /\ \A q \in Requests \ {r} : reqs'[q] = reqs[q]
    BY <1>0, <1>4, <2>1 DEF FindCertificate, Goto, TypeOK
  <2>3. /\ [c EXCEPT !.stage = "create"].stage = "create"
        /\ [c EXCEPT !.stage = "create"].userId = c.userId
        /\ [c EXCEPT !.stage = "create"].levelName = c.levelName
    BY <2>1 DEF Request
  <2>4. reqs'[r] # None => Grounded(reqs[r])'
    BY <2>1, <2>2, <2>3 DEF Grounded
  <2> QED
    BY <1>0, <2>2, <2>4, StepInFlight, ControlStep
<1>5. ASSUME NEW r \in Requests, FailRequest(r)
      PROVE  IInv'
  BY <1>0, <1>5, StepInFlight, ControlStep DEF FailRequest, Goto, TypeOK
<1>6. CASE UNCHANGED vars
  BY <1>0, <1>6, ControlStep DEF vars, InFlight, Grounded, MayComplete, HasReached
<1> QED
  BY <1>0, <1>1, <1>2, <1>3, <1>4, <1>5, <1>6, CompleteOrderIInv, WriteDayIInv,
     WriteTaskIInv, CreateCertificateIInv DEF Next

-----------------------------------------------------------------------------
(* What the pages conclude.                                                *)

\* Every non-empty set of natural numbers has a least element.
LEMMA LeastNumber ==
  ASSUME NEW S \in SUBSET Nat, S # {}
  PROVE  \E n \in S : \A m \in S : n <= m
<1> DEFINE R == {p \in Nat \X Nat : p[1] < p[2]}
<1>1. IsWellFoundedOn(R, Nat)
  BY NatLessThanWellFounded DEF OpToRel
<1>2. \A m, n \in Nat : m < n => <<m, n>> \in R
  OBVIOUS
<1> HIDE DEF R
<1>3. PICK n \in S : \A m \in S : ~ (<<m, n>> \in R)
  BY <1>1, WFMin
<1>4. ASSUME NEW m \in S PROVE n <= m
  <2>1. m \in Nat /\ n \in Nat
    OBVIOUS
  <2>2. ~ (m < n)
    BY <1>2, <1>3, <2>1
  <2> QED
    BY <2>1, <2>2
<1> QED
  BY <1>4

\* There is a greatest day among some days of a level: the one with the
\* fewest days left.
LEMMA GreatestDay ==
  ASSUME NEW S \in SUBSET Days, S # {}
  PROVE  Max(S) \in S /\ \A d \in S : d <= Max(S)
<1> DEFINE Left == {LastDay - d : d \in S}
<1>1. Left \in SUBSET Nat /\ Left # {}
  <2>1. \A d \in S : LastDay - d \in Nat
    BY ProgressAssumption DEF Days
  <2> QED
    BY <2>1
<1>2. PICK n \in Left : \A m \in Left : n <= m
  <2> HIDE DEF Left
  <2> QED
    BY <1>1, LeastNumber
<1>3. PICK d \in S : n = LastDay - d
  OBVIOUS
<1>4. \A e \in S : d >= e
  <2> SUFFICES ASSUME NEW e \in S PROVE d >= e
    OBVIOUS
  <2>1. LastDay - d <= LastDay - e
    BY <1>2, <1>3
  <2> QED
    BY <2>1, ProgressAssumption DEF Days
<1>5. Max(S) \in S /\ \A e \in S : Max(S) >= e
  BY <1>4 DEF Max
<1>6. S \subseteq Int
  BY DEF Days
<1> QED
  BY <1>5, <1>6

LEMMA GreatestCompletedDay ==
  ASSUME TypeOK, NEW u \in Users, NEW l \in Levels
  PROVE  /\ userProgress(u, l) \in 0 .. LastDay
         /\ userProgress(u, l) # 0 => userProgress(u, l) \in progress[u][l]
         /\ \A d \in progress[u][l] : d <= userProgress(u, l)
<1>1. progress[u][l] \in SUBSET Days
  BY DEF TypeOK
<1>2. CASE progress[u][l] = {}
  BY <1>2, ProgressAssumption DEF userProgress
<1>3. CASE progress[u][l] # {}
  BY <1>1, <1>3, GreatestDay, ProgressAssumption DEF userProgress, Days
<1> QED
  BY <1>2, <1>3

LEMMA LesserOfTwo ==
  ASSUME NEW a \in Int, NEW b \in Int
  PROVE  Min({a, b}) = IF a <= b THEN a ELSE b
<1> DEFINE least == IF a <= b THEN a ELSE b
<1>1. least \in {a, b} /\ \A y \in {a, b} : least <= y
  OBVIOUS
<1>2. Min({a, b}) \in {a, b} /\ \A y \in {a, b} : Min({a, b}) <= y
  BY <1>1 DEF Min
<1> QED
  BY <1>2

\* The day a page shows is the day after the greatest completed one, as long
\* as there is one.
LEMMA DayToGoOnWith ==
  ASSUME TypeOK, NEW u \in Users, NEW l \in Levels
  PROVE  currentDay(u, l) = IF userProgress(u, l) < LastDay
                            THEN userProgress(u, l) + 1 ELSE LastDay
<1>1. userProgress(u, l) \in Int /\ LastDay \in Int
  BY GreatestCompletedDay, ProgressAssumption
<1>2. Min({userProgress(u, l) + 1, LastDay}) =
        IF userProgress(u, l) + 1 <= LastDay THEN userProgress(u, l) + 1 ELSE LastDay
  BY <1>1, LesserOfTwo
<1> QED
  BY <1>1, <1>2 DEF currentDay

LEMMA PageOfALevel ==
  ASSUME IInv, NEW u \in Users, NEW l \in Levels, l \in owned[u]
  PROVE  /\ MayComplete(u, l, currentDay(u, l))
         /\ currentDay(u, l) < LastDay => ~ MayComplete(u, l, currentDay(u, l) + 1)
         /\ isCompleted(u, l) => currentDay(u, l) = LastDay
         /\ \A day \in currentDay(u, l) + 1 .. LastDay :
              getCompletedTasksInDay(u, l, day) = {}
<1> DEFINE p == userProgress(u, l)
           c == currentDay(u, l)
<1>1. /\ TypeOK /\ TasksWithinReach /\ CertificateEarned
      /\ LastDay \in Nat \ {0}
  BY ProgressAssumption DEF IInv
<1>2. /\ p \in 0 .. LastDay
      /\ p # 0 => p \in progress[u][l]
      /\ \A d \in progress[u][l] : d <= p
  BY <1>1, GreatestCompletedDay
<1>3. c = IF p < LastDay THEN p + 1 ELSE LastDay
  BY <1>1, DayToGoOnWith
<1>4. progress[u][l] \subseteq Int
  BY <1>1 DEF TypeOK, Days
<1> HIDE DEF p, c
<1>5. HasReached(u, l, c - 1)
  BY <1>1, <1>2, <1>3 DEF HasReached
<1>6. \A n \in Int : n > p => ~ HasReached(u, l, n)
  BY <1>2, <1>4 DEF HasReached
<1>7. MayComplete(u, l, c)
  BY <1>5 DEF MayComplete
<1>8. ASSUME c < LastDay PROVE ~ MayComplete(u, l, c + 1)
  <2>1. c = p + 1 /\ p \in Int
    BY <1>1, <1>2, <1>3, <1>8
  <2>2. (c + 1) - 1 \in Int /\ (c + 1) - 1 > p
    BY <2>1
  <2> QED
    BY <1>6, <2>2 DEF MayComplete
<1>9. ASSUME isCompleted(u, l) PROVE c = LastDay
  <2>1. PICK cert \in certificates : cert.userId = u /\ cert.level_name = l
    BY <1>9 DEF isCompleted, findCertificate
  <2>2. LastDay \in progress[u][l]
    BY <1>1, <2>1, LastDayIsADay DEF CertificateEarned
  <2> QED
    BY <1>1, <1>2, <1>3, <2>2
<1>10. ASSUME NEW day \in c + 1 .. LastDay
       PROVE  getCompletedTasksInDay(u, l, day) = {}
  <2>1. c = p + 1 /\ p \in Int /\ day \in Int
    BY <1>1, <1>2, <1>3
  <2>2. day - 1 \in Int /\ day - 1 > p
    BY <2>1
  <2>3. ~ \E t \in userTasks[u] : t.levelName = l /\ t.day = day
    BY <1>1, <1>6, <2>2 DEF TasksWithinReach
  <2> QED
    BY <2>3 DEF getCompletedTasksInDay
<1> QED
  BY <1>7, <1>8, <1>9, <1>10 DEF p, c

\* The owners of a level's certificates are as many as its certificates.
LEMMA CompletionsAreOwners ==
  ASSUME IInv, NEW l \in Levels
  PROVE  totalCompletions(l) <= Cardinality({u \in Users : l \in purchasedLevelNames(u)})
<1> DEFINE Completions == {c \in certificates : c.level_name = l}
           Owners == {u \in Users : l \in purchasedLevelNames(u)}
           OwnerOf == [c \in Completions |-> c.userId]
<1>1. \A c \in Completions : OwnerOf[c] \in Owners
  BY DEF IInv, TypeOK, Certification, CertificateEarned, purchasedLevelNames
<1>2. \A c, d \in Completions : OwnerOf[c] = OwnerOf[d] => c = d
  BY DEF IInv, OneCertificate
<1>3. OwnerOf \in Injection(Completions, Owners)
  BY <1>1, <1>2 DEF Injection, IsInjective
<1>4. IsFiniteSet(Owners)
  <2>1. Owners \in SUBSET Users
    OBVIOUS
  <2> HIDE DEF Owners
  <2> QED
    BY <2>1, LearnerPageAssumption, FS_Subset
<1>5. Cardinality(Completions) <= Cardinality(Owners)
  <2> HIDE DEF Completions, Owners, OwnerOf
  <2> QED
    BY <1>3, <1>4, FS_Injection
<1> QED
  BY <1>5 DEF totalCompletions

-----------------------------------------------------------------------------
(* Theorems.                                                               *)

\* Every document and every request in flight is well formed.
THEOREM ProgressTypeCorrect == Spec => []TypeOK
<1>1. IInv => TypeOK
  BY DEF IInv
<1> QED
  BY <1>1, InitIInv, NextIInv, PTL DEF Spec

\* Nobody jumps a day, whatever requests race or fail.
THEOREM DaysInSequence == Spec => []NoDaySkipped
<1>1. IInv => NoDaySkipped
  BY DEF IInv
<1> QED
  BY <1>1, InitIInv, NextIInv, PTL DEF Spec

\* Nobody completes a task beyond the next day.
THEOREM TasksInReach == Spec => []TasksWithinReach
<1>1. IInv => TasksWithinReach
  BY DEF IInv
<1> QED
  BY <1>1, InitIInv, NextIInv, PTL DEF Spec

\* A learner has at most one certificate of a level.
THEOREM CertificatesAreUnique == Spec => []OneCertificate
<1>1. IInv => OneCertificate
  BY DEF IInv
<1> QED
  BY <1>1, InitIInv, NextIInv, PTL DEF Spec

\* A certificate stands for a level bought and gone through.
THEOREM CertificatesAreEarned == Spec => []CertificateEarned
<1>1. IInv => CertificateEarned
  BY DEF IInv
<1> QED
  BY <1>1, InitIInv, NextIInv, PTL DEF Spec

\* A failed request never strands a learner without a certificate.
THEOREM CertificatesAreNotLost == Spec => []CertificateNotLost
<1>1. IInv => CertificateNotLost
  BY LastDayIsADay, ProgressAssumption
     DEF IInv, CertificateNotLost, ProgressIsOwned, MayFinish, HasReached
<1> QED
  BY <1>1, InitIInv, NextIInv, PTL DEF Spec

\* Whatever races and fails, the pages show a learner the day to go on with,
\* nothing of later days and no completed level that is not, and the
\* dashboard no more completions of a level than learners who bought it.
THEOREM PagesLeadOn == Spec => []PageLeadsOn
<1>1. ASSUME IInv PROVE PageLeadsOn
  <2>1. ASSUME NEW u \in Users, NEW d \in levelsDetails(u)
        PROVE  /\ MayComplete(u, d.levelName, d.currentDay)
               /\ d.currentDay < LastDay => ~ MayComplete(u, d.levelName, d.currentDay + 1)
               /\ d.isCompleted => d.currentDay = LastDay
               /\ \A day \in d.currentDay + 1 .. LastDay :
                    getCompletedTasksInDay(u, d.levelName, day) = {}
    <3>1. PICK l \in owned[u] :
            d = [levelName |-> l, currentDay |-> currentDay(u, l),
                 isCompleted |-> isCompleted(u, l)]
      BY <2>1 DEF levelsDetails, purchasedLevelNames
    <3>2. l \in Levels
      BY <1>1 DEF IInv, TypeOK
    <3>3. d.levelName = l /\ d.currentDay = currentDay(u, l)
      BY <3>1
    <3>4. d.isCompleted = isCompleted(u, l)
      BY <3>1
    <3> QED
      BY <1>1, <3>2, <3>3, <3>4, PageOfALevel
  <2> QED
    BY <1>1, <2>1, CompletionsAreOwners DEF PageLeadsOn
<1> QED
  BY <1>1, InitIInv, NextIInv, PTL DEF Spec

=============================================================================

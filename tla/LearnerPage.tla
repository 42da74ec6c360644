----------------------------- MODULE LearnerPage ------------------------------
(***************************************************************************)
(* What the pages of a learner and of the administrators conclude from     *)
(* progress and certificates (both getUserDetails, getCompletedTasksInDay, *)
(* getLevelStatistics): the bought levels, the day to go on with, and who  *)
(* has completed a level.  A page is taken to read everything at one       *)
(* moment, without errors (after which it shows day 1, not completed).     *)
(***************************************************************************)
EXTENDS Progress, FiniteSetsExt

\* At any time finitely many users have registered.
ASSUME LearnerPageAssumption == IsFiniteSet(Users)

\* The greatest completed day, or 0.
userProgress(u, l) == IF progress[u][l] = {} THEN 0 ELSE Max(progress[u][l])

\* The levels of the user's completed orders.
purchasedLevelNames(u) == owned[u]

\* A slip, for comparison: the last completed day.
LastCompletedDay(u, l) == Max({userProgress(u, l), 1})

\* Math.min(completedDays + 1, 50)
currentDay(u, l) == Min({userProgress(u, l) + 1, LastDay})

isCompleted(u, l) == findCertificate(u, l) # {}

levelsDetails(u) ==
  {[levelName |-> l, currentDay |-> currentDay(u, l), isCompleted |-> isCompleted(u, l)] :
     l \in purchasedLevelNames(u)}

getCompletedTasksInDay(u, l, day) ==
  {t.name : t \in {task \in userTasks[u] : task.levelName = l /\ task.day = day}}

\* "completed" of getLevelStatistics.
totalCompletions(l) == Cardinality({c \in certificates : c.level_name = l})

-----------------------------------------------------------------------------

\* The page leads a learner on, whatever requests race or fail: the day it
\* shows is one that complete-day accepts and the day after it is not, no
\* task of a later day is shown as completed, and a level shown as completed
\* is at its last day.  The dashboard shows no more completions of a level
\* than there are learners who bought it (getUserDetails, markDayAsCompleted,
\* getCompletedTasksInDay, getLevelStatistics).
PageLeadsOn ==
  /\ \A u \in Users : \A d \in levelsDetails(u) :
       /\ MayComplete(u, d.levelName, d.currentDay)
       /\ d.currentDay < LastDay => ~ MayComplete(u, d.levelName, d.currentDay + 1)
       /\ d.isCompleted => d.currentDay = LastDay
       /\ \A day \in d.currentDay + 1 .. LastDay :
            getCompletedTasksInDay(u, d.levelName, day) = {}
  /\ \A l \in Levels :
       totalCompletions(l) <= Cardinality({u \in Users : l \in purchasedLevelNames(u)})

=============================================================================

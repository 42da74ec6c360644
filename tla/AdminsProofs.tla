----------------------------- MODULE AdminsProofs -----------------------------
(***************************************************************************)
(* Proofs about Admins, for all administrators, requests and instances:    *)
(* type correctness, what takes the last active SUPER away, and what the   *)
(* seeding leaves behind.                                                  *)
(***************************************************************************)
EXTENDS Admins, FiniteSetTheorems, TLAPS

\* The administrators who are SUPER, active or not: what updateAdmin and
\* deactivateAdmin refuse to deactivate.
IsSuper(a) == admins[a] # None /\ admins[a].adminRole = "SUPER"

Demotes(r) == r.op = "updateAdmin" /\ r.update.adminRole = "MANAGER"

\* What a request carries, by its operation.
Carries(r) ==
  /\ r.op = "createAdmin" =>
       /\ r.update \in Update
       /\ r.update.email \in Emails /\ r.update.adminRole \in AdminRole
  /\ r.op # "createAdmin" => r.target \in Ids
  /\ r.op = "updateAdmin" => r.update \in Update
  /\ r.call = "count" => r.op = "deleteAdmin"

\* What a request checked still holds if the collection is as it was.
CheckStands(r) ==
  ~ r.changed /\ r.call = "store" =>
    /\ r.op = "updateAdmin" /\ r.update.isActive = FALSE => ~ IsSuper(r.target)
    /\ r.op = "deactivateAdmin" => ~ IsSuper(r.target)
    /\ r.op = "deleteAdmin" =>
         ~ IsSuper(r.target) \/ Cardinality(ActiveSupers) > 1

RequestsSound ==
  \A p \in Processes :
    requests[p] # None => Carries(requests[p]) /\ CheckStands(requests[p])

\* Insert stores at an unused place.
PlacesUnused == \A a \in Ids : a > created => admins[a] = None

IInv == TypeOK /\ RequestsSound /\ PlacesUnused

-----------------------------------------------------------------------------
(* Administrators.                                                         *)

LEMMA ActiveSupersFinite ==
  IsFiniteSet(ActiveSupers) /\ Cardinality(ActiveSupers) \in Nat
<1>1. MaxAdmins \in Nat
  BY AdminsAssumption
<1>2. IsFiniteSet(Ids)
  BY <1>1, FS_Interval DEF Ids
<1>3. ActiveSupers \subseteq Ids
  BY DEF ActiveSupers
<1> QED
  BY <1>2, <1>3, FS_Subset, FS_CardinalityType

\* Where there are two, there is one besides any.
LEMMA AnotherSuper ==
  ASSUME Cardinality(ActiveSupers) > 1, NEW a
  PROVE  \E b \in ActiveSupers : b # a
<1>1. SUFFICES ASSUME \A b \in ActiveSupers : b = a PROVE FALSE
  OBVIOUS
<1>2. ActiveSupers \subseteq {a}
  BY <1>1
<1>3. IsFiniteSet({a}) /\ Cardinality({a}) = 1
  BY FS_Singleton
<1>4. Cardinality(ActiveSupers) <= 1
  BY <1>2, <1>3, FS_Subset
<1> QED
  BY <1>4, ActiveSupersFinite

\* Who is active and SUPER depends on the collection alone.
LEMMA SameAdmins ==
  ASSUME admins' = admins
  PROVE  /\ ActiveSupers' = ActiveSupers
         /\ \A a : IsSuper(a)' <=> IsSuper(a)
         /\ \A r : CheckStands(r)' <=> CheckStands(r)
BY DEF ActiveSupers, IsActive, IsSuper, CheckStands

LEMMA RunningRequest ==
  ASSUME IInv, NEW p \in Processes, requests[p] # None
  PROVE  /\ requests[p] \in Request
         /\ requests[p] # None
         /\ Carries(requests[p])
         /\ CheckStands(requests[p])
BY DEF IInv, TypeOK, RequestsSound

-----------------------------------------------------------------------------
(* Requests.                                                               *)

\* A request begins: what it is given, and what its guard saw.
LEMMA NewRequestInv ==
  ASSUME IInv, NEW p \in Processes,
         NEW op \in {"createAdmin", "updateAdmin", "deleteAdmin", "deactivateAdmin", "login"},
         NEW target \in Ids \cup {None},
         NEW update \in Update \cup {None}, NEW call \in {"count", "store"},
         NewRequest(p, op, target, update, call),
         op = "createAdmin" =>
           /\ update \in Update
           /\ update.email \in Emails /\ update.adminRole \in AdminRole,
         op # "createAdmin" => target \in Ids,
         op = "updateAdmin" =>
           update \in Update /\ (update.isActive = FALSE => ~ IsSuper(target)),
         op = "deactivateAdmin" => ~ IsSuper(target),
         op = "deleteAdmin" /\ call = "store" => ~ IsSuper(target),
         call = "count" => op = "deleteAdmin"
  PROVE  IInv'
<1> DEFINE r == [op |-> op, target |-> target, update |-> update, call |-> call,
                 changed |-> FALSE]
<1>1. r \in Request
  BY DEF Request
<1>2. r.op = op /\ r.target = target /\ r.update = update
        /\ r.call = call
  OBVIOUS
<1>3. Carries(r) /\ CheckStands(r)
  BY <1>2 DEF Carries, CheckStands
<1> HIDE DEF r
<1>4. /\ requests' = [requests EXCEPT ![p] = r]
      /\ UNCHANGED <<admins, boots, created, tokens>>
  BY DEF NewRequest, r
<1>5. TypeOK'
  BY <1>1, <1>4 DEF IInv, TypeOK
<1>6. \A q \in Processes : requests'[q] = IF q = p THEN r ELSE requests[q]
  BY <1>4 DEF IInv, TypeOK
<1>7. RequestsSound'
  BY <1>3, <1>4, <1>6, SameAdmins DEF IInv, RequestsSound, Carries
<1>8. PlacesUnused'
  BY <1>4 DEF IInv, PlacesUnused
<1> QED
  BY <1>5, <1>7, <1>8 DEF IInv

\* A request ends, the collection is left alone.
LEMMA FinishInv ==
  ASSUME IInv, NEW p \in Processes, requests' = Finish(p),
         tokens' \subseteq Ids, UNCHANGED <<admins, boots, created>>
  PROVE  IInv'
<1>1. TypeOK'
  BY DEF IInv, TypeOK, Finish
<1>2. \A q \in Processes : requests'[q] = IF q = p THEN None ELSE requests[q]
  BY DEF IInv, TypeOK, Finish
<1>3. RequestsSound'
  BY <1>2, SameAdmins DEF IInv, RequestsSound, Carries
<1>4. PlacesUnused'
  BY DEF IInv, PlacesUnused
<1> QED
  BY <1>1, <1>3, <1>4 DEF IInv

\* The collection changes: what the other requests checked is now old.
LEMMA ChangeInv ==
  ASSUME IInv,
         admins' \in [Ids -> Admin \cup {None}],
         requests' \in [Processes -> Request \cup {None}],
         boots' \in [Instances -> {"find", "create", None}],
         created' \in 0 .. MaxAdmins, tokens' \subseteq Ids,
         \A q \in Processes : requests'[q] # None =>
           requests[q] # None /\ requests'[q] = [requests[q] EXCEPT !.changed = TRUE],
         PlacesUnused'
  PROVE  IInv'
<1>1. TypeOK'
  BY DEF TypeOK
<1>2. ASSUME NEW q \in Processes, requests'[q] # None
      PROVE  Carries(requests[q])' /\ CheckStands(requests[q])'
  <2>1. requests[q] \in Request /\ Carries(requests[q])
    BY <1>2, RunningRequest
  <2>2. /\ requests'[q].op = requests[q].op
        /\ requests'[q].update = requests[q].update
        /\ requests'[q].target = requests[q].target
        /\ requests'[q].call = requests[q].call
        /\ requests'[q].changed = TRUE
    BY <1>2, <2>1 DEF Request
  <2> QED
    BY <2>1, <2>2 DEF Carries, CheckStands
<1>3. RequestsSound'
  BY <1>2 DEF RequestsSound
<1> QED
  BY <1>1, <1>3 DEF IInv

LEMMA FinishChangedType ==
  ASSUME IInv, NEW p \in Processes, requests' = FinishChanged(p)
  PROVE  /\ requests' \in [Processes -> Request \cup {None}]
         /\ requests'[p] = None
         /\ \A q \in Processes : requests'[q] # None =>
              requests[q] # None /\ requests'[q] = [requests[q] EXCEPT !.changed = TRUE]
<1>1. requests \in [Processes -> Request \cup {None}]
  BY DEF IInv, TypeOK
<1>2. \A r \in Request : [r EXCEPT !.changed = TRUE] \in Request
  BY DEF Request
<1>3. ASSUME NEW q \in Processes
      PROVE  requests'[q] = IF q = p \/ requests[q] = None THEN None
                            ELSE [requests[q] EXCEPT !.changed = TRUE]
  BY <1>1 DEF FinishChanged, Finish
<1>4. ASSUME NEW q \in Processes PROVE requests'[q] \in Request \cup {None}
  BY <1>1, <1>2, <1>3
<1>5. requests' = [q \in Processes |-> requests'[q]]
  BY DEF FinishChanged
<1> QED
  BY <1>3, <1>4, <1>5

-----------------------------------------------------------------------------
(* The collection.                                                         *)

LEMMA InsertKeeps ==
  ASSUME IInv, NEW e \in Emails, NEW role \in AdminRole, Insert(e, role)
  PROVE  /\ admins' \in [Ids -> Admin \cup {None}]
         /\ created' \in 0 .. MaxAdmins
         /\ PlacesUnused'
         /\ WithEmail(e)' # {}
         /\ ActiveSupers \subseteq ActiveSupers'
<1> DEFINE d == [email |-> e, adminRole |-> role, isActive |-> TRUE]
<1>1. d \in Admin /\ d.email = e
  BY DEF Admin
<1> HIDE DEF d
<1>2. /\ created < MaxAdmins /\ created' = created + 1
      /\ admins' = [admins EXCEPT ![created + 1] = d]
  BY DEF Insert, d
<1>3. /\ admins \in [Ids -> Admin \cup {None}]
      /\ created \in 0 .. MaxAdmins /\ MaxAdmins \in Nat
      /\ None \notin Admin
  BY AdminsAssumption DEF IInv, TypeOK
<1>4. created + 1 \in Ids
  BY <1>2, <1>3 DEF Ids
<1>5. admins[created + 1] = None
  BY <1>3, <1>4 DEF IInv, PlacesUnused
<1>6. admins' \in [Ids -> Admin \cup {None}] /\ created' \in 0 .. MaxAdmins
  BY <1>1, <1>2, <1>3, <1>4
<1>7. \A a \in Ids : admins'[a] = IF a = created + 1 THEN d ELSE admins[a]
  BY <1>2, <1>3, <1>4
<1>8. PlacesUnused'
  BY <1>2, <1>3, <1>7 DEF IInv, PlacesUnused, Ids
<1>9. created + 1 \in WithEmail(e)'
  BY <1>1, <1>3, <1>4, <1>7 DEF WithEmail
<1>10. ActiveSupers \subseteq ActiveSupers'
  BY <1>5, <1>7 DEF ActiveSupers, IsActive
<1> QED
  BY <1>6, <1>8, <1>9, <1>10

\* What UpdateTarget stores, and whom it may take from the active SUPERs.
LEMMA UpdateKeeps ==
  ASSUME IInv, NEW p \in Processes, requests[p] # None,
         requests[p].target \in Ids, NEW update \in Update,
         UpdateTarget(p, update)
  PROVE  /\ admins' \in [Ids -> Admin \cup {None}]
         /\ PlacesUnused'
         /\ \/ update.adminRole = "MANAGER"
            \/ update.isActive = FALSE /\ IsSuper(requests[p].target)
            \/ ActiveSupers \subseteq ActiveSupers'
<1> DEFINE t == requests[p].target
           d == IF admins[t] = None THEN None ELSE Merged(admins[t], update)
<1>1. /\ admins \in [Ids -> Admin \cup {None}]
      /\ None \notin Admin /\ None \notin AdminRole /\ None \notin BOOLEAN
  BY AdminsAssumption DEF IInv, TypeOK
<1>2. /\ update.adminRole \in AdminRole \cup {None}
      /\ update.email \in Emails \cup {None}
      /\ update.isActive \in BOOLEAN \cup {None}
  BY DEF Update
<1>3. ASSUME admins[t] # None
      PROVE  /\ d \in Admin
             /\ d.adminRole = IF update.adminRole = None THEN admins[t].adminRole
                              ELSE update.adminRole
             /\ d.isActive = IF update.isActive = None THEN admins[t].isActive
                             ELSE update.isActive
  <2>1. admins[t] \in Admin
    BY <1>1, <1>3
  <2>2. d = Merged(admins[t], update)
    BY <1>3
  <2> QED
    BY <1>1, <1>2, <2>1, <2>2 DEF Merged, Admin
<1>4. admins[t] = None => d = None
  OBVIOUS
<1>5. admins' = [admins EXCEPT ![t] = d]
  BY <1>1 DEF UpdateTarget
<1>6. created' = created /\ t \in Ids
  BY DEF UpdateTarget
<1> HIDE DEF d, t
<1>7. admins' \in [Ids -> Admin \cup {None}]
  BY <1>1, <1>3, <1>4, <1>5
<1>8. \A a \in Ids : admins'[a] = IF a = t THEN d ELSE admins[a]
  BY <1>1, <1>5, <1>6
<1>9. PlacesUnused'
  BY <1>4, <1>6, <1>8 DEF IInv, PlacesUnused
<1>10. ASSUME update.adminRole # "MANAGER",
              ~ (update.isActive = FALSE /\ IsSuper(t)),
              NEW a \in ActiveSupers
       PROVE  a \in ActiveSupers'
  <2>1. a \in Ids /\ admins[a] # None /\ admins[a].isActive
          /\ admins[a].adminRole = "SUPER"
    BY DEF ActiveSupers, IsActive
  <2>2. CASE a # t
    BY <1>8, <2>1, <2>2 DEF ActiveSupers, IsActive
  <2>3. CASE a = t
    <3>1. IsSuper(t) /\ update.isActive # FALSE
      BY <1>10, <2>1, <2>3 DEF IsSuper
    <3>2. update.adminRole \in {"SUPER", None} /\ update.isActive \in {TRUE, None}
      BY <1>2, <1>10, <3>1 DEF AdminRole
    <3>3. d \in Admin /\ d.adminRole = "SUPER" /\ d.isActive
      BY <1>3, <2>1, <2>3, <3>2
    <3> QED
      BY <1>1, <1>8, <2>1, <2>3, <3>3 DEF ActiveSupers, IsActive
  <2> QED
    BY <2>2, <2>3
<1> QED
  BY <1>7, <1>9, <1>10 DEF t

LEMMA DeletionKeeps ==
  ASSUME IInv, NEW p \in Processes, requests[p] # None,
         requests[p].target \in Ids, created' = created,
         admins' = [admins EXCEPT ![requests[p].target] = None]
  PROVE  /\ admins' \in [Ids -> Admin \cup {None}]
         /\ PlacesUnused'
         /\ \A a \in ActiveSupers : a # requests[p].target => a \in ActiveSupers'
<1>1. admins \in [Ids -> Admin \cup {None}]
  BY DEF IInv, TypeOK
<1>2. \A a \in Ids : admins'[a] = IF a = requests[p].target THEN None ELSE admins[a]
  BY <1>1
<1>3. PlacesUnused'
  BY <1>2 DEF IInv, PlacesUnused
<1> QED
  BY <1>1, <1>2, <1>3 DEF ActiveSupers, IsActive

-----------------------------------------------------------------------------
(* Every step keeps the invariant.                                         *)

LEMMA InitIInv == ASSUME Init PROVE IInv
BY AdminsAssumption DEF Init, IInv, TypeOK, RequestsSound, PlacesUnused

LEMMA StartKeeps == ASSUME IInv, NEW p \in Processes, Start(p) PROVE IInv'
<1>1. ASSUME NEW a \in Ids, login(p, a) PROVE IInv'
  BY <1>1, NewRequestInv DEF login
<1>2. ASSUME NEW a \in Ids, NEW e \in Emails, NEW role \in AdminRole,
             createAdmin(p, a, e, role)
      PROVE  IInv'
  <2> DEFINE update == [email |-> e, adminRole |-> role, isActive |-> TRUE]
  <2>1. /\ update \in Update
        /\ update.email \in Emails /\ update.adminRole \in AdminRole
    BY DEF Update
  <2>2. NewRequest(p, "createAdmin", None, update, "store")
    BY <1>2 DEF createAdmin
  <2> HIDE DEF update
  <2> QED
    BY <2>1, <2>2, NewRequestInv
<1>3. ASSUME NEW a \in Ids, NEW target \in Ids, NEW update \in Update,
             updateAdmin(p, a, target, update)
      PROVE  IInv'
  BY <1>3, NewRequestInv DEF updateAdmin, IsSuper
<1>4. ASSUME NEW a \in Ids, NEW target \in Ids, deleteAdmin(p, a, target)
      PROVE  IInv'
  <2> DEFINE call == IF admins[target].adminRole = "SUPER" THEN "count" ELSE "store"
  <2>1. call \in {"count", "store"} /\ (call = "store" => ~ IsSuper(target))
    BY DEF IsSuper
  <2>2. NewRequest(p, "deleteAdmin", target, None, call)
    BY <1>4 DEF deleteAdmin
  <2> HIDE DEF call
  <2> QED
    BY <2>1, <2>2, NewRequestInv
<1>5. ASSUME NEW a \in Ids, NEW target \in Ids, deactivateAdmin(p, a, target)
      PROVE  IInv'
  BY <1>5, NewRequestInv DEF deactivateAdmin, MayDeactivate, IsSuper
<1> QED
  BY <1>1, <1>2, <1>3, <1>4, <1>5 DEF Start

\* The count is fresh when the deletion goes on.
LEMMA CountKeeps == ASSUME IInv, NEW p \in Processes, countAdminsByRole(p) PROVE IInv'
<1>1. /\ requests[p] # None /\ requests[p].call = "count"
      /\ UNCHANGED <<admins, boots, created, tokens>>
  BY DEF countAdminsByRole
<1>2. CASE EnoughSupers
  <2> DEFINE r == [requests[p] EXCEPT !.call = "store", !.changed = FALSE]
  <2>1. requests[p] \in Request /\ Carries(requests[p])
    BY <1>1, RunningRequest
  <2>2. /\ r \in Request /\ r.op = requests[p].op /\ r.target = requests[p].target
        /\ r.update = requests[p].update
        /\ r.call = "store"
    BY <2>1 DEF Request
  <2>3. requests[p].op = "deleteAdmin"
    BY <1>1, <2>1 DEF Carries
  <2>4. Carries(r)
    BY <2>1, <2>2, <2>3 DEF Carries
  <2>5. CheckStands(r)
    BY <1>2, <2>2, <2>3 DEF CheckStands, EnoughSupers
  <2>6. requests' = [requests EXCEPT ![p] = r]
    <3>1. requests \in [Processes -> Request \cup {None}]
      BY DEF IInv, TypeOK
    <3> QED
      BY <1>2, <2>1, <3>1 DEF countAdminsByRole, Request
  <2> HIDE DEF r
  <2>7. TypeOK'
    BY <1>1, <2>2, <2>6 DEF IInv, TypeOK
  <2>8. \A q \in Processes : requests'[q] = IF q = p THEN r ELSE requests[q]
    BY <2>6 DEF IInv, TypeOK
  <2>9. RequestsSound'
    BY <1>1, <2>4, <2>5, <2>8, SameAdmins DEF IInv, RequestsSound, Carries
  <2>10. PlacesUnused'
    BY <1>1 DEF IInv, PlacesUnused
  <2> QED
    BY <2>7, <2>9, <2>10 DEF IInv
<1>3. CASE ~ EnoughSupers
  BY <1>1, <1>3, FinishInv DEF countAdminsByRole, IInv, TypeOK
<1> QED
  BY <1>2, <1>3

LEMMA StoreCreatedKeeps ==
  ASSUME IInv, NEW p \in Processes, storeCreated(p)
  PROVE  IInv' /\ ActiveSupers \subseteq ActiveSupers'
<1>1. /\ requests[p] # None /\ requests[p].op = "createAdmin"
      /\ Insert(requests[p].update.email, requests[p].update.adminRole)
      /\ requests' = FinishChanged(p) /\ UNCHANGED <<boots, tokens>>
  BY DEF storeCreated, Storing
<1>2. requests[p].update.email \in Emails /\ requests[p].update.adminRole \in AdminRole
  BY <1>1, RunningRequest DEF Carries
<1>3. /\ admins' \in [Ids -> Admin \cup {None}] /\ created' \in 0 .. MaxAdmins
      /\ PlacesUnused' /\ ActiveSupers \subseteq ActiveSupers'
  BY <1>1, <1>2, InsertKeeps
<1>4. boots' \in [Instances -> {"find", "create", None}] /\ tokens' \subseteq Ids
  BY <1>1 DEF IInv, TypeOK
<1> QED
  BY <1>1, <1>3, <1>4, FinishChangedType, ChangeInv

\* An update or deactivation that nobody disturbed and that demotes nobody
\* takes no SUPER away.
LEMMA UpdateTargetKeeps ==
  ASSUME IInv, NEW p \in Processes, requests[p] # None,
         NEW update \in Update, UpdateTarget(p, update),
         requests[p].op # "createAdmin",
         ~ requests[p].changed /\ update.isActive = FALSE =>
           ~ IsSuper(requests[p].target)
  PROVE  /\ IInv'
         /\ requests'[p] = None
         /\ \/ requests[p].changed
            \/ update.adminRole = "MANAGER"
            \/ ActiveSupers \subseteq ActiveSupers'
<1>1. requests' = FinishChanged(p) /\ UNCHANGED <<boots, created, tokens>>
  BY DEF UpdateTarget
<1>2. requests[p].target \in Ids
  BY RunningRequest DEF Carries
<1>3. /\ admins' \in [Ids -> Admin \cup {None}] /\ PlacesUnused'
      /\ \/ update.adminRole = "MANAGER"
         \/ update.isActive = FALSE /\ IsSuper(requests[p].target)
         \/ ActiveSupers \subseteq ActiveSupers'
  BY <1>2, UpdateKeeps
<1>4. /\ boots' \in [Instances -> {"find", "create", None}] /\ tokens' \subseteq Ids
      /\ created' \in 0 .. MaxAdmins
  BY <1>1 DEF IInv, TypeOK
<1>5. IInv' /\ requests'[p] = None
  BY <1>1, <1>3, <1>4, FinishChangedType, ChangeInv
<1> QED
  BY <1>3, <1>5

LEMMA StoreUpdateKeeps ==
  ASSUME IInv, NEW p \in Processes, storeUpdate(p)
  PROVE  /\ IInv'
         /\ requests[p] # None /\ requests'[p] = None
         /\ \/ requests[p].changed
            \/ Demotes(requests[p])
            \/ ActiveSupers \subseteq ActiveSupers'
<1>1. /\ requests[p] # None /\ requests[p].op = "updateAdmin"
      /\ requests[p].call = "store" /\ UpdateTarget(p, requests[p].update)
  BY DEF storeUpdate, Storing
<1>2. Carries(requests[p]) /\ CheckStands(requests[p])
  BY <1>1, RunningRequest
<1>3. requests[p].update \in Update
  BY <1>1, <1>2 DEF Carries
<1>4. ~ requests[p].changed /\ requests[p].update.isActive = FALSE =>
        ~ IsSuper(requests[p].target)
  BY <1>1, <1>2 DEF CheckStands
<1>5. requests[p].op # "createAdmin"
  BY <1>1
<1>6. /\ IInv' /\ requests'[p] = None
      /\ \/ requests[p].changed
         \/ requests[p].update.adminRole = "MANAGER"
         \/ ActiveSupers \subseteq ActiveSupers'
  BY <1>1, <1>3, <1>4, <1>5, UpdateTargetKeeps
<1> QED
  BY <1>1, <1>6 DEF Demotes

LEMMA StoreDeactivationKeeps ==
  ASSUME IInv, NEW p \in Processes, storeDeactivation(p)
  PROVE  /\ IInv'
         /\ requests[p] # None /\ requests'[p] = None
         /\ requests[p].changed \/ ActiveSupers \subseteq ActiveSupers'
<1> DEFINE update == [email |-> None, adminRole |-> None, isActive |-> FALSE]
<1>1. /\ requests[p] # None /\ requests[p].op = "deactivateAdmin"
      /\ requests[p].call = "store" /\ UpdateTarget(p, update)
  BY DEF storeDeactivation, Storing
<1>2. update \in Update /\ update.adminRole # "MANAGER"
  BY AdminsAssumption DEF Update, AdminRole
<1> HIDE DEF update
<1>3. CheckStands(requests[p])
  BY <1>1, RunningRequest
<1>4. ~ requests[p].changed => ~ IsSuper(requests[p].target)
  BY <1>1, <1>3 DEF CheckStands
<1>5. requests[p].op # "createAdmin"
  BY <1>1
<1> QED
  BY <1>1, <1>2, <1>4, <1>5, UpdateTargetKeeps

LEMMA StoreDeletionKeeps ==
  ASSUME IInv, NEW p \in Processes, storeDeletion(p)
  PROVE  /\ IInv'
         /\ requests[p] # None /\ requests'[p] = None
         /\ \/ requests[p].changed
            \/ ActiveSupers = {}
            \/ ActiveSupers' # {}
<1>1. /\ requests[p] # None /\ requests[p].op = "deleteAdmin"
      /\ requests[p].call = "store"
      /\ admins' = [admins EXCEPT ![requests[p].target] = None]
      /\ requests' = FinishChanged(p) /\ UNCHANGED <<boots, created, tokens>>
  BY DEF storeDeletion, Storing
<1>2. Carries(requests[p]) /\ CheckStands(requests[p])
  BY <1>1, RunningRequest
<1>3. requests[p].target \in Ids
  BY <1>1, <1>2 DEF Carries
<1>4. /\ admins' \in [Ids -> Admin \cup {None}] /\ PlacesUnused'
      /\ \A a \in ActiveSupers : a # requests[p].target => a \in ActiveSupers'
  BY <1>1, <1>3, DeletionKeeps
<1>5. /\ boots' \in [Instances -> {"find", "create", None}] /\ tokens' \subseteq Ids
      /\ created' \in 0 .. MaxAdmins
  BY <1>1 DEF IInv, TypeOK
<1>6. IInv' /\ requests'[p] = None
  BY <1>1, <1>4, <1>5, FinishChangedType, ChangeInv
<1>7. ASSUME ~ requests[p].changed, NEW a \in ActiveSupers PROVE ActiveSupers' # {}
  <2>1. CASE Cardinality(ActiveSupers) > 1
    <3>1. PICK b \in ActiveSupers : b # requests[p].target
      BY <2>1, AnotherSuper
    <3> QED
      BY <1>4, <3>1
  <2>2. CASE ~ IsSuper(requests[p].target)
    <3>1. a # requests[p].target
      BY <1>7, <2>2 DEF ActiveSupers, IsActive, IsSuper
    <3> QED
      BY <1>4, <3>1
  <2> QED
    BY <1>1, <1>2, <1>7, <2>1, <2>2 DEF CheckStands
<1> QED
  BY <1>1, <1>6, <1>7

\* A running request, if any, works on something older after a boot created.
LEMMA BootCreatesKeeps ==
  ASSUME IInv, NEW i \in Instances, BootCreates(i)
  PROVE  IInv' /\ ActiveSupers \subseteq ActiveSupers' /\ WithEmail(SeedEmail)' # {}
<1>1. /\ boots' = [boots EXCEPT ![i] = None] /\ tokens' = tokens
      /\ Insert(SeedEmail, "SUPER")
      /\ requests' = [p \in Processes |->
           IF requests[p] = None THEN None ELSE [requests[p] EXCEPT !.changed = TRUE]]
  BY DEF BootCreates
<1>2. SeedEmail \in Emails /\ "SUPER" \in AdminRole
  BY AdminsAssumption DEF AdminRole
<1>3. /\ admins' \in [Ids -> Admin \cup {None}] /\ created' \in 0 .. MaxAdmins
      /\ PlacesUnused' /\ ActiveSupers \subseteq ActiveSupers'
      /\ WithEmail(SeedEmail)' # {}
  BY <1>1, <1>2, InsertKeeps
<1>4. boots' \in [Instances -> {"find", "create", None}] /\ tokens' \subseteq Ids
  BY <1>1 DEF IInv, TypeOK
<1>5. \A r \in Request : [r EXCEPT !.changed = TRUE] \in Request
  BY DEF Request
<1>6. \A q \in Processes : requests[q] \in Request \cup {None}
  BY DEF IInv, TypeOK
<1>7. /\ requests' \in [Processes -> Request \cup {None}]
      /\ \A q \in Processes : requests'[q] # None =>
           requests[q] # None /\ requests'[q] = [requests[q] EXCEPT !.changed = TRUE]
  BY <1>1, <1>5, <1>6
<1> QED
  BY <1>3, <1>4, <1>7, ChangeInv

\* The other steps of a boot move that boot only.
LEMMA BootMoves ==
  ASSUME IInv, boots' \in [Instances -> {"find", "create", None}],
         UNCHANGED <<admins, requests, created, tokens>>
  PROVE  IInv'
<1>1. TypeOK'
  BY DEF IInv, TypeOK
<1>2. RequestsSound'
  BY SameAdmins DEF IInv, RequestsSound, Carries
<1>3. PlacesUnused'
  BY DEF IInv, PlacesUnused
<1> QED
  BY <1>1, <1>2, <1>3 DEF IInv

LEMMA BootKeeps == ASSUME IInv, NEW i \in Instances, Boot(i) PROVE IInv'
<1>1. boots \in [Instances -> {"find", "create", None}]
  BY DEF IInv, TypeOK
<1>2. CASE BootStarts(i)
  BY <1>1, <1>2, BootMoves DEF BootStarts
<1>3. CASE BootFinds(i)
  BY <1>1, <1>3, BootMoves DEF BootFinds
<1>4. CASE BootFails(i)
  BY <1>1, <1>4, BootMoves DEF BootFails
<1>5. CASE BootDies(i)
  BY <1>1, <1>5, BootMoves DEF BootDies
<1>6. CASE BootCreates(i)
  BY <1>6, BootCreatesKeeps
<1> QED
  BY <1>2, <1>3, <1>4, <1>5, <1>6 DEF Boot

LEMMA StoreLoginKeeps == ASSUME IInv, NEW p \in Processes, storeLogin(p) PROVE IInv'
<1>1. requests[p] # None /\ requests[p].op = "login"
  BY DEF storeLogin, Storing
<1>2. requests[p].target \in Ids
  BY <1>1, RunningRequest DEF Carries
<1>3. tokens' \subseteq Ids
  BY <1>2 DEF storeLogin, IInv, TypeOK
<1> QED
  BY <1>3, FinishInv DEF storeLogin

LEMMA CallKeeps == ASSUME IInv, NEW p \in Processes, Call(p) PROVE IInv'
<1>1. CASE Fail(p)
  BY <1>1, FinishInv DEF Fail, IInv, TypeOK
<1> QED
  BY <1>1, CountKeeps, StoreCreatedKeeps, StoreUpdateKeeps, StoreDeactivationKeeps,
     StoreDeletionKeeps, StoreLoginKeeps DEF Call

LEMMA NextIInv == ASSUME IInv, [Next]_vars PROVE IInv'
<1>1. ASSUME NEW p \in Processes, Start(p) \/ Call(p) PROVE IInv'
  BY <1>1, StartKeeps, CallKeeps
<1>2. ASSUME NEW i \in Instances, Boot(i) PROVE IInv'
  BY <1>2, BootKeeps
<1>3. CASE UNCHANGED vars
  BY <1>3, BootMoves DEF vars, IInv, TypeOK
<1> QED
  BY <1>1, <1>2, <1>3 DEF Next

-----------------------------------------------------------------------------
(* The theorems.                                                           *)

\* In every reachable state the checks of the requests that wait to store are
\* still right, unless the collection changed since (AdminService).
THEOREM Invariant == Spec => []IInv
<1>1. Init => IInv
  BY InitIInv
<1>2. IInv /\ [Next]_vars => IInv'
  BY NextIInv
<1> QED
  BY <1>1, <1>2, PTL DEF Spec

\* The collection, the requests, the boots and the tokens keep their types
\* (models/admin.schema.ts).
THEOREM AdminsTypeCorrect == Spec => []TypeOK
<1>1. IInv => TypeOK
  BY DEF IInv
<1> QED
  BY <1>1, Invariant, PTL

\* The ways to lose the last SUPER who can log in: LastSuperIsKept is refuted,
\* and this is all there is to it.
LostByRaceOrDemotion ==
  [][ActiveSupers # {} /\ ActiveSupers' = {} =>
       \E p \in Processes :
         /\ requests[p] # None
         /\ requests'[p] = None
         /\ requests[p].changed \/ Demotes(requests[p])]_vars

\* A step that takes the last active SUPER away ends a request of AdminService
\* that demotes somebody, or that relied on what another request changed after
\* it had read: a sequence of requests one at a time, none of which demotes,
\* keeps the last SUPER.
THEOREM LastSuperIsLostByRaceOrDemotion == Spec => LostByRaceOrDemotion
<1> DEFINE Raced ==
      \E p \in Processes :
        /\ requests[p] # None
        /\ requests'[p] = None
        /\ requests[p].changed \/ Demotes(requests[p])
    Kept == ActiveSupers = {} \/ ActiveSupers' # {} \/ Raced
<1>1. ASSUME IInv, [Next]_vars PROVE Kept
  <2>1. ASSUME UNCHANGED admins PROVE Kept
    BY <2>1, SameAdmins
  <2>2. ASSUME NEW p \in Processes, Start(p) PROVE Kept
    <3>1. UNCHANGED admins
      BY <2>2 DEF Start, login, createAdmin, updateAdmin, deleteAdmin,
         deactivateAdmin, NewRequest
    <3> QED
      BY <2>1, <3>1
  <2>3. ASSUME NEW p \in Processes, Call(p) PROVE Kept
    <3>1. CASE countAdminsByRole(p) \/ storeLogin(p) \/ Fail(p)
      BY <2>1, <3>1 DEF countAdminsByRole, storeLogin, Fail
    <3>2. CASE storeCreated(p)
      BY <1>1, <3>2, StoreCreatedKeeps
    <3>3. CASE storeUpdate(p)
      BY <1>1, <3>3, StoreUpdateKeeps
    <3>4. CASE storeDeactivation(p)
      BY <1>1, <3>4, StoreDeactivationKeeps
    <3>5. CASE storeDeletion(p)
      BY <1>1, <3>5, StoreDeletionKeeps
    <3> QED
      BY <2>3, <3>1, <3>2, <3>3, <3>4, <3>5 DEF Call
  <2>4. ASSUME NEW i \in Instances, Boot(i) PROVE Kept
    <3>1. CASE BootStarts(i) \/ BootFinds(i) \/ BootFails(i) \/ BootDies(i)
      BY <2>1, <3>1 DEF BootStarts, BootFinds, BootFails, BootDies
    <3>2. CASE BootCreates(i)
      BY <1>1, <3>2, BootCreatesKeeps
    <3> QED
      BY <2>4, <3>1, <3>2 DEF Boot
  <2>5. CASE UNCHANGED vars
    BY <2>1, <2>5 DEF vars
  <2> QED
    BY <1>1, <2>2, <2>3, <2>4, <2>5 DEF Next
<1>2. ASSUME IInv, [Next]_vars
      PROVE  [ActiveSupers # {} /\ ActiveSupers' = {} =>
               \E p \in Processes :
                 /\ requests[p] # None
                 /\ requests'[p] = None
                 /\ requests[p].changed \/ Demotes(requests[p])]_vars
  BY <1>1, <1>2
<1> QED
  BY <1>2, Invariant, PTL DEF Spec, LostByRaceOrDemotion

\* However the boots of several instances interleave: after the seeder has
\* looked, and created if it found nobody, a SUPER can log in or the address
\* of the seeded one is taken (AdminSeederService).
THEOREM SeederLeavesASuper == Spec => SeededAtBoot
<1>1. ASSUME IInv, NEW i \in Instances, BootFinds(i) \/ BootCreates(i) \/ BootFails(i)
      PROVE  boots'[i] = "create" \/ ActiveSupers' # {} \/ WithEmail(SeedEmail)' # {}
  <2>1. CASE BootFinds(i)
    <3>1. boots'[i] = IF ActiveSupers # {} THEN None ELSE "create"
      BY <1>1, <2>1 DEF BootFinds, ExistingSuperAdmin, IInv, TypeOK
    <3>2. ActiveSupers' = ActiveSupers
      BY <2>1, SameAdmins DEF BootFinds
    <3> QED
      BY <3>1, <3>2
  <2>2. CASE BootCreates(i)
    BY <1>1, <2>2, BootCreatesKeeps
  <2>3. CASE BootFails(i)
    BY <2>3 DEF BootFails, WithEmail
  <2> QED
    BY <1>1, <2>1, <2>2, <2>3
<1>2. ASSUME IInv, [Next]_vars
      PROVE  [\A i \in Instances :
                BootFinds(i) \/ BootCreates(i) \/ BootFails(i) =>
                  boots'[i] = "create" \/ ActiveSupers' # {}
                    \/ WithEmail(SeedEmail)' # {}]_vars
  BY <1>1, <1>2
<1> QED
  BY <1>2, Invariant, PTL DEF Spec, SeededAtBoot

===============================================================================

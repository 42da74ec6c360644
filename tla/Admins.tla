-------------------------------- MODULE Admins --------------------------------
(***************************************************************************)
(* Administrators: the requests that create, update, deactivate and delete *)
(* them (AdminService), their login, and the seeding of a first super      *)
(* administrator when an instance of the server boots (AdminSeeder).       *)
(*                                                                         *)
(* A request passes the guards with the administrator as stored at that    *)
(* moment, reads its target, checks, and changes it in a later call: none  *)
(* of this is a transaction, and what was checked may have changed.        *)
(***************************************************************************)
EXTENDS Naturals, FiniteSets

CONSTANTS Emails,      \* addresses of administrators
          SeedEmail,   \* superadmin@englishom.com
          Processes,   \* requests that run at the same time
          Instances,   \* instances of the server
          MaxAdmins,   \* bound on administrators created
          None         \* no administrator, request or boot, or no change

VARIABLES admins,    \* the admins collection
          requests,  \* the running requests
          boots,     \* the seeding of every instance that boots
          created,   \* how many administrators were created
          tokens     \* the administrators who hold a token

vars == <<admins, requests, boots, created, tokens>>

Ids == 1 .. MaxAdmins

\* OPERATOR and VIEW differ from MANAGER only in what they may read.
AdminRole == {"SUPER", "MANAGER"}

Admin == [email : Emails, adminRole : AdminRole, isActive : BOOLEAN]

\* An UpdateAdminDto, all of whose fields are optional: what is None is left
\* alone.
Update == [email : Emails \cup {None}, adminRole : AdminRole \cup {None},
           isActive : BOOLEAN \cup {None}]

\* target is the administrator the request is about, update what it changes
\* there or, of createAdmin, what it creates.  changed is history: the
\* collection was changed after this request last read it.
Request == [op : {"createAdmin", "updateAdmin", "deleteAdmin", "deactivateAdmin", "login"},
            target : Ids \cup {None}, update : Update \cup {None},
            call : {"count", "store"}, changed : BOOLEAN]

ASSUME AdminsAssumption ==
  /\ SeedEmail \in Emails
  /\ MaxAdmins \in Nat
  /\ None \notin Ids /\ None \notin Emails /\ None \notin Admin /\ None \notin Update
  /\ None \notin Request /\ None \notin AdminRole /\ None \notin BOOLEAN
  /\ None # "find" /\ None # "create"

TypeOK ==
  /\ admins \in [Ids -> Admin \cup {None}]
  /\ requests \in [Processes -> Request \cup {None}]
  /\ boots \in [Instances -> {"find", "create", None}]
  /\ created \in 0 .. MaxAdmins
  /\ tokens \subseteq Ids

Init ==
  /\ admins = [a \in Ids |-> None]
  /\ requests = [p \in Processes |-> None]
  /\ boots = [i \in Instances |-> None]
  /\ created = 0
  /\ tokens = {}

IsActive(a) == admins[a] # None /\ admins[a].isActive

ActiveSupers == {a \in Ids : IsActive(a) /\ admins[a].adminRole = "SUPER"}

WithEmail(e) == {a \in Ids : admins[a] # None /\ admins[a].email = e}

-----------------------------------------------------------------------------
(* Starts of requests: the guards and the first query.  A request that is  *)
(* refused here is not a step.                                             *)

\* AdminJwtGuard and AdminRoleGuard: a token of an administrator who is
\* active and SUPER when the request arrives.
Guarded(a) == a \in tokens /\ a \in ActiveSupers

NewRequest(p, op, target, update, call) ==
  /\ requests[p] = None
  /\ requests' = [requests EXCEPT ![p] =
       [op |-> op, target |-> target, update |-> update, call |-> call,
        changed |-> FALSE]]
  /\ UNCHANGED <<admins, boots, created, tokens>>

createAdmin(p, a, e, role) ==
  /\ Guarded(a)
  /\ WithEmail(e) = {}
  /\ NewRequest(p, "createAdmin", None,
                [email |-> e, adminRole |-> role, isActive |-> TRUE], "store")

\* A SUPER may change anybody, address and role included, but deactivates no
\* SUPER.  (The guard of the route lets nobody else pass.)
updateAdmin(p, a, target, update) ==
  /\ Guarded(a)
  /\ admins[target] # None
  /\ ~ (update.isActive = FALSE /\ admins[target].adminRole = "SUPER")
  /\ NewRequest(p, "updateAdmin", target, update, "store")

\* Nobody deletes themselves.  The supers are counted before one is deleted.
deleteAdmin(p, a, target) ==
  /\ Guarded(a)
  /\ admins[target] # None
  /\ a # target
  /\ NewRequest(p, "deleteAdmin", target, None,
                IF admins[target].adminRole = "SUPER" THEN "count" ELSE "store")

MayDeactivate(target) ==
  admins[target] # None /\ admins[target].adminRole # "SUPER"

deactivateAdmin(p, a, target) ==
  /\ Guarded(a)
  /\ MayDeactivate(target)
  /\ NewRequest(p, "deactivateAdmin", target, None, "store")

\* The password is right; comparing it takes a while.
login(p, a) ==
  /\ IsActive(a)
  /\ NewRequest(p, "login", a, None, "store")

-----------------------------------------------------------------------------
(* The later calls.                                                        *)

Finish(p) == [requests EXCEPT ![p] = None]

\* Every other running request now works on something older.
FinishChanged(p) ==
  [q \in Processes |->
     IF q = p \/ requests[q] = None THEN Finish(p)[q]
                                    ELSE [requests[q] EXCEPT !.changed = TRUE]]

Storing(p, op) ==
  /\ requests[p] # None
  /\ requests[p].op = op
  /\ requests[p].call = "store"

\* superAdminCount <= 1 is refused.
EnoughSupers == Cardinality(ActiveSupers) > 1

countAdminsByRole(p) ==
  /\ requests[p] # None
  /\ requests[p].call = "count"
  /\ requests' = IF EnoughSupers
                 THEN [requests EXCEPT ![p].call = "store", ![p].changed = FALSE]
                 ELSE Finish(p)
  /\ UNCHANGED <<admins, boots, created, tokens>>

UniqueEmail(e) == WithEmail(e) = {}

\* adminRepo.create, refused by the unique index on the address.
Insert(e, role) ==
  /\ UniqueEmail(e)
  /\ created < MaxAdmins
  /\ created' = created + 1
  /\ admins' = [admins EXCEPT ![created + 1] =
                  [email |-> e, adminRole |-> role, isActive |-> TRUE]]

storeCreated(p) ==
  /\ Storing(p, "createAdmin")
  /\ Insert(requests[p].update.email, requests[p].update.adminRole)
  /\ requests' = FinishChanged(p)
  /\ UNCHANGED <<boots, tokens>>

\* A slip, for comparison: the fields a request leaves out are written too.
Overwritten(d, update) ==
  [d EXCEPT !.email = update.email, !.adminRole = update.adminRole,
            !.isActive = update.isActive]

Merged(d, update) ==
  [d EXCEPT !.email = IF update.email = None THEN @ ELSE update.email,
            !.adminRole = IF update.adminRole = None THEN @ ELSE update.adminRole,
            !.isActive = IF update.isActive = None THEN @ ELSE update.isActive]

\* The unique index refuses the address of somebody else.
AddressIsFree(target, update) ==
  admins[target] # None /\ update.email # None => WithEmail(update.email) \subseteq {target}

\* findOneAndUpdate by _id, which changes nothing when the target is gone.
UpdateTarget(p, update) ==
  /\ AddressIsFree(requests[p].target, update)
  /\ admins' = [admins EXCEPT ![requests[p].target] =
                  IF @ = None THEN None ELSE Merged(@, update)]
  /\ requests' = FinishChanged(p)
  /\ UNCHANGED <<boots, created, tokens>>

storeUpdate(p) ==
  /\ Storing(p, "updateAdmin")
  /\ UpdateTarget(p, requests[p].update)

storeDeactivation(p) ==
  /\ Storing(p, "deactivateAdmin")
  /\ UpdateTarget(p, [email |-> None, adminRole |-> None, isActive |-> FALSE])

storeDeletion(p) ==
  /\ Storing(p, "deleteAdmin")
  /\ admins' = [admins EXCEPT ![requests[p].target] = None]
  /\ requests' = FinishChanged(p)
  /\ UNCHANGED <<boots, created, tokens>>

\* lastActivity is stored, the token signed, whatever became of the
\* administrator meanwhile.
storeLogin(p) ==
  /\ Storing(p, "login")
  /\ tokens' = tokens \cup {requests[p].target}
  /\ requests' = Finish(p)
  /\ UNCHANGED <<admins, boots, created>>

\* A call fails (the database, the unique index) or the server restarts.
Fail(p) ==
  /\ requests[p] # None
  /\ requests' = Finish(p)
  /\ UNCHANGED <<admins, boots, created, tokens>>

-----------------------------------------------------------------------------
(* The seeding of an instance that boots (onModuleInit).                   *)

\* A slip, for comparison: a super who cannot log in counts.
AnySuper == {a \in Ids : admins[a] # None /\ admins[a].adminRole = "SUPER"}

\* findOne({ adminRole: SUPER, isActive: true })
ExistingSuperAdmin == ActiveSupers

BootStarts(i) ==
  /\ boots[i] = None
  /\ boots' = [boots EXCEPT ![i] = "find"]
  /\ UNCHANGED <<admins, requests, created, tokens>>

BootFinds(i) ==
  /\ boots[i] = "find"
  /\ boots' = [boots EXCEPT ![i] = IF ExistingSuperAdmin # {} THEN None ELSE "create"]
  /\ UNCHANGED <<admins, requests, created, tokens>>

BootCreates(i) ==
  /\ boots[i] = "create"
  /\ Insert(SeedEmail, "SUPER")
  /\ boots' = [boots EXCEPT ![i] = None]
  /\ requests' = [p \in Processes |->
       IF requests[p] = None THEN None ELSE [requests[p] EXCEPT !.changed = TRUE]]
  /\ UNCHANGED tokens

\* The address is taken: the error is logged and the instance runs.
BootFails(i) ==
  /\ boots[i] = "create"
  /\ WithEmail(SeedEmail) # {}
  /\ boots' = [boots EXCEPT ![i] = None]
  /\ UNCHANGED <<admins, requests, created, tokens>>

\* The instance dies before it has seeded.
BootDies(i) ==
  /\ boots[i] # None
  /\ boots' = [boots EXCEPT ![i] = None]
  /\ UNCHANGED <<admins, requests, created, tokens>>

-----------------------------------------------------------------------------

Start(p) ==
  \/ \E a \in Ids : login(p, a)
  \/ \E a \in Ids, e \in Emails, role \in AdminRole : createAdmin(p, a, e, role)
  \/ \E a \in Ids, target \in Ids :
       \/ \E update \in Update : updateAdmin(p, a, target, update)
       \/ deleteAdmin(p, a, target)
       \/ deactivateAdmin(p, a, target)

Call(p) ==
  \/ countAdminsByRole(p)
  \/ storeCreated(p)
  \/ storeUpdate(p)
  \/ storeDeactivation(p)
  \/ storeDeletion(p)
  \/ storeLogin(p)
  \/ Fail(p)

Boot(i) == BootStarts(i) \/ BootFinds(i) \/ BootCreates(i) \/ BootFails(i) \/ BootDies(i)

Next ==
  \/ \E p \in Processes : Start(p) \/ Call(p)
  \/ \E i \in Instances : Boot(i)

Spec == Init /\ [][Next]_vars

-----------------------------------------------------------------------------

\* Once a booting instance has looked for a SUPER, and created one if there
\* was none, somebody who is SUPER can log in, or the address of the seeded
\* one is taken by an administrator who is not (then every later boot fails
\* the same way).
SeededAtBoot ==
  [][\A i \in Instances :
       BootFinds(i) \/ BootCreates(i) \/ BootFails(i) =>
         boots'[i] = "create" \/ ActiveSupers' # {} \/ WithEmail(SeedEmail)' # {}]_vars

-----------------------------------------------------------------------------
(* What the documentation says, and the code does not do.                  *)

Deactivates(p) ==
  \/ storeDeactivation(p)
  \/ storeUpdate(p) /\ requests[p].update.isActive = FALSE

\* "Protection against deleting the last SUPER admin" (docs/ADMIN_SYSTEM.md),
\* "Prevent deactivating the last SUPER admin" (updateAdmin): nobody's deletion
\* or deactivation takes the last SUPER who can log in away.
LastSuperIsKept ==
  [][ActiveSupers # {} /\ (\E p \in Processes : storeDeletion(p) \/ Deactivates(p)) =>
       ActiveSupers' # {}]_vars

===============================================================================

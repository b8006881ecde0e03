------------------------------ MODULE Accounts ------------------------------
(***************************************************************************)
(* The people who may sign in (db/accounts.py, api/accounts.py), and the   *)
(* guard every request to the console passes (api/auth.py).  A request is  *)
(* a job: it is admitted with the account as the guard loaded it, and runs *)
(* from await to await while other jobs change what it has read.           *)
(***************************************************************************)
EXTENDS Naturals, FiniteSets

CONSTANTS
  None,
  Users,     \* bound: the accounts, by their email
  Orgs,      \* bound: the organisations
  Jobs,      \* bound: the requests
  Granted,   \* bound: the roles that are asked for
  Machine    \* the shared bearer token

Role == {"platform_admin", "org_admin", "supervisor", "viewer"}

ASSUME AccountsAssumption ==
  /\ Granted \subseteq Role
  /\ None \notin Users \cup Orgs \cup Role
  /\ Machine \notin Users

VARIABLES
  account,   \* by email, the row
  cookie,    \* by email, whether the browser holds a session that has not expired
  signing,   \* by email, a sign-in under way: the row it read
  request,   \* by job, how far it is
  loose      \* history: somebody was made, or unmade, a platform administrator, or
             \* was suspended while another suspension had passed its check

people == <<account, cookie, signing, loose>>

Absent == [role |-> None, org |-> None, active |-> FALSE]
Accounts == [role : Role, org : Orgs \cup {None}, active : BOOLEAN] \cup {Absent}
Exists(u) == account[u] # Absent
Admins == {u \in Users : account[u].role = "platform_admin" /\ account[u].active}

Idle == [at |-> "idle"]
Done == [at |-> "done"]

\* What the guard and the scope helpers know a caller by: an account as it was
\* loaded, or the machine, which acts as a platform administrator.
Caller(u) == IF u = Machine THEN [role |-> "platform_admin", org |-> None, active |-> TRUE]
             ELSE account[u]
Unrestricted(by) == by.role = "platform_admin"

\* Which roles may make a request that writes.
MayWrite == [settings |-> {"platform_admin"},
             tenants |-> {"platform_admin"},
             users |-> {"platform_admin", "org_admin"},
             agents |-> {"platform_admin", "org_admin"}]

\* The account is loaded for every request, so that a suspension bites on the next.
SignedIn(u) == \/ u = Machine
               \/ u \in Users /\ cookie[u] /\ account[u].active

\* A request passes the guard and its handler begins.
Admit(j, u, area, at, arg) ==
  /\ request[j] = Idle
  /\ SignedIn(u)
  /\ Caller(u).role \in MayWrite[area]
  /\ request' = [request EXCEPT ![j] = [at |-> at, by |-> Caller(u), arg |-> arg]]

Move(j, at) == request' = [request EXCEPT ![j].at = at]
End(j) == request' = [request EXCEPT ![j] = Done]

-----------------------------------------------------------------------------
(* Signing in. *)

\* authenticate reads the row and verifies the password in a thread ...
SignIn(u) ==
  /\ signing[u] = None
  /\ Exists(u)
  /\ signing' = [signing EXCEPT ![u] = account[u]]
  /\ UNCHANGED <<account, cookie, request, loose>>

\* ... and judges by the row it read: a wrong password and a suspension alike.
SignInEnds(u) ==
  /\ signing[u] # None
  /\ signing' = [signing EXCEPT ![u] = None]
  /\ \/ signing[u].active /\ cookie' = [cookie EXCEPT ![u] = TRUE]
     \/ UNCHANGED cookie
  /\ UNCHANGED <<account, request, loose>>

\* Signing out, or twelve hours later.
SessionEnds(u) ==
  /\ cookie[u]
  /\ cookie' = [cookie EXCEPT ![u] = FALSE]
  /\ UNCHANGED <<account, signing, request, loose>>

-----------------------------------------------------------------------------
(* Managing accounts. *)

\* The rule create_user holds accounts to.
ScopeFits(role, org) == (role = "platform_admin") <=> (org = None)

\* POST /users: an organisation's administrator creates in its own organisation,
\* and no platform administrator.
AskCreateUser(j, by) ==
  /\ \E u \in Users, role \in Granted, org \in Orgs \cup {None} :
       LET home == IF Unrestricted(Caller(by)) THEN org ELSE Caller(by).org IN
       /\ role = "platform_admin" => Unrestricted(Caller(by))
       /\ ScopeFits(role, home)
       /\ Admit(j, by, "users", "create user", [user |-> u, role |-> role, org |-> home])
  /\ UNCHANGED people

\* The command line's first administrator, counted before it is created.
AskFirstAdmin(j) ==
  /\ request[j] = Idle
  /\ \A u \in Users : ~Exists(u)
  /\ \E u \in Users :
       request' = [request EXCEPT ![j] =
         [at |-> "create user", by |-> Caller(Machine),
          arg |-> [user |-> u, role |-> "platform_admin", org |-> None]]]
  /\ UNCHANGED people

\* The password is hashed in a thread; then the clash is looked for and the row
\* added in one transaction.
CreateUser(j) ==
  /\ request[j].at = "create user"
  /\ LET a == request[j].arg IN
       account' = IF Exists(a.user) THEN account
                  ELSE [account EXCEPT ![a.user] =
                          [role |-> a.role, org |-> a.org, active |-> TRUE]]
  /\ End(j)
  /\ UNCHANGED <<cookie, signing, loose>>

\* PATCH /users: what is left out is None.
AskUpdateUser(j, by) ==
  /\ \E u \in Users, role \in Granted \cup {None}, active \in BOOLEAN \cup {None} :
       Admit(j, by, "users", "read user", [user |-> u, role |-> role, active |-> active,
                                           seen |-> Absent])
  /\ UNCHANGED people

\* The target as it is read here is what every later check goes by.
ReadUser(j) ==
  LET a == request[j].arg
      target == account[a.user]
      by == request[j].by IN
  /\ request[j].at = "read user"
  /\ IF \/ ~Exists(a.user)
        \/ ~Unrestricted(by) /\ target.org # by.org
        \/ ~Unrestricted(by) /\ a.role \notin {None, target.role}
       THEN End(j)
       ELSE request' = [request EXCEPT ![j].at = "set role", ![j].arg.seen = target]
  /\ UNCHANGED people

SetRole(j) ==
  LET a == request[j].arg IN
  /\ request[j].at = "set role"
  /\ Move(j, "check last")
  /\ \/ /\ a.role \in {None, a.seen.role}
        /\ UNCHANGED <<account, loose>>
     \/ /\ a.role \notin {None, a.seen.role}
        /\ account' = [account EXCEPT ![a.user].role = a.role]
        /\ loose' = (loose \/ "platform_admin" \in {a.role, account[a.user].role})
  /\ UNCHANGED <<cookie, signing>>

\* Mutant: a suspended administrator counts as another one.
IsLastByRole(a) ==
  /\ a.seen.role = "platform_admin"
  /\ {u \in Users \ {a.user} : account[u].role = "platform_admin"} = {}
\* Whether the target is the last platform administrator: a check, and later an act.
IsLast(a) == a.seen.role = "platform_admin" /\ Admins \ {a.user} = {}

CheckLast(j) ==
  LET a == request[j].arg IN
  /\ request[j].at = "check last"
  /\ IF a.active \in {None, a.seen.active} \/ (~a.active /\ IsLast(a))
       THEN End(j)
       ELSE Move(j, "set active")
  /\ UNCHANGED people

SetActive(j) ==
  LET a == request[j].arg IN
  /\ request[j].at = "set active"
  /\ account' = [account EXCEPT ![a.user].active = a.active]
  /\ loose' = \/ loose
              \/ \E k \in Jobs \ {j} : request[k].at = "set active" /\ ~request[k].arg.active
  /\ End(j)
  /\ UNCHANGED <<cookie, signing>>

AccountsInit ==
  /\ account \in [Users -> {Absent} \cup
       {[role |-> r, org |-> o, active |-> TRUE] : r \in {"platform_admin", "org_admin"},
                                                  o \in Orgs \cup {None}}]
  /\ \A u \in Users : Exists(u) => ScopeFits(account[u].role, account[u].org)
  /\ (\E u \in Users : Exists(u)) => Admins # {}
  /\ cookie = [u \in Users |-> FALSE]
  /\ signing = [u \in Users |-> None]
  /\ loose = FALSE

AccountsNext ==
  \/ \E u \in Users : SignIn(u) \/ SignInEnds(u) \/ SessionEnds(u)
  \/ \E j \in Jobs :
       \/ \E by \in Users \cup {Machine} : AskCreateUser(j, by) \/ AskUpdateUser(j, by)
       \/ AskFirstAdmin(j) \/ CreateUser(j)
       \/ ReadUser(j) \/ SetRole(j) \/ CheckLast(j) \/ SetActive(j)

AccountsTypeOK ==
  /\ account \in [Users -> Accounts]
  /\ cookie \in [Users -> BOOLEAN]
  /\ signing \in [Users -> Accounts \cup {None}]
  /\ loose \in BOOLEAN

\* There is a way back in: where no role of administrator was given or taken, and
\* no two suspensions crossed between the check and the act, an active platform
\* administrator remains once there is one ("There would be no way back in without
\* shell access to the box").
AnAdminRemains == [][Admins # {} /\ ~loose' => Admins' # {}]_<<account, loose>>
=============================================================================

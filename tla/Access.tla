------------------------------- MODULE Access -------------------------------
(***************************************************************************)
(* Who may change what in the dashboard: users and roles in the database,  *)
(* sessions in memory with the permissions copied at login, the rate       *)
(* limiter before the login, and the audit record after every change.      *)
(* Time is counted in ticks; a login takes less than one.                  *)
(***************************************************************************)
EXTENDS Integers, Sequences, FiniteSets, SequencesExt, FiniteSetsExt

CONSTANTS
  User, Role,
  SeedRole,  \* the role that migrations create
  Env,       \* the administrator of the server's environment
  Session,   \* session ids; each is issued once
  Request,   \* writing requests; each is made once
  Change,    \* what a request may ask for
  Plugins,   \* permissions that plugins add
  TTL,       \* lifetime of a session
  RoleLimit, \* roles on the first page of a list: 25
  Burst,     \* logins admitted at once
  Refill,    \* ticks until another one is
  MaxTime,
  None

ASSUME PeopleAssumption == SeedRole \in Role /\ Env \notin User /\ None \notin User \cup Session
ASSUME LimitsAssumption == {TTL, RoleLimit, Burst, Refill, MaxTime} \subseteq Nat \ {0}

RoleChange == {"createRole", "updateRole", "retireRole"}
UserChange == {"createUser", "updateUser", "retireUser"}
ASSUME ChangeAssumption ==
  \A c \in Change : /\ c.op \in RoleChange \cup UserChange
                    /\ c.op # "retireUser" => c.role \in Role
                    /\ c.op \in UserChange => c.user \in User

VARIABLES
  now,
  roles,     \* role |-> row, or None
  users,     \* user |-> row, or None
  sessions,  \* session |-> user, permissions and expiry, or None
  issued,    \* session ids used
  login,     \* a login between the check of the password and the session
  bucket,    \* rate limiter of one client, or None
  admitted,  \* times at which it let a login through
  request,   \* request |-> where its handler is
  changes,   \* changes stored, and audit records: request, actor
  audit,
  entitled   \* user |-> last time it could have changed something, or -TTL - 1

vars == <<now, roles, users, sessions, issued, login, bucket, admitted, request,
          changes, audit, entitled>>

-----------------------------------------------------------------------------
(* Permissions *)

AllPermissions == {"read", "write"}
permissionCatalog == AllPermissions \cup Plugins

(* A form may name any permission. *)
Named == permissionCatalog \cup UNION {c.perms : c \in Change}

RoleRow == [perms : SUBSET Named, status : {"active", "retired"}]
UserRow == [role : Role, status : {"active", "retired"}]
Bucket == [tokens : 0..(Burst * Refill), last : 0..MaxTime]
ASSUME NoneIsNoRow == None \notin RoleRow /\ None \notin UserRow /\ None \notin Bucket

HasPermission(perms, p) == p \in perms

(* What the administrator of the environment may do. *)
mergedAuthPermissions == IF Plugins = {} THEN AllPermissions ELSE AllPermissions \cup permissionCatalog

(* What the user may do according to the database. *)
Granted(u) ==
  IF users[u] # None /\ users[u].status = "active" /\ roles[users[u].role].status = "active"
  THEN roles[users[u].role].perms ELSE {}

Entitled(u) == {"read", "write"} \subseteq Granted(u)
Remembers == entitled' = [u \in User |-> IF Entitled(u) THEN now ELSE entitled[u]]

-----------------------------------------------------------------------------
(* Users and roles: each operation holds when the store accepts it. *)

CreateRole(c) ==
  /\ roles[c.role] = None
  /\ roles' = [roles EXCEPT ![c.role] = [perms |-> c.perms, status |-> "active"]]
  /\ UNCHANGED users
UpdateRole(c) ==
  /\ roles[c.role] # None /\ roles[c.role].status = "active"
  /\ roles' = [roles EXCEPT ![c.role].perms = c.perms]
  /\ UNCHANGED users
RetireRole(c) ==
  /\ roles[c.role] # None
  /\ roles' = [roles EXCEPT ![c.role].status = "retired"]
  /\ UNCHANGED users
CreateUser(c) ==
  /\ users[c.user] = None /\ roles[c.role] # None
  /\ users' = [users EXCEPT ![c.user] = [role |-> c.role, status |-> "active"]]
  /\ UNCHANGED roles
UpdateUser(c) ==
  /\ users[c.user] # None /\ users[c.user].status = "active" /\ roles[c.role] # None
  /\ users' = [users EXCEPT ![c.user].role = c.role]
  /\ UNCHANGED roles
RetireUser(c) ==
  /\ users[c.user] # None
  /\ users' = [users EXCEPT ![c.user].status = "retired"]
  /\ UNCHANGED roles

Stores(c) ==
  \/ c.op = "createRole" /\ CreateRole(c)
  \/ c.op = "updateRole" /\ UpdateRole(c)
  \/ c.op = "retireRole" /\ RetireRole(c)
  \/ c.op = "createUser" /\ CreateUser(c)
  \/ c.op = "updateUser" /\ UpdateUser(c)
  \/ c.op = "retireUser" /\ RetireUser(c)

-----------------------------------------------------------------------------
(* Rate limiter: a bucket of Burst tokens, a token every Refill ticks.     *)
(* Tokens are counted in ticks.                                            *)

Refilled(b) == Min({Burst * Refill, b.tokens + now - b.last})

(* Mutant: the first request is free. *)
allowFirst ==
  IF bucket = None THEN bucket' = [tokens |-> Burst * Refill, last |-> now]
  ELSE /\ Refilled(bucket) >= Refill
       /\ bucket' = [tokens |-> Refilled(bucket) - Refill, last |-> now]

allow ==
  IF bucket = None THEN bucket' = [tokens |-> (Burst - 1) * Refill, last |-> now]
  ELSE /\ Refilled(bucket) >= Refill
       /\ bucket' = [tokens |-> Refilled(bucket) - Refill, last |-> now]

(* A refused request still brings the bucket up to date. *)
Refuses ==
  /\ bucket # None /\ Refilled(bucket) < Refill /\ bucket.last # now
  /\ bucket' = [tokens |-> Refilled(bucket), last |-> now]
  /\ UNCHANGED <<now, roles, users, sessions, issued, login, admitted, request, changes, audit,
                 entitled>>

-----------------------------------------------------------------------------
(* Sessions *)

(* Sessions are left to issue; the bound of the model. *)
Issuable == issued # Session

(* Mutant: a login needs no permission. *)
AuthenticateUserUnchecked(u) ==
  /\ login = None /\ Issuable /\ allow /\ admitted' = Append(admitted, now)
  /\ login' = [user |-> u, perms |-> Granted(u)]
  /\ UNCHANGED <<now, roles, users, sessions, issued, request, changes, audit, entitled>>

(* AuthenticateUser: one read of the user with its role.  An attempt that  *)
(* fails costs a token all the same.                                       *)
AuthenticateUser(u) ==
  /\ login = None /\ Issuable /\ allow /\ admitted' = Append(admitted, now)
  /\ login' = IF HasPermission(Granted(u), "read") THEN [user |-> u, perms |-> Granted(u)] ELSE None
  /\ UNCHANGED <<now, roles, users, sessions, issued, request, changes, audit, entitled>>

Login ==
  /\ login = None /\ Issuable /\ allow /\ admitted' = Append(admitted, now)
  /\ login' = [user |-> Env, perms |-> mergedAuthPermissions]
  /\ UNCHANGED <<now, roles, users, sessions, issued, request, changes, audit, entitled>>

IssueSession(s) ==
  /\ login # None /\ s \notin issued
  /\ sessions' = [sessions EXCEPT ![s] = [user |-> login.user, perms |-> login.perms,
                                          exp |-> now + TTL]]
  /\ issued' = issued \cup {s} /\ login' = None
  /\ UNCHANGED <<now, roles, users, bucket, admitted, request, changes, audit, entitled>>

(* Mutant: the clock is not looked at. *)
AuthenticateAnyTime(s) == sessions[s] # None

Authenticate(s) == sessions[s] # None /\ now <= sessions[s].exp

(* A look-up drops the session if it has expired. *)
sessionFromRequest(s) == [sessions EXCEPT ![s] = IF Authenticate(s) THEN @ ELSE None]

(* A page is asked for; what it reads is no matter here. *)
requireRead(s) ==
  /\ sessions[s] # None /\ ~Authenticate(s)
  /\ sessions' = sessionFromRequest(s)
  /\ UNCHANGED <<now, roles, users, issued, login, bucket, admitted, request, changes, audit,
                 entitled>>

logout(s) ==
  /\ sessions[s] # None
  /\ sessions' = [sessions EXCEPT ![s] = None]
  /\ UNCHANGED <<now, roles, users, issued, login, bucket, admitted, request, changes, audit,
                 entitled>>

-----------------------------------------------------------------------------
(* A writing request: check the session, change the row, record it. *)

(* A handler ends as lost if its record is: with the server, with the      *)
(* answer to the commit, or because its insert fails.                      *)
Unused == [at |-> "idle", session |-> None, change |-> None, user |-> None, since |-> 0]
Ended(r, how) == [Unused EXCEPT !.at = how, !.session = request[r].session]

requirePostWrite(r, s, c) ==
  /\ request[r].at = "idle"
  /\ Authenticate(s) /\ HasPermission(sessions[s].perms, "write")
  /\ request' = [request EXCEPT ![r] = [at |-> "apply", session |-> s, change |-> c,
                                        user |-> sessions[s].user, since |-> now]]
  /\ UNCHANGED <<now, roles, users, sessions, issued, login, bucket, admitted, changes, audit,
                 entitled>>

(* Stored, unless the store refuses it or fails. *)
StoredAs(r, how) ==
  /\ Stores(request[r].change) /\ Remembers
  /\ changes' = changes \cup {<<r, request[r].user>>}
  /\ request' = [request EXCEPT ![r] = how]
NotStoredAs(r, how) ==
  /\ request' = [request EXCEPT ![r] = how]
  /\ UNCHANGED <<roles, users, changes, entitled>>

Recording(r) == [request[r] EXCEPT !.at = "record"]

(* Mutant: the handler goes on after an error. *)
AppliesAnyway(r) ==
  /\ request[r].at = "apply"
  /\ StoredAs(r, Recording(r)) \/ NotStoredAs(r, Recording(r))
  /\ UNCHANGED <<now, sessions, issued, login, bucket, admitted, audit>>

(* An error ends the handler, also if only the answer to the commit is     *)
(* lost, as when the client has gone and with it the request's context.    *)
Applies(r) ==
  /\ request[r].at = "apply"
  /\ \/ StoredAs(r, Recording(r)) \/ StoredAs(r, Ended(r, "lost"))
     \/ NotStoredAs(r, Ended(r, "done"))
  /\ UNCHANGED <<now, sessions, issued, login, bucket, admitted, audit>>

(* The session is looked up again for the name of the actor; without it    *)
(* nothing is recorded.  The insert may fail, and nobody looks at its      *)
(* error.                                                                  *)
recordAudit(r) ==
  LET s == request[r].session IN
  /\ request[r].at = "record"
  /\ \/ /\ audit' = IF Authenticate(s) THEN audit \cup {<<r, sessions[s].user>>} ELSE audit
        /\ request' = [request EXCEPT ![r] = Ended(r, "done")]
     \/ /\ Authenticate(s) /\ UNCHANGED audit
        /\ request' = [request EXCEPT ![r] = Ended(r, "lost")]
  /\ sessions' = sessionFromRequest(s)
  /\ UNCHANGED <<now, roles, users, issued, login, bucket, admitted, changes, entitled>>

-----------------------------------------------------------------------------
(* A restart loses sessions, buckets and what is under way, and gives the  *)
(* seeded role every permission again, if it is still on the first page of *)
(* the roles: it is the oldest, and they are listed newest first.          *)

SeedIsListed == Cardinality({x \in Role : roles[x] # None}) <= RoleLimit

mergePermissions(perms) == perms \cup permissionCatalog
syncSeedRolePermissions ==
  IF SeedIsListed /\ roles[SeedRole].status = "active" /\ Plugins # {}
  THEN roles' = [roles EXCEPT ![SeedRole].perms = mergePermissions(@)]
  ELSE UNCHANGED roles

Run ==
  /\ syncSeedRolePermissions /\ Remembers
  /\ sessions' = [s \in Session |-> None] /\ login' = None
  /\ bucket' = None /\ admitted' = <<>>
  /\ request' = [r \in Request |-> IF request[r].at \in {"apply", "record"}
                                   THEN Ended(r, "lost") ELSE request[r]]
  /\ UNCHANGED <<now, users, issued, changes, audit>>

Tick ==
  /\ now < MaxTime /\ login = None
  /\ now' = now + 1
  /\ UNCHANGED <<roles, users, sessions, issued, login, bucket, admitted, request, changes, audit,
                 entitled>>

-----------------------------------------------------------------------------
Init ==
  /\ now = 0
  /\ roles = [x \in Role |-> IF x = SeedRole THEN [perms |-> AllPermissions, status |-> "active"]
                             ELSE None]
  /\ users \in [User -> {None, [role |-> SeedRole, status |-> "active"]}]
  /\ sessions = [s \in Session |-> None] /\ issued = {} /\ login = None
  /\ bucket = None /\ admitted = <<>>
  /\ request = [r \in Request |-> Unused]
  /\ changes = {} /\ audit = {}
  /\ entitled = [u \in User |-> -TTL - 1]

Next ==
  \/ \E u \in User : AuthenticateUser(u)
  \/ Login \/ Refuses \/ Run \/ Tick
  \/ \E s \in Session : IssueSession(s) \/ requireRead(s) \/ logout(s)
  \/ \E r \in Request : \/ \E s \in Session, c \in Change : requirePostWrite(r, s, c)
                        \/ Applies(r) \/ recordAudit(r)

Spec == Init /\ [][Next]_vars
-----------------------------------------------------------------------------
(***************************************************************************)
(* Properties                                                              *)
(***************************************************************************)

TypeOK ==
  /\ now \in 0..MaxTime
  /\ roles \in [Role -> RoleRow \cup {None}] /\ users \in [User -> UserRow \cup {None}]
  /\ \A u \in User : users[u] # None => roles[users[u].role] # None
  /\ \A s \in Session : sessions[s] # None =>
       /\ sessions[s].user \in User \cup {Env} /\ "read" \in sessions[s].perms
       /\ s \in issued
  /\ bucket \in Bucket \cup {None} /\ (bucket # None => bucket.last <= now)
  /\ \A r \in Request : request[r].at \in {"idle", "apply", "record", "done", "lost"}

(* Permissions are copied at login and never looked up again, so a user    *)
(* who is retired, demoted or whose role is retired keeps what it had; but *)
(* not for longer than a session lasts: no change is admitted later than   *)
(* that after the database last granted it.                                *)
PowerLapses ==
  \A r \in Request : request[r].at = "apply" /\ request[r].user \in User =>
    Entitled(request[r].user) \/ request[r].since <= entitled[request[r].user] + TTL

(* The audit log never lies: what it has was stored, by whom it says,      *)
(* although the actor is looked up after the change.  It is not complete:  *)
(* a stored change has no record while its handler runs, if the server     *)
(* stopped, if the database or the client was gone before the change was   *)
(* confirmed or recorded, or if the session had ended; but never else.     *)
AuditMatchesChanges ==
  /\ audit \subseteq changes
  /\ \A c \in changes \ audit :
       \/ request[c[1]].at \in {"record", "lost"}
       \/ ~Authenticate(request[c[1]].session)

(* In any interval the limiter lets no more logins through than a full     *)
(* bucket and what flowed in since.                                        *)
LoginsAreBounded ==
  \A i, j \in DOMAIN admitted : i <= j =>
    (j - i + 1) * Refill <= Burst * Refill + admitted[j] - admitted[i]
=============================================================================

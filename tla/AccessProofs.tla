---------------------------- MODULE AccessProofs ----------------------------
(***************************************************************************)
(* Proofs that power lapses with the session, that the audit log matches   *)
(* the changes, and that the limiter bounds logins, for any users, roles,  *)
(* sessions, requests and changes, any lifetime of a session and any       *)
(* limits.                                                                 *)
(***************************************************************************)
EXTENDS Access, TLAPS

(***************************************************************************)
(* The inductive invariant.                                                *)
(***************************************************************************)

Handler == [at : {"idle", "apply", "record", "done", "lost"}, session : Session \cup {None},
            change : Change \cup {None}, user : User \cup {Env, None}, since : Int]

Shapes ==
  /\ now \in Nat
  /\ entitled \in [User -> Int]
  /\ sessions = [s \in Session |-> sessions[s]]
  /\ \A s \in Session : sessions[s] # None => /\ sessions[s].exp \in Int
                                              /\ sessions[s].user \in User \cup {Env}
  /\ login # None => login.user \in User \cup {Env}
  /\ request \in [Request -> Handler]

(* User u has something that lets it change things until t: a login, a     *)
(* session, or a request that was admitted at t.                           *)
Claims(u, t) ==
  \/ login # None /\ login.user = u /\ HasPermission(login.perms, "write") /\ t = now + TTL
  \/ \E s \in Session : /\ sessions[s] # None /\ sessions[s].user = u
                        /\ HasPermission(sessions[s].perms, "write") /\ t = sessions[s].exp
  \/ \E r \in Request : request[r].at = "apply" /\ request[r].user = u /\ t = request[r].since

(* The database grants it, or did no longer than a session ago. *)
Held(u, t) == Entitled(u) \/ t <= entitled[u] + TTL

Founded == \A u \in User, t \in Int : Claims(u, t) => t <= now + TTL /\ Held(u, t)

IInv == Shapes /\ Founded

-----------------------------------------------------------------------------
LEMMA TTLIsPositive == TTL \in Nat /\ TTL > 0
BY LimitsAssumption

LEMMA UnusedShape == Unused \in Handler /\ Unused.at = "idle"
BY DEF Unused, Handler

LEMMA EndedShape ==
  ASSUME Shapes, NEW r \in Request, NEW how \in {"done", "lost"}
  PROVE  Ended(r, how) \in Handler /\ Ended(r, how).at = how
BY UnusedShape DEF Ended, Shapes, Handler

(***************************************************************************)
(* What was held is held after any step: users and roles change only       *)
(* together with the memory of who was entitled.                           *)
(***************************************************************************)
LEMMA HeldStays ==
  ASSUME Shapes, NEW u \in User, NEW t \in Int, t <= now + TTL, Held(u, t),
         UNCHANGED <<roles, users, entitled>> \/ Remembers
  PROVE  Held(u, t)'
<1>1. CASE UNCHANGED <<roles, users, entitled>>
  BY <1>1 DEF Held, Entitled, Granted
<1>2. CASE Remembers
  <2>1. entitled'[u] = IF Entitled(u) THEN now ELSE entitled[u]
    BY <1>2 DEF Remembers
  <2>2. t <= entitled'[u] + TTL
    BY <2>1, TTLIsPositive DEF Held, Shapes
  <2> QED BY <2>2 DEF Held
<1> QED BY <1>1, <1>2

LEMMA Remembered ==
  ASSUME Next
  PROVE  UNCHANGED <<roles, users, entitled>> \/ Remembers
BY DEF Next, AuthenticateUser, Login, Refuses, Run, Tick, IssueSession, requireRead, logout,
       requirePostWrite, Applies, StoredAs, NotStoredAs, recordAudit

-----------------------------------------------------------------------------
LEMMA ShapesStay ==
  ASSUME Shapes, Next
  PROVE  Shapes'
<1> USE TTLIsPositive DEF Shapes, Handler
<1>1. ASSUME NEW u \in User, AuthenticateUser(u) PROVE Shapes'
  BY <1>1 DEF AuthenticateUser
<1>2. CASE Login BY <1>2 DEF Login
<1>3. CASE Refuses BY <1>3 DEF Refuses
<1>4. CASE Run
  <2>1. entitled' \in [User -> Int] BY <1>4 DEF Run, Remembers
  <2>2. request' \in [Request -> Handler]
    BY <1>4, EndedShape DEF Run
  <2> QED BY <2>1, <2>2, <1>4 DEF Run
<1>5. CASE Tick BY <1>5 DEF Tick
<1>6. ASSUME NEW s \in Session, IssueSession(s) PROVE Shapes'
  BY <1>6 DEF IssueSession
<1>7. ASSUME NEW s \in Session, requireRead(s) PROVE Shapes'
  BY <1>7 DEF requireRead, sessionFromRequest
<1>8. ASSUME NEW s \in Session, logout(s) PROVE Shapes'
  BY <1>8 DEF logout
<1>9. ASSUME NEW r \in Request, NEW s \in Session, NEW c \in Change, requirePostWrite(r, s, c)
      PROVE  Shapes'
  <2>1. /\ sessions[s].user \in User \cup {Env}
        /\ request' = [request EXCEPT ![r] = [at |-> "apply", session |-> s, change |-> c,
                                              user |-> sessions[s].user, since |-> now]]
    BY <1>9 DEF requirePostWrite, Authenticate
  <2>2. request' \in [Request -> Handler] BY <2>1
  <2> QED BY <2>2, <1>9 DEF requirePostWrite
<1>10. ASSUME NEW r \in Request, Applies(r) PROVE Shapes'
  <2>1. entitled' \in [User -> Int]
    BY <1>10 DEF Applies, StoredAs, NotStoredAs, Remembers
  <2>2. request' \in [Request -> Handler]
    <3>1. CASE request' = [request EXCEPT ![r] = Recording(r)] BY <3>1 DEF Recording
    <3>2. ASSUME NEW how \in {"done", "lost"}, request' = [request EXCEPT ![r] = Ended(r, how)]
          PROVE  request' \in [Request -> Handler]
      BY <3>2, EndedShape
    <3> QED BY <1>10, <3>1, <3>2 DEF Applies, StoredAs, NotStoredAs
  <2> QED BY <2>1, <2>2, <1>10 DEF Applies
<1>11. ASSUME NEW r \in Request, recordAudit(r) PROVE Shapes'
  <2>1. request' \in [Request -> Handler] BY <1>11, EndedShape DEF recordAudit
  <2> QED BY <2>1, <1>11 DEF recordAudit, sessionFromRequest
<1> QED BY <1>1, <1>2, <1>3, <1>4, <1>5, <1>6, <1>7, <1>8, <1>9, <1>10, <1>11 DEF Next

(***************************************************************************)
(* A claim after a step was one before it, or is one the database grants   *)
(* at that moment, or rests on one that runs at least as long.             *)
(***************************************************************************)
LEMMA ClaimsAreFounded ==
  ASSUME IInv, Next, NEW u \in User, NEW t \in Int, Claims(u, t)'
  PROVE  t <= now + TTL /\ Held(u, t)
<1> USE TTLIsPositive DEF IInv, Shapes, Handler
<1>0. SUFFICES \/ Claims(u, t)
               \/ t = now + TTL /\ Entitled(u)
               \/ t = now /\ \E x \in Int : t <= x /\ Claims(u, x)
  BY DEF Founded, Held
<1>1. ASSUME NEW v \in User, AuthenticateUser(v)
      PROVE  Claims(u, t) \/ (t = now + TTL /\ Entitled(u))
  BY <1>1 DEF AuthenticateUser, Claims, HasPermission, Entitled
<1>2. CASE Login BY <1>2, PeopleAssumption DEF Login, Claims
<1>3. CASE Refuses BY <1>3 DEF Refuses, Claims
<1>4. CASE Run BY <1>4 DEF Run, Claims, Ended, Unused
<1>5. CASE Tick BY <1>5 DEF Tick, Claims
<1>6. ASSUME NEW s \in Session, IssueSession(s) PROVE Claims(u, t)
  BY <1>6 DEF IssueSession, Claims
<1>7. ASSUME NEW s \in Session, requireRead(s) PROVE Claims(u, t)
  BY <1>7 DEF requireRead, sessionFromRequest, Claims
<1>8. ASSUME NEW s \in Session, logout(s) PROVE Claims(u, t)
  BY <1>8 DEF logout, Claims
<1>9. ASSUME NEW r \in Request, NEW s \in Session, NEW c \in Change, requirePostWrite(r, s, c)
      PROVE  Claims(u, t) \/ (t = now /\ \E x \in Int : t <= x /\ Claims(u, x))
  <2>1. CASE /\ t = now /\ sessions[s].user = u
    <3>1. Claims(u, sessions[s].exp) /\ now <= sessions[s].exp /\ sessions[s].exp \in Int
      BY <1>9, <2>1 DEF requirePostWrite, Authenticate, Claims
    <3> QED BY <2>1, <3>1
  <2>2. CASE ~(t = now /\ sessions[s].user = u)
    BY <1>9, <2>2 DEF requirePostWrite, Claims
  <2> QED BY <2>1, <2>2
<1>10. ASSUME NEW r \in Request, Applies(r) PROVE Claims(u, t)
  BY <1>10 DEF Applies, StoredAs, NotStoredAs, Recording, Claims, Ended, Unused
<1>11. ASSUME NEW r \in Request, recordAudit(r) PROVE Claims(u, t)
  BY <1>11 DEF recordAudit, sessionFromRequest, Claims, Ended, Unused
<1> QED BY <1>1, <1>2, <1>3, <1>4, <1>5, <1>6, <1>7, <1>8, <1>9, <1>10, <1>11 DEF Next

-----------------------------------------------------------------------------
LEMMA InitIInv == Init => IInv
BY TTLIsPositive, UnusedShape DEF Init, IInv, Shapes, Founded, Claims

LEMMA StepIInv == IInv /\ [Next]_vars => IInv'
<1> SUFFICES ASSUME IInv, [Next]_vars PROVE IInv'
  OBVIOUS
<1>1. CASE Next
  <2>1. Shapes' BY <1>1, ShapesStay DEF IInv
  <2>2. now <= now'
    BY <1>1 DEF IInv, Shapes, Next, AuthenticateUser, Login, Refuses, Run, Tick, IssueSession,
                requireRead, logout, requirePostWrite, Applies, recordAudit
  <2>3. ASSUME NEW u \in User, NEW t \in Int, Claims(u, t)'
        PROVE  t <= now' + TTL /\ Held(u, t)'
    <3>1. t <= now + TTL /\ Held(u, t) BY <1>1, <2>3, ClaimsAreFounded
    <3>2. Held(u, t)' BY <1>1, <3>1, HeldStays, Remembered DEF IInv
    <3> QED BY <2>1, <2>2, <3>1, <3>2, TTLIsPositive DEF IInv, Shapes
  <2> QED BY <2>1, <2>3 DEF IInv, Founded
<1>2. CASE UNCHANGED vars
  BY <1>2 DEF vars, IInv, Shapes, Handler, Founded, Claims, Held, Entitled, Granted, HasPermission
<1> QED BY <1>1, <1>2

(***************************************************************************)
(* A user who is retired, demoted or whose role is retired changes nothing *)
(* later than the lifetime of a session after that, however logins,        *)
(* requests, changes, logouts and restarts interleave.                     *)
(***************************************************************************)
THEOREM PowerLapsesAlways == Spec => []PowerLapses
<1>1. IInv => PowerLapses
  <2> SUFFICES ASSUME IInv, NEW r \in Request, request[r].at = "apply", request[r].user \in User
               PROVE  Held(request[r].user, request[r].since)
    BY DEF PowerLapses, Held
  <2>1. request[r].since \in Int BY DEF IInv, Shapes, Handler
  <2>2. Claims(request[r].user, request[r].since) BY DEF Claims
  <2> QED BY <2>1, <2>2 DEF IInv, Founded
<1> QED BY InitIInv, StepIInv, <1>1, PTL DEF Spec

-----------------------------------------------------------------------------
(***************************************************************************)
(* The audit log.                                                          *)
(***************************************************************************)

Actor == User \cup {Env, None}

(* A session belongs to one user: its id is issued once. *)
Sessions ==
  /\ \A s \in Session : sessions[s] # None => s \in issued
  /\ \A r \in Request : request[r].at # "idle" =>
       /\ request[r].session \in Session \cap issued
       /\ request[r].at \in {"apply", "record"} /\ sessions[request[r].session] # None
            => sessions[request[r].session].user = request[r].user

(* A request changes something once, and it has not been recorded before. *)
Changes ==
  /\ changes \subseteq Request \X Actor /\ audit \subseteq changes
  /\ \A r \in Request : request[r].at = "record" => <<r, request[r].user>> \in changes
  /\ \A r \in Request, a \in Actor : <<r, a>> \in changes =>
       /\ request[r].at \in {"record", "done", "lost"}
       /\ request[r].at = "record" => request[r].user = a

Recorded ==
  \A r \in Request, a \in Actor : <<r, a>> \in changes \ audit =>
    request[r].at \in {"record", "lost"} \/ ~Authenticate(request[r].session)

AuditInv == Shapes /\ Sessions /\ Changes /\ Recorded

LEMMA InitAuditInv == Init => AuditInv
<1> SUFFICES ASSUME Init PROVE AuditInv
  OBVIOUS
<1>1. Shapes BY InitIInv DEF IInv
<1>2. \A r \in Request : request[r].at = "idle" BY UnusedShape DEF Init
<1> QED BY <1>1, <1>2 DEF Init, AuditInv, Sessions, Changes, Recorded

(* A session that is over stays so. *)
LEMMA OverStaysOver ==
  ASSUME AuditInv, Next, NEW s \in Session \cap issued, ~Authenticate(s)
  PROVE  ~Authenticate(s)'
<1> USE DEF AuditInv, Shapes, Sessions, Authenticate
<1>1. CASE Run BY <1>1 DEF Run
<1>2. CASE Tick BY <1>2 DEF Tick
<1>3. ASSUME NEW x \in Session, IssueSession(x) PROVE ~Authenticate(s)' BY <1>3 DEF IssueSession
<1>4. ASSUME NEW x \in Session, requireRead(x) PROVE ~Authenticate(s)'
  BY <1>4 DEF requireRead, sessionFromRequest
<1>5. ASSUME NEW x \in Session, logout(x) PROVE ~Authenticate(s)' BY <1>5 DEF logout
<1>6. ASSUME NEW r \in Request, recordAudit(r) PROVE ~Authenticate(s)'
  BY <1>6 DEF recordAudit, sessionFromRequest
<1>7. CASE UNCHANGED <<now, sessions>> BY <1>7
<1>8. ASSUME NEW r \in Request, Applies(r) PROVE UNCHANGED <<now, sessions>> BY <1>8 DEF Applies
<1> QED BY <1>1, <1>2, <1>3, <1>4, <1>5, <1>6, <1>7, <1>8
        DEF Next, AuthenticateUser, Login, Refuses, requirePostWrite
(* A step that starts, changes and records nothing. *)
LEMMA QuietStep ==
  ASSUME AuditInv, Next, Shapes', UNCHANGED <<request, changes, audit>>,
         issued \subseteq issued',
         \A s \in Session : \/ sessions'[s] = sessions[s] \/ sessions'[s] = None
                            \/ s \notin issued /\ s \in issued'
  PROVE  AuditInv'
<1>1. Sessions'
  BY DEF AuditInv, Sessions
<1>2. Changes'
  BY DEF AuditInv, Changes
<1>3. Recorded'
  <2> SUFFICES ASSUME NEW r \in Request, NEW a \in Actor, <<r, a>> \in changes \ audit,
                      request[r].at \notin {"record", "lost"}
               PROVE  ~Authenticate(request[r].session)'
    BY DEF Recorded
  <2>1. request[r].session \in Session \cap issued /\ ~Authenticate(request[r].session)
    BY DEF AuditInv, Sessions, Changes, Recorded
  <2>2. \A s \in Session \cap issued : ~Authenticate(s) => ~Authenticate(s)'
    BY OverStaysOver
  <2> QED BY <2>1, <2>2 DEF Authenticate
<1> QED BY <1>1, <1>2, <1>3 DEF AuditInv

LEMMA StepAuditInv == AuditInv /\ [Next]_vars => AuditInv'
<1> SUFFICES ASSUME AuditInv, [Next]_vars PROVE AuditInv'
  OBVIOUS
<1>0. CASE UNCHANGED vars
  BY <1>0 DEF vars, AuditInv, Shapes, Sessions, Changes, Recorded, Authenticate
<1> SUFFICES ASSUME Next PROVE AuditInv'
  BY <1>0
<1>S. Shapes' BY ShapesStay DEF AuditInv
<1>O. \A s \in Session \cap issued : ~Authenticate(s) => ~Authenticate(s)'
  BY OverStaysOver
<1>1. ASSUME NEW u \in User, AuthenticateUser(u) PROVE AuditInv'
  BY <1>1, <1>S, QuietStep DEF AuthenticateUser
<1>2. CASE Login BY <1>2, <1>S, QuietStep DEF Login
<1>3. CASE Refuses BY <1>3, <1>S, QuietStep DEF Refuses
<1>4. CASE Tick BY <1>4, <1>S, QuietStep DEF Tick
<1>5. ASSUME NEW s \in Session, IssueSession(s) PROVE AuditInv'
  BY <1>5, <1>S, QuietStep DEF IssueSession, AuditInv, Shapes
<1>6. ASSUME NEW s \in Session, requireRead(s) PROVE AuditInv'
  BY <1>6, <1>S, QuietStep DEF requireRead, sessionFromRequest, AuditInv, Shapes
<1>7. ASSUME NEW s \in Session, logout(s) PROVE AuditInv'
  BY <1>7, <1>S, QuietStep DEF logout, AuditInv, Shapes
<1>8. CASE Run
  <2>1. \A r \in Request : \/ request'[r] = request[r] /\ request[r].at \notin {"apply", "record"}
                           \/ /\ request'[r].at = "lost" /\ request[r].at \in {"apply", "record"}
                              /\ request'[r].session = request[r].session
    BY <1>8, EndedShape DEF Run, Ended, Unused, AuditInv
  <2>2. Sessions' BY <1>8, <2>1 DEF Run, AuditInv, Sessions
  <2>3. Changes' BY <1>8, <2>1 DEF Run, AuditInv, Changes
  <2>4. Recorded' BY <1>8, <2>1 DEF Run, AuditInv, Recorded, Changes, Sessions, Authenticate
  <2> QED BY <1>S, <2>2, <2>3, <2>4 DEF AuditInv
<1>9. ASSUME NEW r \in Request, NEW s \in Session, NEW c \in Change, requirePostWrite(r, s, c)
      PROVE  AuditInv'
  <2>1. /\ request[r].at = "idle" /\ sessions[s] # None
        /\ request' = [request EXCEPT ![r] = [at |-> "apply", session |-> s, change |-> c,
                                              user |-> sessions[s].user, since |-> now]]
        /\ UNCHANGED <<now, sessions, issued, changes, audit>>
    BY <1>9 DEF requirePostWrite, Authenticate
  <2>2. Sessions' BY <2>1 DEF AuditInv, Shapes, Sessions
  <2>3. Changes' BY <2>1 DEF AuditInv, Shapes, Changes
  <2>4. Recorded' BY <2>1 DEF AuditInv, Shapes, Changes, Recorded, Authenticate
  <2> QED BY <1>S, <2>2, <2>3, <2>4 DEF AuditInv
<1>10. ASSUME NEW r \in Request, Applies(r) PROVE AuditInv'
  <2>0. /\ UNCHANGED <<now, sessions, issued, audit>> /\ request[r].at = "apply"
        /\ request[r].user \in Actor
    BY <1>10 DEF Applies, AuditInv, Shapes, Handler, Actor
  <2>1. CASE /\ changes' = changes \cup {<<r, request[r].user>>}
             /\ request' = [request EXCEPT ![r] = Recording(r)]
    <3>1. /\ \A q \in Request \ {r} : request'[q] = request[q]
          /\ request'[r].at = "record" /\ request'[r].user = request[r].user
          /\ request'[r].session = request[r].session
      BY <2>1 DEF AuditInv, Shapes, Handler, Recording
    <3>2. Sessions' BY <2>0, <3>1 DEF AuditInv, Sessions
    <3>3. Changes' BY <2>0, <2>1, <3>1 DEF AuditInv, Changes
    <3>4. Recorded' BY <2>0, <2>1, <3>1 DEF AuditInv, Recorded, Authenticate
    <3> QED BY <1>S, <3>2, <3>3, <3>4 DEF AuditInv
  <2>2. CASE UNCHANGED changes /\ request' = [request EXCEPT ![r] = Ended(r, "done")]
    <3>1. /\ \A q \in Request \ {r} : request'[q] = request[q]
          /\ request'[r].at = "done" /\ request'[r].session = request[r].session
      BY <2>2, EndedShape DEF AuditInv, Shapes, Ended, Unused
    <3>2. Sessions' BY <2>0, <3>1 DEF AuditInv, Sessions
    <3>3. Changes' BY <2>0, <2>2, <3>1 DEF AuditInv, Changes
    <3>4. Recorded' BY <2>0, <2>2, <3>1 DEF AuditInv, Recorded, Changes, Authenticate
    <3> QED BY <1>S, <3>2, <3>3, <3>4 DEF AuditInv
  <2>3. CASE /\ changes' = changes \cup {<<r, request[r].user>>}
             /\ request' = [request EXCEPT ![r] = Ended(r, "lost")]
    <3>1. /\ \A q \in Request \ {r} : request'[q] = request[q]
          /\ request'[r].at = "lost" /\ request'[r].session = request[r].session
      BY <2>3, EndedShape DEF AuditInv, Shapes, Ended, Unused
    <3>2. Sessions' BY <2>0, <3>1 DEF AuditInv, Sessions
    <3>3. Changes' BY <2>0, <2>3, <3>1 DEF AuditInv, Changes
    <3>4. Recorded' BY <2>0, <2>3, <3>1 DEF AuditInv, Recorded, Authenticate
    <3> QED BY <1>S, <3>2, <3>3, <3>4 DEF AuditInv
  <2> QED BY <1>10, <2>1, <2>2, <2>3 DEF Applies, StoredAs, NotStoredAs
<1>11. ASSUME NEW r \in Request, recordAudit(r) PROVE AuditInv'
  <2> DEFINE s == request[r].session
  <2>0. /\ UNCHANGED <<now, issued, changes>> /\ request[r].at = "record"
        /\ s \in Session \cap issued /\ <<r, request[r].user>> \in changes
        /\ \/ /\ audit' = IF Authenticate(s) THEN audit \cup {<<r, request[r].user>>} ELSE audit
              /\ request' = [request EXCEPT ![r] = Ended(r, "done")]
           \/ audit' = audit /\ request' = [request EXCEPT ![r] = Ended(r, "lost")]
    BY <1>11 DEF recordAudit, AuditInv, Sessions, Changes, Authenticate
  <2>1. /\ \A q \in Request \ {r} : request'[q] = request[q]
        /\ request'[r].at \in {"done", "lost"} /\ request'[r].session = s
    BY <1>11, EndedShape DEF recordAudit, AuditInv, Shapes, Ended, Unused
  <2>a. \/ audit' = IF Authenticate(s) THEN audit \cup {<<r, request[r].user>>} ELSE audit
        \/ audit' = audit /\ request'[r].at = "lost"
    BY <2>0, EndedShape DEF AuditInv, Shapes
  <2>2. \A x \in Session : sessions'[x] = sessions[x] \/ sessions'[x] = None
    BY <1>11 DEF recordAudit, sessionFromRequest, AuditInv, Shapes
  <2>3. Sessions' BY <2>0, <2>1, <2>2 DEF AuditInv, Sessions
  <2>4. Changes' BY <2>0, <2>1, <2>a DEF AuditInv, Changes
  <2>5. Recorded'
    <3> SUFFICES ASSUME NEW q \in Request, NEW a \in Actor, <<q, a>> \in changes' \ audit',
                        request'[q].at \notin {"record", "lost"}
                 PROVE  ~Authenticate(request[q].session)'
      BY DEF Recorded
    <3>1. /\ request'[q].session = request[q].session /\ request[q].session \in Session \cap issued
          /\ ~Authenticate(request[q].session)
      BY <2>0, <2>1, <2>a DEF AuditInv, Changes, Sessions, Recorded
    <3>2. \A x \in Session \cap issued : ~Authenticate(x) => ~Authenticate(x)'
      BY <1>O
    <3> QED BY <3>1, <3>2 DEF Authenticate
  <2> QED BY <1>S, <2>3, <2>4, <2>5 DEF AuditInv
<1> QED BY <1>1, <1>2, <1>3, <1>4, <1>5, <1>6, <1>7, <1>8, <1>9, <1>10, <1>11 DEF Next

(***************************************************************************)
(* The audit log tells the truth about who changed what, and leaves a      *)
(* change out only while its handler runs, if the server stopped, or if    *)
(* the session ended before the record was written, or if the database     *)
(* failed the handler.                                                     *)
(***************************************************************************)
THEOREM AuditMatchesChangesAlways == Spec => []AuditMatchesChanges
<1>1. AuditInv => AuditMatchesChanges
  BY DEF AuditInv, Changes, Recorded, AuditMatchesChanges
<1> QED BY InitAuditInv, StepAuditInv, <1>1, PTL DEF Spec
-----------------------------------------------------------------------------
(***************************************************************************)
(* Types: users have roles that exist, and whoever logs in may read.       *)
(***************************************************************************)

Rows ==
  /\ roles \in [Role -> RoleRow \cup {None}] /\ users \in [User -> UserRow \cup {None}]
  /\ \A u \in User : users[u] # None => roles[users[u].role] # None
  /\ roles[SeedRole] # None

Asked == \A r \in Request : request[r].at = "apply" => request[r].change \in Change

MayRead ==
  /\ login # None => "read" \in login.perms
  /\ \A s \in Session : sessions[s] # None => "read" \in sessions[s].perms /\ s \in issued

(* What an operation stores is a row, and no operation takes a row away. *)
LEMMA StoresRows ==
  ASSUME Rows, NEW c \in Change, Stores(c)
  PROVE  Rows'
<1> USE PeopleAssumption, ChangeAssumption, NoneIsNoRow DEF Rows, RoleRow, UserRow
<1>1. CreateRole(c) /\ c.op = "createRole" => Rows'
  <2> SUFFICES ASSUME CreateRole(c), c.op = "createRole" PROVE Rows'
    OBVIOUS
  <2>1. c.role \in Role /\ c.perms \subseteq Named
    BY DEF Named, RoleChange, UserChange
  <2> DEFINE row == [perms |-> c.perms, status |-> "active"]
  <2>2. row \in RoleRow /\ row # None
    BY <2>1
  <2>3. roles' = [roles EXCEPT ![c.role] = row] /\ users' = users
    BY DEF CreateRole
  <2> HIDE DEF row
  <2> QED BY <2>1, <2>2, <2>3
<1>2. UpdateRole(c) /\ c.op = "updateRole" => Rows'
  <2> SUFFICES ASSUME UpdateRole(c), c.op = "updateRole" PROVE Rows'
    OBVIOUS
  <2>1. c.role \in Role /\ c.perms \subseteq Named
    BY DEF Named, RoleChange, UserChange
  <2>2. PICK row \in RoleRow : roles' = [roles EXCEPT ![c.role] = row] /\ users' = users
    BY <2>1 DEF UpdateRole
  <2>3. row # None
    BY <2>2
  <2> QED BY <2>1, <2>2, <2>3
<1>3. RetireRole(c) /\ c.op = "retireRole" => Rows'
  <2> SUFFICES ASSUME RetireRole(c), c.op = "retireRole" PROVE Rows'
    OBVIOUS
  <2>1. c.role \in Role
    BY DEF RoleChange, UserChange
  <2>2. PICK row \in RoleRow : roles' = [roles EXCEPT ![c.role] = row] /\ users' = users
    BY <2>1 DEF RetireRole
  <2>3. row # None
    BY <2>2
  <2> QED BY <2>1, <2>2, <2>3
<1>4. ASSUME NEW row \in UserRow, roles[row.role] # None, c.user \in User, roles' = roles,
             users' = [users EXCEPT ![c.user] = row]
      PROVE  Rows'
  BY <1>4
<1>5. CreateUser(c) /\ c.op = "createUser" => Rows'
  <2> SUFFICES ASSUME CreateUser(c), c.op = "createUser" PROVE Rows'
    OBVIOUS
  <2>1. c.role \in Role /\ c.user \in User
    BY DEF UserChange
  <2>2. PICK row \in UserRow : row = [role |-> c.role, status |-> "active"]
    BY <2>1
  <2> QED BY <1>4, <2>1, <2>2 DEF CreateUser
<1>6. UpdateUser(c) /\ c.op = "updateUser" => Rows'
  <2> SUFFICES ASSUME UpdateUser(c), c.op = "updateUser" PROVE Rows'
    OBVIOUS
  <2>1. c.role \in Role /\ c.user \in User
    BY DEF UserChange
  <2>2. PICK row \in UserRow : row = [users[c.user] EXCEPT !.role = c.role]
    BY <2>1 DEF UpdateUser
  <2>3. row.role = c.role
    BY <2>1, <2>2 DEF UpdateUser
  <2> QED BY <1>4, <2>1, <2>2, <2>3 DEF UpdateUser
<1>7. RetireUser(c) /\ c.op = "retireUser" => Rows'
  <2> SUFFICES ASSUME RetireUser(c), c.op = "retireUser" PROVE Rows'
    OBVIOUS
  <2>1. c.user \in User
    BY DEF UserChange
  <2>2. PICK row \in UserRow : row = [users[c.user] EXCEPT !.status = "retired"]
    BY <2>1 DEF RetireUser
  <2>3. row.role = users[c.user].role
    BY <2>1, <2>2 DEF RetireUser
  <2> QED BY <1>4, <2>1, <2>2, <2>3 DEF RetireUser
<1> QED BY <1>1, <1>2, <1>3, <1>5, <1>6, <1>7 DEF Stores

LEMMA RowsStay ==
  ASSUME Rows, Shapes, Asked, Next
  PROVE  Rows'
<1>1. CASE UNCHANGED <<roles, users>>
  BY <1>1 DEF Rows
<1>2. CASE Run
  <2>1. roles[SeedRole] \in RoleRow /\ SeedRole \in Role
    BY PeopleAssumption DEF Rows
  <2>2. PICK row \in RoleRow : roles' = [roles EXCEPT ![SeedRole] = row]
    <3> DEFINE merged == [roles[SeedRole] EXCEPT !.perms = mergePermissions(roles[SeedRole].perms)]
    <3>1. merged \in RoleRow
      BY <2>1 DEF RoleRow, mergePermissions, Named
    <3>2. \/ roles' = [roles EXCEPT ![SeedRole] = merged]
          \/ roles' = [roles EXCEPT ![SeedRole] = roles[SeedRole]]
      BY <1>2, <2>1 DEF Run, syncSeedRolePermissions, Rows, RoleRow
    <3> QED BY <2>1, <3>1, <3>2
  <2>3. row # None /\ users' = users
    BY <1>2, NoneIsNoRow DEF Run
  <2> QED BY <2>1, <2>2, <2>3 DEF Rows, UserRow
<1>3. ASSUME NEW r \in Request, Applies(r) PROVE Rows'
  <2>1. \/ Stores(request[r].change) /\ request[r].change \in Change
        \/ UNCHANGED <<roles, users>>
    BY <1>3 DEF Applies, StoredAs, NotStoredAs, Asked
  <2> QED BY <1>1, <2>1, StoresRows
<1> QED BY <1>1, <1>2, <1>3
        DEF Next, AuthenticateUser, Login, Refuses, Tick, IssueSession, requireRead, logout,
            requirePostWrite, recordAudit

LEMMA AskedStays ==
  ASSUME Shapes, Asked, Next
  PROVE  Asked'
<1> USE DEF Shapes, Asked, Handler
<1>1. CASE UNCHANGED request BY <1>1
<1>2. CASE Run BY <1>2, EndedShape DEF Run
<1>3. ASSUME NEW r \in Request, NEW s \in Session, NEW c \in Change, requirePostWrite(r, s, c)
      PROVE  Asked'
  BY <1>3 DEF requirePostWrite
<1>4. ASSUME NEW r \in Request, Applies(r) PROVE Asked'
  BY <1>4, EndedShape DEF Applies, StoredAs, NotStoredAs, Recording
<1>5. ASSUME NEW r \in Request, recordAudit(r) PROVE Asked'
  BY <1>5, EndedShape DEF recordAudit
<1> QED BY <1>1, <1>2, <1>3, <1>4, <1>5
        DEF Next, AuthenticateUser, Login, Refuses, Tick, IssueSession, requireRead, logout

LEMMA MayReadStays ==
  ASSUME Shapes, MayRead, Next
  PROVE  MayRead'
<1> USE DEF Shapes, MayRead
<1>1. CASE UNCHANGED <<login, sessions, issued>> BY <1>1
<1>2. ASSUME NEW u \in User, AuthenticateUser(u) PROVE MayRead'
  BY <1>2 DEF AuthenticateUser, HasPermission
<1>3. CASE Login
  BY <1>3 DEF Login, mergedAuthPermissions, AllPermissions
<1>4. ASSUME NEW s \in Session, IssueSession(s) PROVE MayRead'
  BY <1>4 DEF IssueSession
<1>5. ASSUME NEW s \in Session, requireRead(s) \/ logout(s) PROVE MayRead'
  BY <1>5 DEF requireRead, sessionFromRequest, logout
<1>6. ASSUME NEW r \in Request, recordAudit(r) PROVE MayRead'
  BY <1>6 DEF recordAudit, sessionFromRequest
<1>7. CASE Run BY <1>7 DEF Run
<1> QED BY <1>1, <1>2, <1>3, <1>4, <1>5, <1>6, <1>7
        DEF Next, Refuses, Tick, requirePostWrite, Applies

-----------------------------------------------------------------------------
(***************************************************************************)
(* The rate limiter                                                        *)
(***************************************************************************)

Full == Burst * Refill

(* The tokens left and the logins since the i-th, that one included, are   *)
(* paid for by a full bucket and by what flowed in since.                  *)
Paid ==
  \A i \in DOMAIN admitted :
    (Len(admitted) - i + 1) * Refill + bucket.tokens <= Full + bucket.last - admitted[i]

Limiter ==
  /\ now \in 0..MaxTime
  /\ bucket \in Bucket \cup {None}
  /\ bucket # None => bucket.last <= now
  /\ admitted \in Seq(0..MaxTime)
  /\ bucket = None => admitted = <<>>
  /\ Paid
  /\ LoginsAreBounded

LEMMA Prices ==
  /\ Full \in Nat /\ Refill \in Nat /\ Refill > 0 /\ Refill <= Full
  /\ (Burst - 1) * Refill = Full - Refill
  /\ \A k \in Int : k * Refill \in Int /\ (k + 1) * Refill = k * Refill + Refill
<1>1. Burst \in Nat /\ Burst > 0 /\ Refill \in Nat /\ Refill > 0
  BY LimitsAssumption
<1>2. \A k \in Int : k * Refill \in Int /\ (k + 1) * Refill = k * Refill + Refill
  BY <1>1
<1>3. Full = (Burst - 1) * Refill + Refill
  <2>1. Burst - 1 \in Int /\ (Burst - 1) + 1 = Burst
    BY <1>1
  <2> QED BY <1>2, <2>1 DEF Full
<1>4. (Burst - 1) * Refill \in Nat
  BY <1>1
<1> QED BY <1>1, <1>2, <1>3, <1>4

LEMMA RefilledIs ==
  ASSUME Limiter, bucket # None
  PROVE  /\ bucket.tokens \in Nat /\ bucket.tokens <= Full /\ bucket.last \in Nat
         /\ Refilled(bucket) \in 0..Full
         /\ Refilled(bucket) <= bucket.tokens + now - bucket.last
<1>1. /\ bucket.tokens \in 0..Full /\ bucket.last \in 0..MaxTime /\ bucket.last <= now
      /\ now \in Nat
  BY LimitsAssumption DEF Limiter, Bucket, Full
<1>2. PICK a \in Nat : a = bucket.tokens + now - bucket.last
  BY <1>1, Prices
<1>3. \E x \in {Full, a} : \A y \in {Full, a} : x <= y
  BY <1>2, Prices
<1>4. Min({Full, a}) \in {Full, a} /\ Min({Full, a}) <= Full /\ Min({Full, a}) <= a
  BY <1>3 DEF Min
<1>5. Refilled(bucket) = Min({Full, a})
  BY <1>2 DEF Refilled, Full
<1> QED BY <1>1, <1>2, <1>4, <1>5, Prices

(* What was paid for stays so when tokens flow in. *)
LEMMA FlowsIn ==
  ASSUME NEW cost \in Int, NEW tokens \in Int, NEW last \in Int, NEW at \in Int, NEW full \in Int,
         NEW left \in Int, NEW time \in Int,
         cost + tokens <= full + last - at, left <= tokens + time - last
  PROVE  cost + left <= full + time - at
OBVIOUS

(* Times are numbers. *)
LEMMA AdmittedAt ==
  ASSUME admitted \in Seq(0..MaxTime)
  PROVE  /\ Len(admitted) \in Nat /\ DOMAIN admitted = 1..Len(admitted)
         /\ \A i \in DOMAIN admitted : i \in Nat /\ admitted[i] \in Nat
<1>1. Len(admitted) \in Nat /\ DOMAIN admitted = 1..Len(admitted)
  OBVIOUS
<1>2. \A i \in 1..Len(admitted) : admitted[i] \in 0..MaxTime
  <2> DEFINE Times == 0..MaxTime
  <2>1. admitted \in Seq(Times)
    OBVIOUS
  <2> HIDE DEF Times
  <2>2. \A i \in 1..Len(admitted) : admitted[i] \in Times
    BY <2>1
  <2> QED BY <2>2 DEF Times
<1>3. \A i \in 1..Len(admitted) : i \in Nat
  BY <1>1
<1>4. \A x \in 0..MaxTime : x \in Nat
  BY LimitsAssumption
<1> QED BY <1>1, <1>2, <1>3, <1>4

(* A request that is let through is paid for. *)
LEMMA AllowIsPaid ==
  ASSUME Limiter, allow, admitted' = Append(admitted, now), now' = now
  PROVE  Limiter'
<1>0. now \in 0..MaxTime /\ now \in Nat /\ MaxTime \in Nat
  BY LimitsAssumption DEF Limiter
<1>1. /\ admitted \in Seq(0..MaxTime) /\ Len(admitted) \in Nat
      /\ \A i \in DOMAIN admitted : i \in 1..Len(admitted) /\ admitted[i] \in Nat
  BY <1>0 DEF Limiter
<1>2. /\ admitted' \in Seq(0..MaxTime) /\ Len(admitted') = Len(admitted) + 1
      /\ DOMAIN admitted' = 1..(Len(admitted) + 1) /\ DOMAIN admitted = 1..Len(admitted)
      /\ \A i \in DOMAIN admitted : admitted'[i] = admitted[i]
      /\ admitted'[Len(admitted) + 1] = now
  BY <1>0, <1>1
<1>3. PICK t \in 0..Full :
        /\ bucket' = [tokens |-> t, last |-> now] /\ t <= Full - Refill
        /\ \A i \in DOMAIN admitted :
             (Len(admitted) - i + 1) * Refill + Refill + t <= Full + now - admitted[i]
  <2>1. CASE bucket = None
    <3>1. (Burst - 1) * Refill \in 0..Full /\ (Burst - 1) * Refill <= Full - Refill
      BY Prices
    <3>2. DOMAIN admitted = {}
      BY <2>1 DEF Limiter
    <3> QED BY <2>1, <3>1, <3>2 DEF allow
  <2>2. CASE bucket # None
    <3>1. PICK t \in 0..Full : t = Refilled(bucket) - Refill
      BY <2>2, RefilledIs, Prices DEF allow
    <3>2. t <= Full - Refill /\ t + Refill <= bucket.tokens + now - bucket.last
      BY <2>2, <3>1, RefilledIs, Prices
    <3>3. ASSUME NEW i \in DOMAIN admitted
          PROVE  (Len(admitted) - i + 1) * Refill + Refill + t <= Full + now - admitted[i]
      <4>1. admitted[i] \in Nat /\ Len(admitted) - i + 1 \in Int
        BY <1>1
      <4>2. PICK p \in Int : p = (Len(admitted) - i + 1) * Refill
        BY <4>1, Prices
      <4>3. p + bucket.tokens <= Full + bucket.last - admitted[i]
        BY <4>2 DEF Limiter, Paid
      <4>4. bucket.tokens \in Nat /\ bucket.last \in Nat /\ Full \in Nat /\ Refill \in Nat
        BY <2>2, RefilledIs, Prices
      <4>5. p \in Int /\ t \in Int /\ now \in Int
        BY <1>0, <3>1, <4>2
      <4>6. p + (t + Refill) <= Full + now - admitted[i]
        <5>1. t + Refill \in Int
          BY <4>4, <4>5
        <5>2. admitted[i] \in Int /\ bucket.tokens \in Int /\ bucket.last \in Int /\ Full \in Int
          BY <4>1, <4>4
        <5> QED BY <3>2, <4>3, <4>5, <5>1, <5>2, SMTT(30)
      <4>7. p + Refill + t = p + (t + Refill)
        BY <4>4, <4>5
      <4> QED BY <4>2, <4>6, <4>7
    <3>4. bucket' = [tokens |-> t, last |-> now]
      BY <2>2, <3>1 DEF allow
    <3> QED BY <3>2, <3>3, <3>4
  <2> QED BY <2>1, <2>2
<1>4. bucket' \in Bucket /\ bucket' # None /\ bucket'.tokens = t /\ bucket'.last = now
  BY <1>0, <1>3, NoneIsNoRow DEF Bucket, Full
<1> DEFINE n == Len(admitted)
<1>5. \A i \in DOMAIN admitted : (n + 1 - i + 1) * Refill = (n - i + 1) * Refill + Refill
  <2>1. \A i \in DOMAIN admitted : n - i + 1 \in Int /\ n + 1 - i + 1 = (n - i + 1) + 1
    BY <1>1
  <2> QED BY <2>1, Prices
<1>6. (n + 1 - (n + 1) + 1) * Refill = Refill
  BY <1>1, Prices
<1>7. Paid'
  <2> SUFFICES ASSUME NEW i \in 1..(n + 1)
               PROVE  (n + 1 - i + 1) * Refill + t <= Full + now - admitted'[i]
    BY <1>2, <1>4 DEF Paid, Full
  <2>1. CASE i = n + 1
    BY <1>0, <1>1, <1>2, <1>3, <1>6, <2>1, Prices
  <2>2. CASE i \in DOMAIN admitted
    <3>1. (n - i + 1) * Refill + Refill + t <= Full + now - admitted[i]
      BY <1>3, <2>2
    <3> QED BY <1>2, <1>5, <2>2, <3>1
  <2> QED BY <1>1, <1>2, <2>1, <2>2
<1>8. LoginsAreBounded'
  <2> SUFFICES ASSUME NEW i \in 1..(n + 1), NEW j \in 1..(n + 1), i <= j
               PROVE  (j - i + 1) * Refill <= Full + admitted'[j] - admitted'[i]
    BY <1>2 DEF LoginsAreBounded, Full
  <2>1. CASE j \in DOMAIN admitted
    <3>1. i \in DOMAIN admitted
      BY <1>1, <1>2, <2>1
    <3>2. (j - i + 1) * Refill <= Full + admitted[j] - admitted[i]
      BY <2>1, <3>1 DEF Limiter, LoginsAreBounded, Full
    <3> QED BY <1>2, <2>1, <3>1, <3>2
  <2>2. CASE j = n + 1
    <3>1. (n + 1 - i + 1) * Refill + t <= Full + now - admitted'[i]
      BY <1>2, <1>4, <1>7 DEF Paid, Full
    <3>2. n + 1 - i + 1 \in Int /\ admitted'[j] = now /\ admitted'[i] \in Nat
      <4>1. admitted'[i] \in Nat
        <5>1. CASE i = n + 1 BY <1>0, <1>2, <5>1
        <5>2. CASE i \in 1..n BY <1>1, <1>2, <5>2
        <5> QED BY <1>1, <5>1, <5>2
      <4> QED BY <1>1, <1>2, <2>2, <4>1
    <3>3. PICK p \in Int : p = (n + 1 - i + 1) * Refill
      BY <3>2, Prices
    <3>4. p <= Full + now - admitted'[i]
      <4>1. Full \in Nat /\ t \in Nat BY <1>3, Prices
      <4>2. p + t <= Full + now - admitted'[i] BY <3>1, <3>3
      <4> QED BY <1>0, <3>2, <4>1, <4>2
    <3> QED BY <2>2, <3>2, <3>3, <3>4
  <2> QED BY <1>1, <1>2, <2>1, <2>2
<1> QED BY <1>0, <1>2, <1>4, <1>7, <1>8 DEF Limiter, Bucket

LEMMA LimiterStays ==
  ASSUME Limiter, Next
  PROVE  Limiter'
<1>1. CASE UNCHANGED <<now, bucket, admitted>>
  BY <1>1 DEF Limiter, Paid, LoginsAreBounded
<1>2. CASE allow /\ admitted' = Append(admitted, now) /\ now' = now
  BY <1>2, AllowIsPaid
<1>3. CASE Refuses
  <2>1. PICK t \in 0..Full : /\ bucket' = [tokens |-> t, last |-> now]
                             /\ t <= bucket.tokens + now - bucket.last
    BY <1>3, RefilledIs DEF Refuses
  <2>2. bucket # None /\ bucket.tokens \in Nat /\ bucket.last \in Nat /\ now \in Nat
    BY <1>3, RefilledIs, LimitsAssumption DEF Refuses, Limiter
  <2>3. bucket' \in Bucket /\ bucket' # None /\ bucket'.tokens = t /\ bucket'.last = now
    BY <2>1, NoneIsNoRow DEF Bucket, Full, Limiter
  <2>4. UNCHANGED <<now, admitted>>
    BY <1>3 DEF Refuses
  <2>5. Paid'
    <3> SUFFICES ASSUME NEW i \in DOMAIN admitted
                 PROVE  (Len(admitted) - i + 1) * Refill + t <= Full + now - admitted[i]
      BY <2>3, <2>4 DEF Paid, Full
    <3>0. admitted \in Seq(0..MaxTime)
      BY DEF Limiter
    <3>1. admitted[i] \in Nat /\ i \in Nat /\ Len(admitted) \in Nat
      BY <3>0, AdmittedAt
    <3>2. admitted[i] \in Int /\ Len(admitted) - i + 1 \in Int
      BY <3>1
    <3>3. PICK p \in Int : p = (Len(admitted) - i + 1) * Refill
      BY <3>2, Prices
    <3>4. p + bucket.tokens <= Full + bucket.last - admitted[i]
      BY <3>3 DEF Limiter, Paid
    <3>5. p + t <= Full + now - admitted[i]
      <4>1. Full \in Nat /\ t \in Nat /\ p \in Int /\ t <= bucket.tokens + now - bucket.last
        BY <2>1, <3>3, Prices
      <4>2. Full \in Int /\ t \in Int /\ bucket.tokens \in Int /\ bucket.last \in Int /\ now \in Int
        BY <2>2, <4>1
      <4> QED BY <3>2, <3>4, <4>1, <4>2, FlowsIn
    <3> QED BY <3>3, <3>5
  <2> QED BY <2>3, <2>4, <2>5 DEF Limiter, LoginsAreBounded
<1>4. CASE Run
  <2>1. now' = now /\ bucket' = None /\ admitted' = <<>>
    BY <1>4 DEF Run
  <2> QED BY <2>1 DEF Limiter, Paid, LoginsAreBounded
<1>5. CASE Tick
  <2>1. now' \in 0..MaxTime /\ now <= now' /\ UNCHANGED <<bucket, admitted>>
    BY <1>5, LimitsAssumption DEF Tick, Limiter
  <2>2. bucket # None => bucket.last \in Nat
    BY DEF Limiter, Bucket
  <2>3. now \in Nat
    BY DEF Limiter
  <2> QED BY <2>1, <2>2, <2>3 DEF Limiter, Paid, LoginsAreBounded
<1> QED BY <1>1, <1>2, <1>3, <1>4, <1>5
        DEF Next, AuthenticateUser, Login, IssueSession, requireRead, logout, requirePostWrite,
            Applies, recordAudit

-----------------------------------------------------------------------------
TypeInv == Shapes /\ Rows /\ Asked /\ MayRead /\ Limiter

LEMMA InitTypeInv == Init => TypeInv
<1> SUFFICES ASSUME Init PROVE TypeInv
  OBVIOUS
<1>1. Shapes
  BY InitIInv DEF IInv
<1>2. Asked
  BY UnusedShape DEF Init, Asked
<1>3. MayRead
  BY DEF Init, MayRead
<1>4. Limiter
  BY LimitsAssumption DEF Init, Limiter, Paid, LoginsAreBounded
<1>5. Rows
  <2>1. [perms |-> AllPermissions, status |-> "active"] \in RoleRow
    BY DEF RoleRow, Named, permissionCatalog
  <2>2. [role |-> SeedRole, status |-> "active"] \in UserRow
    BY PeopleAssumption DEF UserRow
  <2>3. [perms |-> AllPermissions, status |-> "active"] # None
    BY <2>1, NoneIsNoRow
  <2>4. roles \in [Role -> RoleRow \cup {None}] /\ roles[SeedRole] # None
    BY <2>1, <2>3, PeopleAssumption DEF Init
  <2>5. users \in [User -> UserRow \cup {None}]
    BY <2>2 DEF Init
  <2>6. \A u \in User : users[u] # None => users[u].role = SeedRole
    BY DEF Init
  <2> QED BY <2>4, <2>5, <2>6 DEF Rows
<1> QED BY <1>1, <1>2, <1>3, <1>4, <1>5 DEF TypeInv

LEMMA StepTypeInv == TypeInv /\ [Next]_vars => TypeInv'
<1>1. TypeInv /\ Next => TypeInv'
  BY ShapesStay, RowsStay, AskedStays, MayReadStays, LimiterStays DEF TypeInv
<1>2. TypeInv /\ UNCHANGED vars => TypeInv'
  BY DEF vars, TypeInv, Shapes, Rows, Asked, MayRead, Limiter, Paid, LoginsAreBounded
<1> QED BY <1>1, <1>2

LEMMA TypeInvariance == Spec => []TypeInv
BY InitTypeInv, StepTypeInv, PTL DEF Spec

(***************************************************************************)
(* Every variable keeps to its type.  That is more than it says: a user's  *)
(* role always exists, nobody has a session who may not read, a session    *)
(* was issued, and no bucket holds more than it can.                       *)
(***************************************************************************)
THEOREM TypeCorrect == Spec => []TypeOK
<1>1. TypeInv => TypeOK
  BY DEF TypeInv, Shapes, Rows, MayRead, Limiter, Handler, TypeOK
<1> QED BY TypeInvariance, <1>1, PTL

(***************************************************************************)
(* In any interval a client's logins are no more than a full bucket and    *)
(* what flowed in since allow, however attempts, refusals, restarts of the *)
(* server and the clock interleave, for any burst and rate.                *)
(***************************************************************************)
THEOREM LoginsAreBoundedAlways == Spec => []LoginsAreBounded
<1>1. TypeInv => LoginsAreBounded
  BY DEF TypeInv, Limiter
<1> QED BY TypeInvariance, <1>1, PTL
=============================================================================

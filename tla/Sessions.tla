------------------------------ MODULE Sessions ------------------------------
(***************************************************************************)
(* Who a request speaks for: AuthService, the refresh_tokens table, the    *)
(* JWT middleware, and the one privileged write of a role.                 *)
(*                                                                         *)
(* A login reads the user, signs an access token with the user's role,     *)
(* deletes the user's refresh tokens and stores a new one, in statements   *)
(* of their own.  A refresh looks its token up, reads the user, and signs  *)
(* a new access token.  A logout deletes the user's refresh tokens.  An    *)
(* access token is never looked up: until it expires it carries the role   *)
(* that was read when it was signed.                                       *)
(*                                                                         *)
(* A token is named by the request that issued it.  Time is left out: a    *)
(* token expires at some moment, once, a refresh token after the access    *)
(* token signed with it.                                                   *)
(***************************************************************************)
EXTENDS FiniteSets

CONSTANTS Requests,     \* identities of the HTTP requests
          Users,        \* the people who may be users
          InitialRole,  \* their role at the start, "none" if not registered
          Kinds,        \* the routes clients use
          Passwords,    \* the passwords they type, "right" or "wrong"
          Failures      \* which parts may fail

Roles == {"admin", "user"}

ASSUME InitialRoleAssumption == InitialRole \in [Users -> Roles \cup {"none"}]
ASSUME PasswordsAssumption == Passwords \subseteq {"right", "wrong"}
ASSUME FailuresAssumption == Failures \subseteq {"database", "crash"}

VARIABLES role,     \* role[u]: users.role, "none" if u has no row
          tokens,   \* the rows of refresh_tokens
          req,      \* req[r]: what request r asks for
          pc,       \* pc[r]: what it does next
          code,     \* code[r]: its HTTP status, 0 if none was sent
          jwt,      \* jwt[r]: the access token it signed; "none" for both before
          expired,  \* expired[kind]: the issuers of the tokens that have expired
          seen,     \* history: seen[r], the requests served before r came
          executed  \* history: the requests whose DELETE, or change of a role,
                    \* was executed

vars == <<role, tokens, req, pc, code, jwt, expired, seen, executed>>

NoReq == [kind |-> "none"]
LoginReq == [kind : {"login"}, user : Users, password : Passwords]
RegisterReq == [kind : {"register"}, user : Users]
RefreshReq == [kind : {"refresh"}, of : Requests]
LogoutReq == [kind : {"logout"}, by : Requests]
RoleReq == [kind : {"setRole"}, by : Requests, user : Users, role : Roles]

(* A user's row, or the claims of an access token.                         *)
Claims == [user : Users, role : Roles]
NoClaims == [user |-> "none", role |-> "none"]

TypeOK ==
    /\ role \in [Users -> Roles \cup {"none"}]
    /\ tokens \subseteq [of : Requests, user : Users]
    /\ req \in [Requests -> {NoReq} \cup LoginReq \cup RegisterReq \cup RefreshReq
                              \cup LogoutReq \cup RoleReq]
    /\ pc \in [Requests -> {"idle", "findUser", "sign", "sweep", "store", "insert",
                            "findToken", "readUser", "delete", "update", "reply",
                            "done"}]
    /\ code \in [Requests -> {0, 200, 201, 204, 401, 403, 404, 500}]
    /\ jwt \in [Requests -> Claims \cup {NoClaims}]
    /\ expired \in [{"access", "refresh"} -> SUBSET Requests]
    /\ seen \in [Requests -> SUBSET Requests]
    /\ executed \subseteq Requests

Init ==
    /\ role = InitialRole
    /\ tokens = {}
    /\ req = [r \in Requests |-> NoReq]
    /\ pc = [r \in Requests |-> "idle"]
    /\ code = [r \in Requests |-> 0]
    /\ jwt = [r \in Requests |-> NoClaims]
    /\ expired = [kind \in {"access", "refresh"} |-> {}]
    /\ seen = [r \in Requests |-> {}]
    /\ executed = {}

Active(r) == pc[r] \notin {"idle", "done"}
Goto(r, label) == pc' = [pc EXCEPT ![r] = label]
Answer(r, status) == Goto(r, "done") /\ code' = [code EXCEPT ![r] = status]

(* A request for something arrives.                                        *)
Arrives(r, what) ==
    /\ pc[r] = "idle"
    /\ what.kind \in Kinds
    /\ req' = [req EXCEPT ![r] = what]
    /\ seen' = [seen EXCEPT ![r] = {q \in Requests : pc[q] = "done"}]

(* A client has the tokens of the requests that were answered with them.   *)
HasAccess(j) == code[j] = 200 /\ jwt[j] # NoClaims
HasRefresh(q) == code[q] = 200 /\ req[q].kind = "login"

(* The status of the answer after the write of r.                          *)
Success(r) == CASE req[r].kind = "register"           -> 201
                [] req[r].kind \in {"login", "setRole"} -> 200
                [] req[r].kind = "logout"             -> 204

(* The write is committed, and the client is told.                         *)
Reply(r) ==
    /\ pc[r] = "reply"
    /\ Answer(r, Success(r))
    /\ UNCHANGED <<role, tokens, req, jwt, expired, seen, executed>>

(* The user whose tokens a login or a logout deletes.                      *)
UserOf(r) == IF req[r].kind = "login" THEN req[r].user ELSE jwt[req[r].by].user
-----------------------------------------------------------------------------
(* Register                                                                *)

RegisterStart(r, u) ==
    /\ Arrives(r, [kind |-> "register", user |-> u])
    /\ Goto(r, "insert")
    /\ UNCHANGED <<role, tokens, code, jwt, expired, executed>>

(* CreateUser: the role is the column's default.                           *)
CreateUser(r) ==
    /\ pc[r] = "insert"
    /\ role[req[r].user] = "none"
    /\ role' = [role EXCEPT ![req[r].user] = "user"]
    /\ Goto(r, "reply")
    /\ UNCHANGED <<tokens, req, code, jwt, expired, seen, executed>>

(* The email or the username is taken.                                     *)
AlreadyRegistered(r) ==
    /\ pc[r] = "insert"
    /\ role[req[r].user] # "none"
    /\ Answer(r, 500)
    /\ UNCHANGED <<role, tokens, req, jwt, expired, seen, executed>>
-----------------------------------------------------------------------------
(* AuthenticateUser                                                        *)

LoginStart(r, u, password) ==
    /\ Arrives(r, [kind |-> "login", user |-> u, password |-> password])
    /\ Goto(r, "findUser")
    /\ UNCHANGED <<role, tokens, code, jwt, expired, executed>>

(* Mutant: that no row has the email is not looked at.                     *)
PasswordOnly(r) == req[r].password = "right"

GoodCredentials(r) == role[req[r].user] # "none" /\ req[r].password = "right"

(* GetUserByEmail and CheckPasswordHash: the role goes into the claims.    *)
FindUser(r) ==
    /\ pc[r] = "findUser"
    /\ GoodCredentials(r)
    /\ jwt' = [jwt EXCEPT ![r] = [user |-> req[r].user, role |-> role[req[r].user]]]
    /\ Goto(r, "sweep")
    /\ UNCHANGED <<role, tokens, req, code, expired, seen, executed>>

BadCredentials(r) ==
    /\ pc[r] = "findUser"
    /\ ~GoodCredentials(r)
    /\ Answer(r, 401)
    /\ UNCHANGED <<role, tokens, req, jwt, expired, seen, executed>>

(* Mutant: one token of the user is deleted, not all.                      *)
DeleteOne(r, next) ==
    /\ \E row \in {t \in tokens : t.user = UserOf(r)} : tokens' = tokens \ {row}
    /\ executed' = executed \cup {r}
    /\ Goto(r, next)
    /\ UNCHANGED <<role, req, code, jwt, expired, seen>>

(* DELETE FROM refresh_tokens WHERE user_id = $1.                          *)
DeleteByUserID(r, next) ==
    /\ tokens' = {row \in tokens : row.user # UserOf(r)}
    /\ executed' = executed \cup {r}
    /\ Goto(r, next)
    /\ UNCHANGED <<role, req, code, jwt, expired, seen>>

(* The tokens of the user's earlier logins go.                             *)
Sweep(r) == pc[r] = "sweep" /\ DeleteByUserID(r, "store")

Row(r) == [of |-> r, user |-> req[r].user]

Store(r) ==
    /\ pc[r] = "store"
    /\ tokens' = tokens \cup {Row(r)}
    /\ Goto(r, "reply")
    /\ UNCHANGED <<role, req, code, jwt, expired, seen, executed>>
-----------------------------------------------------------------------------
(* RefreshAccessToken                                                      *)

RefreshStart(r, q) ==
    /\ HasRefresh(q)
    /\ Arrives(r, [kind |-> "refresh", of |-> q])
    /\ Goto(r, "findToken")
    /\ UNCHANGED <<role, tokens, code, jwt, expired, executed>>

Known(q) == \E row \in tokens : row.of = q

Valid(q) == Known(q) /\ q \notin expired["refresh"]

(* Mutant: the token is checked for its expiry only, not looked up.        *)
FindTokenUnknown(r) ==
    /\ pc[r] = "findToken"
    /\ req[r].of \notin expired["refresh"]
    /\ Goto(r, "readUser")
    /\ UNCHANGED <<role, tokens, req, code, jwt, expired, seen, executed>>

FindToken(r) ==
    /\ pc[r] = "findToken"
    /\ Valid(req[r].of)
    /\ Goto(r, "readUser")
    /\ UNCHANGED <<role, tokens, req, code, jwt, expired, seen, executed>>

RefreshRefused(r) ==
    /\ pc[r] = "findToken"
    /\ ~Valid(req[r].of)
    /\ Answer(r, 401)
    /\ UNCHANGED <<role, tokens, req, jwt, expired, seen, executed>>

(* Mutant: the new token repeats the claims of the login.                  *)
CopyClaims(r) ==
    /\ pc[r] = "readUser"
    /\ jwt' = [jwt EXCEPT ![r] = jwt[req[r].of]]
    /\ Goto(r, "sign")
    /\ UNCHANGED <<role, tokens, req, code, expired, seen, executed>>

(* GetUserByID: the role is read again.                                    *)
ReadUser(r) ==
    LET u == req[req[r].of].user IN
    /\ pc[r] = "readUser"
    /\ jwt' = [jwt EXCEPT ![r] = [user |-> u, role |-> role[u]]]
    /\ Goto(r, "sign")
    /\ UNCHANGED <<role, tokens, req, code, expired, seen, executed>>

Sign(r) ==
    /\ pc[r] = "sign"
    /\ Answer(r, 200)
    /\ UNCHANGED <<role, tokens, req, jwt, expired, seen, executed>>
-----------------------------------------------------------------------------
(* The routes behind AuthMiddleware                                        *)

(* The middleware checks the signature and the expiry, and trusts the rest.*)
Live(j) == j \notin expired["access"]

LogoutStart(r, j) ==
    /\ HasAccess(j)
    /\ Arrives(r, [kind |-> "logout", by |-> j])
    /\ IF Live(j) THEN Goto(r, "delete") /\ UNCHANGED code ELSE Answer(r, 401)
    /\ UNCHANGED <<role, tokens, jwt, expired, executed>>

(* LogoutUser.                                                             *)
Delete(r) == pc[r] = "delete" /\ DeleteByUserID(r, "reply")

(* Mutant: the route lacks AdminMiddleware.                                *)
RoleStartByAnyone(r, j, u, new) ==
    /\ HasAccess(j)
    /\ Arrives(r, [kind |-> "setRole", by |-> j, user |-> u, role |-> new])
    /\ IF Live(j) THEN Goto(r, "update") /\ UNCHANGED code ELSE Answer(r, 401)
    /\ UNCHANGED <<role, tokens, jwt, expired, executed>>

(* AdminMiddleware believes the role in the claims.                        *)
RoleStart(r, j, u, new) ==
    /\ HasAccess(j)
    /\ Arrives(r, [kind |-> "setRole", by |-> j, user |-> u, role |-> new])
    /\ \/ Live(j) /\ jwt[j].role = "admin" /\ Goto(r, "update") /\ UNCHANGED code
       \/ Live(j) /\ jwt[j].role # "admin" /\ Answer(r, 403)
       \/ ~Live(j) /\ Answer(r, 401)
    /\ UNCHANGED <<role, tokens, jwt, expired, executed>>

UpdateUserRole(r) ==
    /\ pc[r] = "update"
    /\ role[req[r].user] # "none"
    /\ role' = [role EXCEPT ![req[r].user] = req[r].role]
    /\ executed' = executed \cup {r}
    /\ Goto(r, "reply")
    /\ UNCHANGED <<tokens, req, code, jwt, expired, seen>>

(* No row has the id.                                                      *)
UserNotFound(r) ==
    /\ pc[r] = "update"
    /\ role[req[r].user] = "none"
    /\ Answer(r, 404)
    /\ UNCHANGED <<role, tokens, req, jwt, expired, seen, executed>>
-----------------------------------------------------------------------------
(* Time                                                                    *)

(* Fifteen minutes, or seven days, have passed since r signed its token.   *)
Expire(r) ==
    /\ jwt[r] # NoClaims
    /\ \/ /\ r \notin expired["access"]
          /\ expired' = [expired EXCEPT !["access"] = @ \cup {r}]
       \/ /\ r \in expired["access"]
          /\ req[r].kind = "login" /\ r \notin expired["refresh"]
          /\ expired' = [expired EXCEPT !["refresh"] = @ \cup {r}]
    /\ UNCHANGED <<role, tokens, req, pc, code, jwt, seen, executed>>
-----------------------------------------------------------------------------
(* Failures                                                                *)

(* A statement fails.  Login and refresh answer 401, whatever the error;   *)
(* a login only warns of a failed DELETE, and goes on.                     *)
StatementFails(r) ==
    /\ "database" \in Failures
    /\ \/ pc[r] \in {"findUser", "store", "findToken", "readUser"} /\ Answer(r, 401)
       \/ pc[r] \in {"insert", "delete", "update"} /\ Answer(r, 500)
       \/ pc[r] = "sweep" /\ Goto(r, "store") /\ UNCHANGED code
    /\ UNCHANGED <<role, tokens, req, jwt, expired, seen, executed>>

(* A write is committed and its answer lost.                               *)
WriteAnswerLost(r) ==
    /\ "database" \in Failures
    /\ \/ /\ pc[r] = "store"
          /\ tokens' = tokens \cup {Row(r)}
          /\ Answer(r, 401)
          /\ UNCHANGED <<role, executed>>
       \/ /\ pc[r] = "sweep"
          /\ tokens' = {row \in tokens : row.user # UserOf(r)}
          /\ executed' = executed \cup {r}
          /\ Goto(r, "store")
          /\ UNCHANGED <<role, code>>
       \/ /\ pc[r] = "delete"
          /\ tokens' = {row \in tokens : row.user # UserOf(r)}
          /\ executed' = executed \cup {r}
          /\ Answer(r, 500)
          /\ UNCHANGED role
       \/ /\ pc[r] = "insert" /\ role[req[r].user] = "none"
          /\ role' = [role EXCEPT ![req[r].user] = "user"]
          /\ Answer(r, 500)
          /\ UNCHANGED <<tokens, executed>>
       \/ /\ pc[r] = "update" /\ role[req[r].user] # "none"
          /\ role' = [role EXCEPT ![req[r].user] = req[r].role]
          /\ executed' = executed \cup {r}
          /\ Answer(r, 500)
          /\ UNCHANGED tokens
    /\ UNCHANGED <<req, jwt, expired, seen>>

Crash ==
    /\ "crash" \in Failures
    /\ \E r \in Requests : Active(r)
    /\ pc' = [r \in Requests |-> IF Active(r) THEN "done" ELSE pc[r]]
    /\ UNCHANGED <<role, tokens, req, code, jwt, expired, seen, executed>>
-----------------------------------------------------------------------------
(* Clients send what they like with the tokens they have.                  *)
Start(r) ==
    \/ \E u \in Users :
           \/ RegisterStart(r, u)
           \/ \E password \in Passwords : LoginStart(r, u, password)
    \/ \E q \in Requests :
           \/ RefreshStart(r, q)
           \/ LogoutStart(r, q)
           \/ \E u \in Users, new \in Roles : RoleStart(r, q, u, new)

Handle(r) ==
    \/ CreateUser(r) \/ AlreadyRegistered(r)
    \/ FindUser(r) \/ BadCredentials(r) \/ Sweep(r) \/ Store(r)
    \/ FindToken(r) \/ RefreshRefused(r) \/ ReadUser(r) \/ Sign(r)
    \/ Delete(r)
    \/ UpdateUserRole(r) \/ UserNotFound(r)
    \/ Reply(r)

Fault(r) == StatementFails(r) \/ WriteAnswerLost(r)

(* Every request has been served; the server waits for the next one.       *)
Idle ==
    /\ \A r \in Requests : pc[r] = "done"
    /\ UNCHANGED vars

Next ==
    \/ \E r \in Requests : Start(r) \/ Handle(r) \/ Fault(r) \/ Expire(r)
    \/ Crash
    \/ Idle

Spec == Init /\ [][Next]_vars
-----------------------------------------------------------------------------
(* Properties                                                              *)

Ended(q, by) ==
    /\ by \in executed /\ req[by].kind \in {"login", "logout"}
    /\ q \in seen[by]
    /\ req[q].kind = "login" /\ req[q].user = UserOf(by)

(* A login or logout whose DELETE was executed ends the user's sessions of *)
(* before: their refresh tokens are not in the table again, whatever other *)
(* logins, refreshes and crashes are going on (token_repository.go:65,     *)
(* "logging out from all sessions").                                       *)
SessionsStayEnded ==
    \A q, by \in Requests : Ended(q, by) => ~Known(q)

(* A client sees it too: no refresh that came after the logout succeeds    *)
(* with a token of before it (router_test.go:375).                         *)
RefreshRespectsLogout ==
    \A r, by \in Requests :
        /\ req[r].kind = "refresh" /\ code[r] = 200
        /\ by \in seen[r]
        => ~Ended(req[r].of, by)

(* d gave u a role, whether or not its client was told.                    *)
Changes(d, u, new) ==
    /\ d \in executed
    /\ req[d].kind = "setRole" /\ req[d].user = u /\ req[d].role = new

(* Demoting an admin is final: an access token asked for after it has the  *)
(* admin role only if a promotion was under way or came later.             *)
DemotionIsSeen ==
    \A j, d \in Requests :
        /\ jwt[j].role = "admin" /\ d \in seen[j]
        /\ Changes(d, jwt[j].user, "user")
        => \E p \in Requests \ seen[d] :
               /\ req[p].kind = "setRole" /\ req[p].user = jwt[j].user
               /\ req[p].role = "admin"

(* u has the admin role, or a token that still says so.                    *)
HasPower(u) ==
    \/ role[u] = "admin"
    \/ \E j \in Requests : jwt[j] = [user |-> u, role |-> "admin"]

(* p made u an admin, by the power of a token signed before p came.        *)
Grants(p, u) ==
    /\ Changes(p, u, "admin")
    /\ req[p].by \in seen[p] /\ jwt[req[p].by].role = "admin"

(* Power comes from power: whoever was no admin at the start was made one  *)
(* by a request that carried an admin's token; no registration, login,     *)
(* refresh or race of them makes an admin (router.go:32, the only route    *)
(* that writes a role, behind both middlewares).                           *)
PowerHasASource ==
    \A u \in Users : HasPower(u) /\ InitialRole[u] # "admin" =>
        \E p \in Requests : Grants(p, u)

(* No user is an admin, no access token that says so has still to expire,  *)
(* issued or about to be, and no promotion is past the middlewares.        *)
Powerless ==
    /\ \A u \in Users : role[u] # "admin"
    /\ \A j \in Requests : jwt[j].role = "admin" => ~Live(j)
    /\ \A p \in Requests : pc[p] = "update" => req[p].role # "admin"

(* Power that has run out is gone: when the last admin was demoted and the *)
(* tokens of before have expired, none of the refresh tokens that are left *)
(* of his sessions, no registration and no request still under way brings  *)
(* it back (auth_service.go:154 reads the role again for each token).      *)
PowerDiesOut == [][Powerless => Powerless']_vars

(* u has no refresh token, no access token that has still to expire, and   *)
(* nothing under way that could end in one.                                *)
SignedOut(u) ==
    /\ \A row \in tokens : row.user # u
    /\ \A j \in Requests : jwt[j].user = u => ~Live(j) /\ pc[j] = "done"
    /\ \A r \in Requests :
           /\ req[r].kind = "login" /\ req[r].user = u => pc[r] = "done"
           /\ req[r].kind = "refresh" /\ req[req[r].of].user = u =>
                  pc[r] \in {"findToken", "done"}

(* A user who is signed out is so until he logs in.  The access token that *)
(* a refresh signs when a logout overtakes it, between its lookup of the   *)
(* refresh token and its answer, is the last one of the session.           *)
SignedOutStays ==
    [][\A u \in Users : SignedOut(u) =>
          \/ SignedOut(u)'
          \/ \E r \in Requests :
                 pc[r] = "idle" /\ pc'[r] = "findUser" /\ req'[r].user = u]_vars

(* The inductive invariant.                                                *)

(* What the point a request has reached says of it.                        *)
Control(r) ==
    /\ pc[r] = "idle" => req[r] = NoReq /\ jwt[r] = NoClaims
    /\ pc[r] \in {"findUser", "sweep", "store"} => req[r].kind = "login"
    /\ pc[r] \in {"findToken", "readUser", "sign"} =>
           req[r].kind = "refresh" /\ HasRefresh(req[r].of)
    /\ pc[r] = "delete" => req[r].kind = "logout" /\ HasAccess(req[r].by)
    /\ pc[r] = "insert" => req[r].kind = "register"
    /\ pc[r] = "update" => req[r].kind = "setRole"
    /\ pc[r] = "reply" => req[r].kind \in {"register", "login", "logout", "setRole"}
    /\ code[r] # 0 => pc[r] = "done"
    /\ r \in executed =>
           \/ req[r].kind = "login" /\ pc[r] \in {"store", "reply", "done"}
           \/ /\ req[r].kind = "logout" /\ pc[r] \in {"reply", "done"}
              /\ HasAccess(req[r].by)
           \/ req[r].kind = "setRole" /\ pc[r] \in {"reply", "done"}
    /\ \A q \in seen[r] : pc[q] = "done"

ControlInv == \A r \in Requests : Control(r)

(* An access token is that of a user who is in the table.                  *)
ClaimsInv ==
    \A r \in Requests :
        /\ jwt[r] # NoClaims => role[jwt[r].user] # "none"
        /\ /\ req[r].kind = "login"
           /\ pc[r] \in {"sweep", "store", "reply"} \/ code[r] = 200
           => jwt[r] # NoClaims /\ jwt[r].user = req[r].user

(* A refresh token is that of a login that has stored it.                  *)
TokensInv ==
    \A row \in tokens :
        /\ pc[row.of] \in {"reply", "done"}
        /\ req[row.of].kind = "login" /\ req[row.of].user = row.user

(* A refresh whose token was found.                                        *)
Passed(r) ==
    req[r].kind = "refresh" /\ (pc[r] \in {"readUser", "sign"} \/ code[r] = 200)

PassedInv ==
    \A r, by \in Requests :
        Passed(r) /\ by \in seen[r] => ~Ended(req[r].of, by)

(* A promotion of u that was not over when d came.                         *)
Promoted(u, d) ==
    \E p \in Requests \ seen[d] :
        req[p].kind = "setRole" /\ req[p].user = u /\ req[p].role = "admin"

RoleInv ==
    \A d \in Requests, u \in Users :
        Changes(d, u, "user") /\ role[u] = "admin" => Promoted(u, d)

(* A change of role under way was let through by an admin's token.         *)
SourceInv ==
    \A p \in Requests : pc[p] = "update" =>
        req[p].by \in seen[p] /\ jwt[req[p].by].role = "admin"

IInv ==
    /\ TypeOK
    /\ ControlInv
    /\ ClaimsInv
    /\ TokensInv
    /\ SessionsStayEnded
    /\ PassedInv
    /\ RoleInv
    /\ DemotionIsSeen
    /\ SourceInv
    /\ PowerHasASource
=============================================================================

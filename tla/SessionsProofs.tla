--------------------------- MODULE SessionsProofs ---------------------------
(***************************************************************************)
(* Proofs about Sessions, for any number of requests and users, any roles  *)
(* at the start and any set of failures.                                   *)
(*                                                                         *)
(* The argument is about what a step may do to a request that is over:     *)
(* nothing (Frozen).  A token is stored, a user's tokens deleted, a token  *)
(* found, a role read or written only by a request under way, which no     *)
(* request has seen end.                                                   *)
(***************************************************************************)
EXTENDS Sessions, TLAPS

AllReqs == {NoReq} \cup LoginReq \cup RegisterReq \cup RefreshReq
             \cup LogoutReq \cup RoleReq

(* What a request names, by its kind.                                      *)
LEMMA ReqFields ==
    ASSUME NEW what \in AllReqs
    PROVE  /\ what.kind \in {"none", "login", "register", "refresh", "logout", "setRole"}
           /\ what.kind \in {"login", "register", "setRole"} => what.user \in Users
           /\ what.kind = "refresh" => what.of \in Requests
           /\ what.kind \in {"logout", "setRole"} => what.by \in Requests
           /\ what.kind = "setRole" => what.role \in Roles
           /\ what.kind = "none" => what = NoReq
BY DEF AllReqs, NoReq, LoginReq, RegisterReq, RefreshReq, LogoutReq, RoleReq

LEMMA ClaimsFields ==
    ASSUME NEW claims \in Claims \cup {NoClaims}
    PROVE  /\ claims.role = "none" <=> claims = NoClaims
           /\ claims # NoClaims => claims.user \in Users /\ claims.role \in Roles
BY DEF Claims, NoClaims, Roles

(* What holds of every state, safety of the sessions left aside.           *)
BaseInv == TypeOK /\ ControlInv /\ ClaimsInv /\ TokensInv

(* The kind of a request, from what it does next.                          *)
LEMMA KindOf ==
    ASSUME BaseInv, NEW r \in Requests
    PROVE  /\ req[r] \in AllReqs
           /\ pc[r] = "insert" => req[r].kind = "register" /\ req[r].user \in Users
           /\ pc[r] \in {"findUser", "sweep", "store"} =>
                  req[r].kind = "login" /\ req[r].user \in Users
           /\ pc[r] = "update" =>
                  /\ req[r].kind = "setRole" /\ req[r].user \in Users
                  /\ req[r].role \in Roles
           /\ pc[r] = "delete" =>
                  /\ req[r].kind = "logout" /\ req[r].by \in Requests
                  /\ HasAccess(req[r].by)
           /\ r \in executed =>
                  /\ req[r].kind \in {"login", "logout", "setRole"}
                  /\ req[r].kind = "logout" =>
                         req[r].by \in Requests /\ HasAccess(req[r].by)
           /\ pc[r] \in {"readUser", "findToken", "sign"} =>
                  /\ req[r].kind = "refresh" /\ req[r].of \in Requests
                  /\ HasRefresh(req[r].of)
<1>1. req[r] \in AllReqs
    BY DEF BaseInv, TypeOK, AllReqs
<1> QED  BY <1>1, ReqFields DEF BaseInv, ControlInv, Control
-----------------------------------------------------------------------------
(* What one step does                                                      *)

(* A request that has come keeps what it asked for and what it saw; one    *)
(* that is over keeps everything.                                          *)
Frozen ==
    \A q \in Requests :
        /\ pc[q] # "idle" =>
               pc'[q] # "idle" /\ req'[q] = req[q] /\ seen'[q] = seen[q]
        /\ pc[q] = "done" =>
               pc'[q] = "done" /\ code'[q] = code[q] /\ jwt'[q] = jwt[q]

(* What has expired has.                                                   *)
ExpiredGrows == expired["access"] \subseteq expired'["access"]

(* A login and a refresh start at their first statement.                   *)
Arrivals ==
    \A r \in Requests : pc[r] = "idle" /\ pc'[r] # "idle" =>
        /\ req'[r].kind = "login" => pc'[r] = "findUser"
        /\ req'[r].kind = "refresh" => pc'[r] = "findToken"

(* A token is stored by a login that has nothing left but its answer.      *)
TokensGrow ==
    \A row \in tokens' \ tokens :
        \E r \in Requests :
            pc[r] = "store" /\ pc'[r] \in {"reply", "done"} /\ row = Row(r)

(* A DELETE executed leaves no token of its user; a change of role         *)
(* executed is in the table.                                               *)
ExecutedGrows ==
    \A by \in executed' \ executed :
        \/ /\ pc[by] \in {"sweep", "delete"}
           /\ tokens' = {row \in tokens : row.user # UserOf(by)}
        \/ pc[by] = "update" /\ role'[req[by].user] = req[by].role

(* A refresh goes on only with a token it found.                           *)
PassedGrows ==
    \A r \in Requests : Passed(r)' =>
        /\ pc[r] # "idle"
        /\ Passed(r) \/ (pc[r] = "findToken" /\ Known(req[r].of))

(* Nobody is unregistered; only a promotion makes an admin.                *)
RolesChange ==
    /\ \A u \in Users : role[u] # "none" => role'[u] # "none"
    /\ \A u \in Users : role'[u] = "admin" =>
           \/ role[u] = "admin"
           \/ \E p \in Requests :
                  /\ pc[p] = "update" /\ req[p].kind = "setRole"
                  /\ req[p].user = u /\ req[p].role = "admin"
                  /\ p \in executed'
    /\ executed \subseteq executed'

(* A change of role goes ahead only when an admin's token asked for it.    *)
UpdatesAsked ==
    \A p \in Requests : pc'[p] = "update" =>
        \/ pc[p] = "update"
        \/ /\ pc[p] = "idle"
           /\ req'[p].by \in Requests /\ HasAccess(req'[p].by)
           /\ jwt[req'[p].by].role = "admin" /\ Live(req'[p].by)
           /\ seen'[p] = {q \in Requests : pc[q] = "done"}

(* The claims signed are those of a row just read.                         *)
ClaimsChange ==
    \A j \in Requests : jwt'[j] # jwt[j] =>
        /\ \/ pc[j] = "findUser" /\ jwt'[j].user = req[j].user
           \/ pc[j] = "readUser" /\ jwt'[j].user = req[req[j].of].user
        /\ jwt'[j].user \in Users
        /\ jwt'[j].role = role[jwt'[j].user]

Effects ==
    /\ Frozen
    /\ ExpiredGrows
    /\ Arrivals
    /\ TokensGrow
    /\ ExecutedGrows
    /\ PassedGrows
    /\ RolesChange
    /\ ClaimsChange
    /\ UpdatesAsked

(* An arrival: what a request is, and where it goes.                       *)
Arrival(r, what, label, status) ==
    /\ pc[r] = "idle"
    /\ req' = [req EXCEPT ![r] = what]
    /\ seen' = [seen EXCEPT ![r] = {q \in Requests : pc[q] = "done"}]
    /\ pc' = [pc EXCEPT ![r] = label]
    /\ code' = [code EXCEPT ![r] = status]
    /\ UNCHANGED <<role, tokens, jwt, expired, executed>>
    /\ \/ what \in LoginReq /\ label = "findUser" /\ status = 0
       \/ what \in RegisterReq /\ label = "insert" /\ status = 0
       \/ what \in RefreshReq /\ HasRefresh(what.of) /\ label = "findToken" /\ status = 0
       \/ what \in LogoutReq /\ HasAccess(what.by) /\ label = "delete" /\ status = 0
       \/ /\ what \in RoleReq /\ label = "update" /\ status = 0
          /\ what.by \in Requests /\ HasAccess(what.by)
          /\ jwt[what.by].role = "admin" /\ Live(what.by)
       \/ what \in LogoutReq \cup RoleReq /\ label = "done" /\ status \in {401, 403}

LEMMA StartIsArrival ==
    ASSUME BaseInv, NEW r \in Requests, Start(r)
    PROVE  \E what \in AllReqs : \E label, status : Arrival(r, what, label, status)
<1> USE DEF Arrives, Goto, Answer
<1>0. pc[r] = "idle" /\ code' = code => code' = [code EXCEPT ![r] = 0]
    BY DEF BaseInv, TypeOK, ControlInv, Control
<1>1. ASSUME NEW u \in Users, RegisterStart(r, u)
      PROVE  Arrival(r, [kind |-> "register", user |-> u], "insert", 0)
    BY <1>0, <1>1 DEF RegisterStart, Arrival, RegisterReq
<1>2. ASSUME NEW u \in Users, NEW password \in Passwords, LoginStart(r, u, password)
      PROVE  Arrival(r, [kind |-> "login", user |-> u, password |-> password],
                     "findUser", 0)
    BY <1>0, <1>2 DEF LoginStart, Arrival, LoginReq
<1>3. ASSUME NEW q \in Requests, RefreshStart(r, q)
      PROVE  Arrival(r, [kind |-> "refresh", of |-> q], "findToken", 0)
    BY <1>0, <1>3 DEF RefreshStart, Arrival, RefreshReq
<1>4. ASSUME NEW q \in Requests, LogoutStart(r, q)
      PROVE  \E label, status : Arrival(r, [kind |-> "logout", by |-> q], label, status)
    <2>1. CASE Live(q)
        <3>1. Arrival(r, [kind |-> "logout", by |-> q], "delete", 0)
            BY <1>0, <1>4, <2>1 DEF LogoutStart, Arrival, LogoutReq
        <3> QED  BY <3>1
    <2>2. CASE ~Live(q)
        <3>1. Arrival(r, [kind |-> "logout", by |-> q], "done", 401)
            BY <1>4, <2>2 DEF LogoutStart, Arrival, LogoutReq
        <3> QED  BY <3>1
    <2> QED  BY <2>1, <2>2
<1>5. ASSUME NEW q \in Requests, NEW u \in Users, NEW new \in Roles,
             RoleStart(r, q, u, new)
      PROVE  \E label, status :
                 Arrival(r, [kind |-> "setRole", by |-> q, user |-> u, role |-> new],
                         label, status)
    <2> DEFINE what == [kind |-> "setRole", by |-> q, user |-> u, role |-> new]
    <2>0. what \in RoleReq  BY DEF RoleReq
    <2>1. \/ Arrival(r, what, "update", 0)
          \/ Arrival(r, what, "done", 401)
          \/ Arrival(r, what, "done", 403)
        BY <1>0, <1>5, <2>0 DEF RoleStart, Arrival
    <2> QED  BY <2>1
<1>6. /\ \A u \in Users : [kind |-> "register", user |-> u] \in AllReqs
      /\ \A u \in Users, password \in Passwords :
             [kind |-> "login", user |-> u, password |-> password] \in AllReqs
      /\ \A q \in Requests : [kind |-> "refresh", of |-> q] \in AllReqs
      /\ \A q \in Requests : [kind |-> "logout", by |-> q] \in AllReqs
      /\ \A q \in Requests, u \in Users, new \in Roles :
             [kind |-> "setRole", by |-> q, user |-> u, role |-> new] \in AllReqs
    BY DEF AllReqs, LoginReq, RegisterReq, RefreshReq, LogoutReq, RoleReq
<1> DEFINE Goal == \E what \in AllReqs : \E label, status : Arrival(r, what, label, status)
<1>7. ASSUME NEW u \in Users, RegisterStart(r, u)  PROVE Goal
    BY <1>1, <1>6, <1>7
<1>8. ASSUME NEW u \in Users, NEW password \in Passwords, LoginStart(r, u, password)
      PROVE  Goal
    BY <1>2, <1>6, <1>8
<1>9. ASSUME NEW q \in Requests, RefreshStart(r, q)  PROVE Goal
    BY <1>3, <1>6, <1>9
<1>10. ASSUME NEW q \in Requests, LogoutStart(r, q)  PROVE Goal
    BY <1>4, <1>6, <1>10
<1>11. ASSUME NEW q \in Requests, NEW u \in Users, NEW new \in Roles,
              RoleStart(r, q, u, new)
       PROVE  Goal
    BY <1>5, <1>6, <1>11
<1> QED  BY <1>7, <1>8, <1>9, <1>10, <1>11 DEF Start

LEMMA ArrivalEffects ==
    ASSUME BaseInv, NEW r \in Requests, NEW what \in AllReqs, NEW label, NEW status,
           Arrival(r, what, label, status)
    PROVE  Effects
<1> USE DEF BaseInv, TypeOK, Arrival
<1>1. Frozen /\ ExpiredGrows
    BY DEF Frozen, ExpiredGrows
<1>6. Arrivals
    BY DEF Arrivals, LoginReq, RegisterReq, RefreshReq, LogoutReq, RoleReq
<1>2. TokensGrow /\ ExecutedGrows /\ ClaimsChange /\ UpdatesAsked
    BY DEF TokensGrow, ExecutedGrows, ClaimsChange, UpdatesAsked
<1>3. label \notin {"readUser", "sign"} /\ status # 200
    OBVIOUS
<1>4. PassedGrows
    <2>1. ASSUME NEW q \in Requests, Passed(q)'
          PROVE  q # r /\ Passed(q)
        BY <1>3, <2>1 DEF Passed, ControlInv, Control
    <2>2. ASSUME NEW q \in Requests, Passed(q)
          PROVE  pc[q] # "idle"
        BY <2>2 DEF Passed, ControlInv, Control, NoReq
    <2> QED  BY <2>1, <2>2 DEF PassedGrows
<1>5. RolesChange
    BY <1>3 DEF RolesChange
<1> QED  BY <1>1, <1>2, <1>4, <1>5, <1>6 DEF Effects

(* Steps that only end a request, or move it on.                           *)
Moves(r, label, status) ==
    /\ pc' = [pc EXCEPT ![r] = label]
    /\ code' = [code EXCEPT ![r] = status]
    /\ UNCHANGED <<role, tokens, req, jwt, expired, seen, executed>>
    /\ \/ label = "done" /\ status \in {401, 404, 500} /\ pc[r] \notin {"idle", "done"}
       \/ label = "done" /\ status = 200 /\ pc[r] = "sign"
       \/ label = "done" /\ pc[r] = "reply" /\ status \in {200, 201, 204}
       \/ /\ label = "readUser" /\ status = 0 /\ pc[r] = "findToken"
          /\ Known(req[r].of)
       \/ label = "store" /\ status = 0 /\ pc[r] = "sweep"

Controls(r) ==
    \/ AlreadyRegistered(r) \/ BadCredentials(r) \/ FindToken(r) \/ RefreshRefused(r)
    \/ Sign(r) \/ UserNotFound(r) \/ Reply(r) \/ StatementFails(r)

LEMMA ControlsMove ==
    ASSUME BaseInv, NEW r \in Requests, Controls(r)
    PROVE  \E label, status : Moves(r, label, status)
<1> USE DEF Goto, Answer
<1>0. pc[r] # "done" => code[r] = 0
    BY DEF BaseInv, ControlInv, Control
<1>00. code' = code /\ pc[r] # "done" => code' = [code EXCEPT ![r] = 0]
    BY <1>0 DEF BaseInv, TypeOK
<1>1. CASE AlreadyRegistered(r)
    <2>1. Moves(r, "done", 500)  BY <1>1 DEF AlreadyRegistered, Moves
    <2> QED  BY <2>1
<1>2. CASE BadCredentials(r) \/ RefreshRefused(r)
    <2>1. Moves(r, "done", 401)  BY <1>2 DEF BadCredentials, RefreshRefused, Moves
    <2> QED  BY <2>1
<1>3. CASE FindToken(r)
    <2>1. Moves(r, "readUser", 0)  BY <1>3, <1>00 DEF FindToken, Valid, Moves
    <2> QED  BY <2>1
<1>4. CASE Sign(r)
    <2>1. Moves(r, "done", 200)  BY <1>4 DEF Sign, Moves
    <2> QED  BY <2>1
<1>5. CASE UserNotFound(r)
    <2>1. Moves(r, "done", 404)  BY <1>5 DEF UserNotFound, Moves
    <2> QED  BY <2>1
<1>6. CASE StatementFails(r)
    <2>1. \/ Moves(r, "done", 401) \/ Moves(r, "done", 500) \/ Moves(r, "store", 0)
        BY <1>6, <1>00 DEF StatementFails, Moves
    <2> QED  BY <2>1
<1>7. CASE Reply(r)
    <2>1. req[r].kind \in {"register", "login", "logout", "setRole"}
        BY <1>7 DEF Reply, BaseInv, ControlInv, Control
    <2>2. Success(r) \in {200, 201, 204}
        BY <2>1 DEF Success
    <2>3. Moves(r, "done", Success(r))  BY <1>7, <2>2 DEF Reply, Moves
    <2> QED  BY <2>3
<1> QED  BY <1>1, <1>2, <1>3, <1>4, <1>5, <1>6, <1>7 DEF Controls

LEMMA MovesEffects ==
    ASSUME BaseInv, NEW r \in Requests, NEW label, NEW status, Moves(r, label, status)
    PROVE  Effects
<1> USE DEF BaseInv, TypeOK, Moves
<1>1. Frozen /\ ExpiredGrows /\ Arrivals
    BY DEF Frozen, ExpiredGrows, Arrivals
<1>2. TokensGrow /\ ExecutedGrows /\ ClaimsChange /\ UpdatesAsked
    BY DEF TokensGrow, ExecutedGrows, ClaimsChange, UpdatesAsked
<1>3. PassedGrows
    <2>1. ASSUME NEW q \in Requests, Passed(q)'
          PROVE  Passed(q) \/ (pc[q] = "findToken" /\ Known(req[q].of))
        BY <2>1 DEF Passed, ControlInv, Control
    <2>2. ASSUME NEW q \in Requests, Passed(q)
          PROVE  pc[q] # "idle"
        BY <2>2 DEF Passed, ControlInv, Control, NoReq
    <2> QED  BY <2>1, <2>2 DEF PassedGrows
<1>4. RolesChange
    BY DEF RolesChange, ControlInv, Control
<1> QED  BY <1>1, <1>2, <1>3, <1>4 DEF Effects

(* The DELETE of a login or a logout.                                      *)
Deletes(r) ==
    /\ tokens' = {row \in tokens : row.user # UserOf(r)}
    /\ executed' = executed \cup {r}
    /\ \/ pc[r] = "sweep" /\ pc' = [pc EXCEPT ![r] = "store"] /\ code' = code
       \/ pc[r] = "delete" /\ pc' = [pc EXCEPT ![r] = "reply"] /\ code' = code
       \/ /\ pc[r] = "delete" /\ pc' = [pc EXCEPT ![r] = "done"]
          /\ code' = [code EXCEPT ![r] = 500]
    /\ UNCHANGED <<role, req, jwt, expired, seen>>

LEMMA DeletesEffects ==
    ASSUME BaseInv, NEW r \in Requests, Deletes(r)
    PROVE  Effects
<1> USE DEF BaseInv, TypeOK, Deletes
<1>1. Frozen /\ ExpiredGrows /\ Arrivals
    BY DEF Frozen, ExpiredGrows, Arrivals
<1>2. TokensGrow /\ ExecutedGrows /\ ClaimsChange /\ UpdatesAsked
    BY DEF TokensGrow, ExecutedGrows, ClaimsChange, UpdatesAsked
<1>3. PassedGrows
    BY DEF PassedGrows, Passed, ControlInv, Control, NoReq
<1>4. RolesChange
    BY DEF RolesChange, ControlInv, Control
<1> QED  BY <1>1, <1>2, <1>3, <1>4 DEF Effects

(* The INSERT of a login.                                                  *)
Stores(r) ==
    /\ pc[r] = "store"
    /\ tokens' = tokens \cup {Row(r)}
    /\ \/ pc' = [pc EXCEPT ![r] = "reply"] /\ code' = code
       \/ pc' = [pc EXCEPT ![r] = "done"] /\ code' = [code EXCEPT ![r] = 401]
    /\ UNCHANGED <<role, req, jwt, expired, seen, executed>>

LEMMA StoresEffects ==
    ASSUME BaseInv, NEW r \in Requests, Stores(r)
    PROVE  Effects
<1> USE DEF BaseInv, TypeOK, Stores
<1>1. Frozen /\ ExpiredGrows /\ Arrivals
    BY DEF Frozen, ExpiredGrows, Arrivals
<1>2. TokensGrow /\ ExecutedGrows /\ ClaimsChange /\ UpdatesAsked
    BY DEF TokensGrow, ExecutedGrows, ClaimsChange, UpdatesAsked
<1>3. PassedGrows
    BY DEF PassedGrows, Passed, ControlInv, Control, NoReq
<1>4. RolesChange
    BY DEF RolesChange, ControlInv, Control
<1> QED  BY <1>1, <1>2, <1>3, <1>4 DEF Effects

(* The claims of an access token are signed.                               *)
Signs(r) ==
    \E u \in Users :
        /\ \/ pc[r] = "findUser" /\ u = req[r].user /\ pc' = [pc EXCEPT ![r] = "sweep"]
           \/ /\ pc[r] = "readUser" /\ u = req[req[r].of].user
              /\ pc' = [pc EXCEPT ![r] = "sign"]
        /\ role[u] # "none"
        /\ jwt' = [jwt EXCEPT ![r] = [user |-> u, role |-> role[u]]]
        /\ UNCHANGED <<role, tokens, req, code, expired, seen, executed>>

LEMMA SignsEffects ==
    ASSUME BaseInv, NEW r \in Requests, Signs(r)
    PROVE  Effects
<1> USE DEF BaseInv, TypeOK, Signs
<1>1. Frozen /\ ExpiredGrows /\ Arrivals
    BY DEF Frozen, ExpiredGrows, Arrivals
<1>2. TokensGrow /\ ExecutedGrows /\ UpdatesAsked
    BY DEF TokensGrow, ExecutedGrows, UpdatesAsked
<1>3. PassedGrows
    BY DEF PassedGrows, Passed, ControlInv, Control, NoReq
<1>4. RolesChange
    BY DEF RolesChange, ControlInv, Control
<1>5. ClaimsChange
    BY DEF ClaimsChange
<1> QED  BY <1>1, <1>2, <1>3, <1>4, <1>5 DEF Effects

(* A row of users is inserted, or its role updated.                        *)
Writes(r) ==
    /\ \/ /\ pc[r] = "insert"
          /\ role' = [role EXCEPT ![req[r].user] = "user"]
          /\ executed' = executed
       \/ /\ pc[r] = "update"
          /\ role' = [role EXCEPT ![req[r].user] = req[r].role]
          /\ executed' = executed \cup {r}
    /\ \/ pc' = [pc EXCEPT ![r] = "reply"] /\ code' = code
       \/ pc' = [pc EXCEPT ![r] = "done"] /\ code' = [code EXCEPT ![r] = 500]
    /\ UNCHANGED <<tokens, req, jwt, expired, seen>>

LEMMA WritesEffects ==
    ASSUME BaseInv, NEW r \in Requests, Writes(r)
    PROVE  Effects
<1> USE DEF BaseInv, TypeOK, Writes
<1>0. /\ req[r] \in AllReqs
      /\ pc[r] = "insert" => req[r].kind = "register"
      /\ pc[r] = "update" => req[r].kind = "setRole"
    BY DEF AllReqs, ControlInv, Control
<1>1. Frozen /\ ExpiredGrows /\ Arrivals
    BY DEF Frozen, ExpiredGrows, Arrivals
<1>2. TokensGrow /\ ClaimsChange /\ UpdatesAsked
    BY DEF TokensGrow, ClaimsChange, UpdatesAsked
<1>5. ExecutedGrows
    BY <1>0, ReqFields DEF ExecutedGrows
<1>3. PassedGrows
    BY <1>0 DEF PassedGrows, Passed, ControlInv, Control, NoReq
<1>4. RolesChange
    <2>1. req[r].user \in Users /\ (pc[r] = "update" => req[r].role \in Roles)
        BY <1>0, ReqFields
    <2>2. \A u \in Users : role[u] # "none" => role'[u] # "none"
        BY <2>1 DEF Roles
    <2>3. ASSUME NEW u \in Users, role'[u] = "admin", role[u] # "admin"
          PROVE  /\ pc[r] = "update" /\ req[r].kind = "setRole"
                 /\ req[r].user = u /\ req[r].role = "admin"
                 /\ r \in executed'
        BY <1>0, <2>1, <2>3
    <2> QED  BY <2>2, <2>3 DEF RolesChange
<1> QED  BY <1>1, <1>2, <1>3, <1>4, <1>5 DEF Effects
-----------------------------------------------------------------------------
(* The state: every kind of step keeps BaseInv                             *)

LEMMA ArrivalBase ==
    ASSUME BaseInv, NEW r \in Requests, NEW what \in AllReqs, NEW label, NEW status,
           Arrival(r, what, label, status)
    PROVE  BaseInv'
<1>0. /\ what.kind = "login" <=> what \in LoginReq
      /\ what.kind = "register" <=> what \in RegisterReq
      /\ what.kind = "refresh" <=> what \in RefreshReq
      /\ what.kind = "logout" <=> what \in LogoutReq
      /\ what.kind = "setRole" <=> what \in RoleReq
    BY DEF AllReqs, NoReq, LoginReq, RegisterReq, RefreshReq, LogoutReq, RoleReq
<1>1. TypeOK'
    BY DEF BaseInv, TypeOK, Arrival, AllReqs
<1>2. ControlInv'
    <2>1. Control(r)'
        BY <1>0 DEF BaseInv, TypeOK, ControlInv, Control, Arrival, HasRefresh, HasAccess
    <2>2. ASSUME NEW q \in Requests, q # r
          PROVE  Control(q)'
        BY <2>2 DEF BaseInv, TypeOK, ControlInv, Control, Arrival, HasRefresh, HasAccess
    <2> QED  BY <2>1, <2>2 DEF ControlInv
<1>3. ClaimsInv'
    BY <1>0 DEF BaseInv, TypeOK, ControlInv, Control, ClaimsInv, Arrival
<1>4. TokensInv'
    BY DEF BaseInv, TypeOK, TokensInv, Arrival
<1> QED  BY <1>1, <1>2, <1>3, <1>4 DEF BaseInv

LEMMA MovesBase ==
    ASSUME BaseInv, NEW r \in Requests, NEW label, NEW status, Moves(r, label, status)
    PROVE  BaseInv'
<1>1. TypeOK'
    BY DEF BaseInv, TypeOK, Moves
<1>2. ControlInv'
    <2>1. Control(r)'
        BY DEF BaseInv, TypeOK, ControlInv, Control, Moves, HasRefresh, HasAccess
    <2>2. ASSUME NEW q \in Requests, q # r
          PROVE  Control(q)'
        BY <2>2 DEF BaseInv, TypeOK, ControlInv, Control, Moves, HasRefresh, HasAccess
    <2> QED  BY <2>1, <2>2 DEF ControlInv
<1>3. ClaimsInv'
    BY DEF BaseInv, TypeOK, ControlInv, Control, ClaimsInv, Moves
<1>4. TokensInv'
    BY DEF BaseInv, TypeOK, TokensInv, Moves
<1> QED  BY <1>1, <1>2, <1>3, <1>4 DEF BaseInv

(* A write of r, its last or not, leaves the other requests in order.      *)
LEMMA OthersInOrder ==
    ASSUME BaseInv, NEW r \in Requests, pc[r] # "done",
           UNCHANGED <<req, jwt, seen>>,
           NEW q \in Requests, q # r,
           \A x \in Requests \ {r} :
               /\ pc'[x] = pc[x] /\ code'[x] = code[x]
               /\ x \in executed' <=> x \in executed
    PROVE  Control(q)'
<1>1. code[r] = 0 /\ seen[q] \subseteq Requests
    BY DEF BaseInv, TypeOK, ControlInv, Control
<1>2. \A x \in Requests : code[x] = 200 => code'[x] = 200
    BY <1>1
<1>3. \A x \in Requests : pc[x] = "done" => pc'[x] = "done"
    OBVIOUS
<1>4. /\ req[q].of \in Requests /\ HasRefresh(req[q].of) => HasRefresh(req[q].of)'
      /\ req[q].by \in Requests /\ HasAccess(req[q].by) => HasAccess(req[q].by)'
    BY <1>2 DEF HasRefresh, HasAccess
<1> QED  BY <1>1, <1>3, <1>4, KindOf DEF BaseInv, ControlInv, Control

LEMMA DeletesBase ==
    ASSUME BaseInv, NEW r \in Requests, Deletes(r)
    PROVE  BaseInv'
<1>1. TypeOK'
    BY DEF BaseInv, TypeOK, Deletes
<1>2. ControlInv'
    <2>1. \A q \in Requests \ {r} :
              pc'[q] = pc[q] /\ code'[q] = code[q] /\ (q \in executed' <=> q \in executed)
        BY DEF BaseInv, TypeOK, Deletes
    <2>2. /\ pc[r] \in {"sweep", "delete"} /\ code[r] = 0 /\ pc[r] # "done"
          /\ req' = req /\ jwt' = jwt /\ seen' = seen
          /\ pc[r] = "sweep" => pc'[r] = "store" /\ code'[r] = 0
          /\ pc[r] = "delete" => pc'[r] = "done" \/ (pc'[r] = "reply" /\ code'[r] = 0)
        BY DEF BaseInv, TypeOK, ControlInv, Control, Deletes
    <2>3. /\ \A x \in Requests : code[x] = 200 => code'[x] = 200
          /\ \A q \in Requests : \A x \in seen[q] : pc'[x] = "done"
        BY <2>1, <2>2 DEF BaseInv, TypeOK, ControlInv, Control
    <2>4. Control(r)'
        BY <2>2, <2>3, KindOf
        DEF BaseInv, ControlInv, Control, Deletes, HasAccess, HasRefresh
    <2> QED  BY <2>1, <2>2, <2>4, OthersInOrder DEF ControlInv
<1>3. ClaimsInv'
    BY DEF BaseInv, TypeOK, ControlInv, Control, ClaimsInv, Deletes
<1>4. TokensInv'
    BY DEF BaseInv, TypeOK, TokensInv, Deletes
<1> QED  BY <1>1, <1>2, <1>3, <1>4 DEF BaseInv

LEMMA StoresBase ==
    ASSUME BaseInv, NEW r \in Requests, Stores(r)
    PROVE  BaseInv'
<1>1. TypeOK'
    BY KindOf DEF BaseInv, TypeOK, Stores, Row
<1>2. ControlInv'
    <2>1. Control(r)'
        BY DEF BaseInv, TypeOK, ControlInv, Control, Stores, HasRefresh, HasAccess
    <2>2. \A q \in Requests \ {r} : pc'[q] = pc[q] /\ code'[q] = code[q]
        BY DEF BaseInv, TypeOK, Stores
    <2> QED  BY <2>1, <2>2, OthersInOrder DEF ControlInv, Stores
<1>3. ClaimsInv'
    BY DEF BaseInv, TypeOK, ControlInv, Control, ClaimsInv, Stores
<1>4. TokensInv'
    BY KindOf DEF BaseInv, TypeOK, TokensInv, Stores, Row
<1> QED  BY <1>1, <1>2, <1>3, <1>4 DEF BaseInv

LEMMA SignsBase ==
    ASSUME BaseInv, NEW r \in Requests, Signs(r)
    PROVE  BaseInv'
<1>1. TypeOK'
    BY DEF BaseInv, TypeOK, Signs, Claims
<1>2. ControlInv'
    <2>1. Control(r)'
        BY DEF BaseInv, TypeOK, ControlInv, Control, Signs, HasRefresh, HasAccess
    <2>2. ASSUME NEW q \in Requests, q # r
          PROVE  Control(q)'
        BY <2>2 DEF BaseInv, TypeOK, ControlInv, Control, Signs, HasRefresh, HasAccess
    <2> QED  BY <2>1, <2>2 DEF ControlInv
<1>3. ClaimsInv'
    BY KindOf, ClaimsFields DEF BaseInv, TypeOK, ControlInv, Control, ClaimsInv, Signs, NoClaims
<1>4. TokensInv'
    BY DEF BaseInv, TypeOK, TokensInv, Signs
<1> QED  BY <1>1, <1>2, <1>3, <1>4 DEF BaseInv

LEMMA WritesBase ==
    ASSUME BaseInv, NEW r \in Requests, Writes(r)
    PROVE  BaseInv'
<1>1. TypeOK'
    BY KindOf DEF BaseInv, TypeOK, Writes, Roles
<1>2. ControlInv'
    <2>1. Control(r)'
        BY DEF BaseInv, TypeOK, ControlInv, Control, Writes, HasRefresh, HasAccess
    <2>2. \A q \in Requests \ {r} :
              pc'[q] = pc[q] /\ code'[q] = code[q] /\ (q \in executed' <=> q \in executed)
        BY DEF BaseInv, TypeOK, Writes
    <2> QED  BY <2>1, <2>2, OthersInOrder DEF ControlInv, Writes
<1>3. ClaimsInv'
    BY KindOf, ClaimsFields DEF BaseInv, TypeOK, ControlInv, Control, ClaimsInv, Writes, Roles
<1>4. TokensInv'
    BY DEF BaseInv, TypeOK, TokensInv, Writes
<1> QED  BY <1>1, <1>2, <1>3, <1>4 DEF BaseInv
-----------------------------------------------------------------------------
(* Safety of the sessions, from the effects of a step                      *)

(* A request that has acted is over or was under way, and what it acted on *)
(* does not change any more.                                               *)
LEMMA UserStays ==
    ASSUME BaseInv, Frozen, NEW by \in executed, req[by].kind \in {"login", "logout"}
    PROVE  UserOf(by)' = UserOf(by)
<1>1. by \in Requests /\ pc[by] # "idle" /\ req'[by] = req[by]
    BY DEF BaseInv, TypeOK, ControlInv, Control, Frozen
<1>2. CASE req[by].kind = "login"
    BY <1>1, <1>2 DEF UserOf
<1>3. CASE req[by].kind # "login"
    <2>1. req[by].by \in Requests /\ pc[req[by].by] = "done"
        BY <1>1, <1>3, KindOf DEF BaseInv, ControlInv, Control, HasAccess
    <2> QED  BY <1>1, <1>3, <2>1 DEF Frozen, UserOf
<1> QED  BY <1>2, <1>3

LEMMA EndedBefore ==
    ASSUME BaseInv, Effects, NEW q \in Requests, NEW by \in executed, Ended(q, by)'
    PROVE  Ended(q, by) /\ pc[q] = "done"
<1>1. pc[by] # "idle" /\ by \in Requests
    BY DEF BaseInv, TypeOK, ControlInv, Control
<1>2. q \in seen[by] /\ pc[q] = "done" /\ req'[q] = req[q]
    BY <1>1 DEF Ended, BaseInv, ControlInv, Control, Effects, Frozen
<1>3. req'[by] = req[by]
    BY <1>1 DEF Effects, Frozen
<1>4. UserOf(by)' = UserOf(by)
    BY <1>3, UserStays DEF Ended, Effects
<1> QED  BY <1>2, <1>3, <1>4 DEF Ended

LEMMA EndedStay ==
    ASSUME BaseInv, Effects, SessionsStayEnded
    PROVE  SessionsStayEnded'
<1>1. SUFFICES ASSUME NEW q \in Requests, NEW by \in Requests, Ended(q, by)',
                      Known(q)'
               PROVE  FALSE
    BY DEF SessionsStayEnded
<1>2. PICK row \in tokens' : row.of = q
    BY <1>1 DEF Known
<1>3. CASE by \in executed
    <2>1. Ended(q, by) /\ pc[q] = "done"
        BY <1>1, <1>3, EndedBefore
    <2>2. row \notin tokens
        BY <1>2, <2>1 DEF SessionsStayEnded, Known
    <2>3. pc[row.of] = "store"
        BY <2>2 DEF Effects, TokensGrow, Row
    <2> QED  BY <1>2, <2>1, <2>3
<1>4. CASE by \notin executed
    <2>0. pc[by] # "update"
        BY <1>1, KindOf DEF Ended, Effects, Frozen
    <2>1. /\ pc[by] \in {"sweep", "delete"}
          /\ row \in tokens /\ row.user # UserOf(by)
        BY <1>1, <1>2, <1>4, <2>0 DEF Ended, Effects, ExecutedGrows
    <2>2. q \in seen[by]
        BY <1>1, <2>1 DEF Ended, Effects, Frozen
    <2>5. req[q].user = row.user /\ pc[q] = "done"
        BY <1>2, <2>1, <2>2 DEF BaseInv, TokensInv, ControlInv, Control
    <2>3. req'[q] = req[q]
        BY <2>5 DEF Effects, Frozen
    <2>4. UserOf(by)' = UserOf(by)
        <3>1. CASE pc[by] = "sweep"
            BY <3>1, KindOf DEF Effects, Frozen, UserOf
        <3>2. CASE pc[by] = "delete"
            <4>1. /\ req[by].kind = "logout" /\ req[by].by \in Requests
                  /\ pc[req[by].by] = "done"
                BY <3>2, KindOf DEF BaseInv, ControlInv, Control, HasAccess
            <4> QED  BY <3>2, <4>1 DEF Effects, Frozen, UserOf
        <3> QED  BY <2>1, <3>1, <3>2
    <2> QED  BY <1>1, <2>1, <2>3, <2>4, <2>5 DEF Ended
<1> QED  BY <1>3, <1>4

LEMMA PassedStays ==
    ASSUME BaseInv, Effects, SessionsStayEnded, PassedInv
    PROVE  PassedInv'
<1>1. SUFFICES ASSUME NEW r \in Requests, NEW by \in Requests, Passed(r)',
                      by \in seen'[r], Ended(req[r].of, by)'
               PROVE  FALSE
    BY DEF PassedInv
<1>2. pc[r] # "idle" /\ (Passed(r) \/ (pc[r] = "findToken" /\ Known(req[r].of)))
    BY <1>1 DEF Effects, PassedGrows
<1>3. req'[r] = req[r] /\ seen'[r] = seen[r]
    BY <1>2 DEF Effects, Frozen
<1>4. pc[by] = "done"
    BY <1>1, <1>3 DEF BaseInv, ControlInv, Control
<1>5. by \in executed
    BY <1>1, <1>4 DEF Ended, Effects, ExecutedGrows
<1>6. req[r] \in AllReqs /\ req[r].kind = "refresh"
    BY <1>2 DEF BaseInv, TypeOK, AllReqs, Passed, ControlInv, Control
<1>7. Ended(req[r].of, by)
    BY <1>1, <1>3, <1>5, <1>6, EndedBefore, ReqFields
<1>8. ~Passed(r)
    BY <1>1, <1>3, <1>7 DEF PassedInv
<1>9. ~Known(req[r].of)
    BY <1>6, <1>7, ReqFields DEF SessionsStayEnded
<1> QED  BY <1>2, <1>8, <1>9

(* A promotion under way is not among what a change that is over saw.      *)
LEMMA PromotedStays ==
    ASSUME BaseInv, Effects, NEW d \in Requests, pc[d] # "idle", NEW u, Promoted(u, d)
    PROVE  Promoted(u, d)'
<1>1. PICK p \in Requests \ seen[d] :
          req[p].kind = "setRole" /\ req[p].user = u /\ req[p].role = "admin"
    BY DEF Promoted
<1>2. pc[p] # "idle"
    BY <1>1 DEF BaseInv, ControlInv, Control, NoReq
<1>3. req'[p] = req[p] /\ seen'[d] = seen[d]
    BY <1>2 DEF Effects, Frozen
<1> QED  BY <1>1, <1>3 DEF Promoted

(* The change of d was made before this step, or by it.                    *)
LEMMA ChangeBefore ==
    ASSUME BaseInv, Effects, NEW d \in Requests, NEW u \in Users, Changes(d, u, "user")'
    PROVE  /\ pc[d] # "idle" /\ seen'[d] = seen[d]
           /\ Changes(d, u, "user") \/ (pc[d] = "update" /\ role'[u] = "user")
<1>1. d \in executed \/ d \in executed' \ executed
    BY DEF Changes
<1>2. pc[d] # "idle"
    BY <1>1 DEF BaseInv, ControlInv, Control, NoReq, Effects, ExecutedGrows
<1>3. req'[d] = req[d] /\ seen'[d] = seen[d]
    BY <1>2 DEF Effects, Frozen
<1>4. CASE d \in executed
    BY <1>2, <1>3, <1>4 DEF Changes
<1>5. CASE d \in executed' \ executed
    <2>1. pc[d] = "update"
        BY <1>3, <1>5, KindOf DEF Changes, Effects, ExecutedGrows
    <2>2. role'[req[d].user] = req[d].role
        BY <1>5, <2>1 DEF Effects, ExecutedGrows
    <2> QED  BY <1>2, <1>3, <2>1, <2>2 DEF Changes
<1> QED  BY <1>1, <1>4, <1>5

LEMMA RoleStays ==
    ASSUME BaseInv, Effects, RoleInv
    PROVE  RoleInv'
<1>1. SUFFICES ASSUME NEW d \in Requests, NEW u \in Users,
                      Changes(d, u, "user")', role'[u] = "admin"
               PROVE  Promoted(u, d)'
    BY DEF RoleInv
<1>2. pc[d] # "idle" /\ Changes(d, u, "user")
    BY <1>1, ChangeBefore
<1>3. CASE role[u] = "admin"
    BY <1>2, <1>3, PromotedStays DEF RoleInv
<1>4. CASE role[u] # "admin"
    <2>1. PICK p \in Requests :
              /\ pc[p] = "update" /\ req[p].kind = "setRole"
              /\ req[p].user = u /\ req[p].role = "admin"
        BY <1>1, <1>4 DEF Effects, RolesChange
    <2>2. p \notin seen[d]
        BY <2>1 DEF BaseInv, ControlInv, Control
    <2>3. Promoted(u, d)
        BY <2>1, <2>2 DEF Promoted
    <2> QED  BY <1>2, <2>3, PromotedStays
<1> QED  BY <1>3, <1>4

LEMMA DemotionStays ==
    ASSUME BaseInv, BaseInv', Effects, RoleInv, DemotionIsSeen
    PROVE  DemotionIsSeen'
<1>1. SUFFICES ASSUME NEW j \in Requests, NEW d \in Requests,
                      jwt'[j].role = "admin", d \in seen'[j],
                      Changes(d, jwt[j].user, "user")'
               PROVE  Promoted(jwt[j].user, d)'
    BY DEF DemotionIsSeen, Promoted
<1> DEFINE u == jwt'[j].user
<1>2. u \in Users
    BY <1>1, ClaimsFields DEF BaseInv, TypeOK, NoClaims
<1>3. pc[j] # "idle" /\ seen'[j] = seen[j]
    BY <1>1 DEF Effects, ClaimsChange, Frozen, BaseInv, ControlInv, Control, NoClaims
<1>4. pc[d] = "done"
    BY <1>1, <1>3 DEF BaseInv, ControlInv, Control
<1>5. Changes(d, u, "user")
    BY <1>1, <1>2, <1>4, ChangeBefore
<1>6. Promoted(u, d)
    <2>1. CASE jwt'[j] = jwt[j]
        BY <1>1, <1>3, <1>5, <2>1 DEF DemotionIsSeen, Promoted
    <2>2. CASE jwt'[j] # jwt[j]
        BY <1>1, <1>2, <1>5, <2>2 DEF Effects, ClaimsChange, RoleInv
    <2> QED  BY <2>1, <2>2
<1> QED  BY <1>4, <1>6, PromotedStays
(* A change of role that goes on was, and is, asked for by an admin.       *)
LEMMA SourceStays ==
    ASSUME BaseInv, Effects, SourceInv
    PROVE  SourceInv'
<1>1. SUFFICES ASSUME NEW p \in Requests, pc'[p] = "update"
               PROVE  req'[p].by \in seen'[p] /\ jwt'[req'[p].by].role = "admin"
    BY DEF SourceInv
<1>2. CASE pc[p] = "update"
    <2>1. req'[p] = req[p] /\ seen'[p] = seen[p]
        BY <1>2 DEF Effects, Frozen
    <2>2. req[p].by \in seen[p] /\ jwt[req[p].by].role = "admin"
        BY <1>2 DEF SourceInv
    <2>3. req[p].by \in Requests /\ pc[req[p].by] = "done"
        BY <2>2 DEF BaseInv, TypeOK, ControlInv, Control
    <2> QED  BY <2>1, <2>2, <2>3 DEF Effects, Frozen
<1>3. CASE pc[p] # "update"
    <2> DEFINE j == req'[p].by
    <2>1. /\ j \in Requests /\ HasAccess(j) /\ jwt[j].role = "admin"
          /\ seen'[p] = {q \in Requests : pc[q] = "done"}
        BY <1>1, <1>3 DEF Effects, UpdatesAsked
    <2>2. pc[j] = "done"
        BY <2>1 DEF HasAccess, BaseInv, ControlInv, Control
    <2> QED  BY <2>1, <2>2 DEF Effects, Frozen
<1> QED  BY <1>2, <1>3

(* What has granted power keeps what it was, and what it was granted by.   *)
LEMMA GrantStays ==
    ASSUME BaseInv, Effects, NEW p \in Requests, NEW u, Grants(p, u)
    PROVE  Grants(p, u)'
<1>1. pc[p] # "idle" /\ req[p].by \in Requests /\ pc[req[p].by] = "done"
    BY DEF Grants, Changes, BaseInv, TypeOK, ControlInv, Control
<1> QED  BY <1>1 DEF Grants, Changes, Effects, Frozen, RolesChange

LEMMA PowerStays ==
    ASSUME BaseInv, BaseInv', Effects, SourceInv, PowerHasASource
    PROVE  PowerHasASource'
<1>1. SUFFICES ASSUME NEW u \in Users, HasPower(u)', InitialRole[u] # "admin"
               PROVE  \E p \in Requests : Grants(p, u)'
    BY DEF PowerHasASource
<1>2. CASE HasPower(u)
    BY <1>1, <1>2, GrantStays DEF PowerHasASource
<1>3. CASE ~HasPower(u)
    <2>1. role'[u] = "admin"
        <3>1. ASSUME NEW j \in Requests, jwt'[j] = [user |-> u, role |-> "admin"]
              PROVE  role[u] = "admin"
            BY <1>3, <3>1 DEF HasPower, Effects, ClaimsChange
        <3> QED  BY <1>1, <1>3, <3>1 DEF HasPower
    <2>2. PICK p \in Requests :
              /\ pc[p] = "update" /\ req[p].kind = "setRole"
              /\ req[p].user = u /\ req[p].role = "admin"
              /\ p \in executed'
        BY <1>3, <2>1 DEF HasPower, Effects, RolesChange
    <2>3. req[p].by \in seen[p] /\ jwt[req[p].by].role = "admin"
        BY <2>2 DEF SourceInv
    <2>4. req[p].by \in Requests /\ pc[req[p].by] = "done"
        BY <2>3 DEF BaseInv, TypeOK, ControlInv, Control
    <2>5. Grants(p, u)'
        BY <2>2, <2>3, <2>4 DEF Grants, Changes, Effects, Frozen
    <2> QED  BY <2>5
<1> QED  BY <1>2, <1>3
-----------------------------------------------------------------------------
(* Every step                                                              *)

LEMMA InitInv ==
    ASSUME Init
    PROVE  IInv
<1>1. TypeOK
    BY InitialRoleAssumption DEF Init, TypeOK
<1>2. ControlInv
    BY DEF Init, ControlInv, Control
<1>3. ClaimsInv /\ TokensInv
    BY DEF Init, ClaimsInv, TokensInv, NoReq
<1>4. SessionsStayEnded /\ PassedInv /\ RoleInv /\ DemotionIsSeen
    BY DEF Init, SessionsStayEnded, Ended, PassedInv, Passed, RoleInv, DemotionIsSeen,
           Changes, NoReq
<1>5. SourceInv /\ PowerHasASource
    BY DEF Init, SourceInv, PowerHasASource, HasPower, NoClaims
<1> QED  BY <1>1, <1>2, <1>3, <1>4, <1>5 DEF IInv

(* What is to be proved of a step: it keeps the state and has the effects. *)
Good == BaseInv' /\ Effects

LEMMA HandleGood ==
    ASSUME BaseInv, NEW r \in Requests, Start(r) \/ Handle(r) \/ Fault(r)
    PROVE  Good
<1> USE DEF Goto, Answer
<1>1. CASE Start(r)
    BY <1>1, StartIsArrival, ArrivalBase, ArrivalEffects DEF Good
<1>2. CASE Controls(r)
    BY <1>2, ControlsMove, MovesBase, MovesEffects DEF Good
<1>3. CASE Sweep(r) \/ Delete(r)
    <2>1. Deletes(r)
        BY <1>3 DEF Sweep, Delete, DeleteByUserID, Deletes, BaseInv, TypeOK, ControlInv,
                    Control
    <2> QED  BY <2>1, DeletesBase, DeletesEffects DEF Good
<1>4. CASE Store(r)
    <2>1. Stores(r)  BY <1>4 DEF Store, Stores
    <2> QED  BY <2>1, StoresBase, StoresEffects DEF Good
<1>5. CASE FindUser(r)
    <2>1. Signs(r)  BY <1>5, KindOf DEF FindUser, GoodCredentials, Signs
    <2> QED  BY <2>1, SignsBase, SignsEffects DEF Good
<1>6. CASE ReadUser(r)
    <2> DEFINE u == req[req[r].of].user
    <2>1. pc[r] = "readUser" /\ HasRefresh(req[r].of) /\ req[r].of \in Requests
        BY <1>6, KindOf DEF ReadUser
    <2>2. u = jwt[req[r].of].user /\ jwt[req[r].of] # NoClaims
        BY <2>1 DEF HasRefresh, BaseInv, ClaimsInv
    <2>3. u \in Users /\ role[u] # "none"
        BY <2>1, <2>2, ClaimsFields DEF BaseInv, TypeOK, ClaimsInv
    <2>4. Signs(r)  BY <1>6, <2>3 DEF ReadUser, Signs
    <2> QED  BY <2>4, SignsBase, SignsEffects DEF Good
<1>7. CASE CreateUser(r) \/ UpdateUserRole(r)
    <2>1. Writes(r)  BY <1>7 DEF CreateUser, UpdateUserRole, Writes
    <2> QED  BY <2>1, WritesBase, WritesEffects DEF Good
<1>8. CASE WriteAnswerLost(r)
    <2>1. Stores(r) \/ Deletes(r) \/ Writes(r)
        BY <1>8 DEF WriteAnswerLost, Stores, Deletes, Writes
    <2> QED  BY <2>1, StoresBase, StoresEffects, DeletesBase, DeletesEffects,
                WritesBase, WritesEffects DEF Good
<1> QED  BY <1>1, <1>2, <1>3, <1>4, <1>5, <1>6, <1>7, <1>8
         DEF Handle, Fault, Controls

(* Time, and the end of the server.                                        *)
LEMMA EnvironmentGood ==
    ASSUME BaseInv, (\E r \in Requests : Expire(r)) \/ Crash \/ UNCHANGED vars
    PROVE  Good
<1>1. CASE (\E r \in Requests : Expire(r)) \/ UNCHANGED vars
    <2>1. /\ UNCHANGED <<role, tokens, req, pc, code, jwt, seen, executed>>
          /\ expired' \in [{"access", "refresh"} -> SUBSET Requests]
          /\ expired["access"] \subseteq expired'["access"]
        BY <1>1 DEF Expire, vars, BaseInv, TypeOK
    <2>2. BaseInv'
        BY <2>1 DEF BaseInv, TypeOK, ControlInv, Control, HasAccess, HasRefresh, ClaimsInv,
                    TokensInv
    <2>3. Frozen /\ TokensGrow /\ ExecutedGrows /\ RolesChange /\ ClaimsChange
          /\ UpdatesAsked /\ ExpiredGrows /\ Arrivals
        BY <2>1 DEF Frozen, TokensGrow, ExecutedGrows, RolesChange, ClaimsChange,
                    UpdatesAsked, ExpiredGrows, Arrivals
    <2>4. PassedGrows
        BY <2>1 DEF PassedGrows, Passed, BaseInv, ControlInv, Control, NoReq
    <2> QED  BY <2>2, <2>3, <2>4 DEF Good, Effects
<1>2. CASE Crash
    <2>1. /\ UNCHANGED <<role, tokens, req, code, jwt, expired, seen, executed>>
          /\ pc' = [r \in Requests |-> IF pc[r] = "idle" THEN "idle" ELSE "done"]
        BY <1>2 DEF Crash, Active, BaseInv, TypeOK
    <2>2. TypeOK' /\ ClaimsInv' /\ TokensInv'
        BY <2>1 DEF BaseInv, TypeOK, ClaimsInv, TokensInv
    <2>3. ControlInv'
        BY <2>1 DEF BaseInv, TypeOK, ControlInv, Control, HasAccess, HasRefresh
    <2>4. Frozen /\ TokensGrow /\ ExecutedGrows /\ RolesChange /\ ClaimsChange
          /\ UpdatesAsked /\ ExpiredGrows /\ Arrivals
        BY <2>1 DEF Frozen, TokensGrow, ExecutedGrows, RolesChange, ClaimsChange,
                    UpdatesAsked, ExpiredGrows, Arrivals
    <2>5. PassedGrows
        BY <2>1 DEF PassedGrows, Passed, BaseInv, ControlInv, Control, NoReq
    <2> QED  BY <2>2, <2>3, <2>4, <2>5 DEF Good, Effects, BaseInv
<1> QED  BY <1>1, <1>2

LEMMA StepInv ==
    ASSUME IInv, [Next]_vars
    PROVE  IInv'
<1>1. BaseInv
    BY DEF IInv, BaseInv
<1>2. Good
    BY <1>1, HandleGood, EnvironmentGood DEF Next, Idle
<1>3. SessionsStayEnded'
    BY <1>1, <1>2, EndedStay DEF IInv, Good
<1>4. PassedInv'
    BY <1>1, <1>2, PassedStays DEF IInv, Good
<1>5. RoleInv' /\ DemotionIsSeen'
    BY <1>1, <1>2, RoleStays, DemotionStays DEF IInv, Good
<1>6. SourceInv' /\ PowerHasASource'
    BY <1>1, <1>2, SourceStays, PowerStays DEF IInv, Good
<1> QED  BY <1>2, <1>3, <1>4, <1>5, <1>6 DEF IInv, Good, BaseInv
-----------------------------------------------------------------------------
(* The inductive invariant of the sessions holds in every reachable state. *)
THEOREM Invariance == Spec => []IInv
<1>1. Init => IInv
    BY InitInv
<1>2. IInv /\ [Next]_vars => IInv'
    BY StepInv
<1> QED  BY <1>1, <1>2, PTL DEF Spec

(* Every variable has its type in every reachable state.                   *)
THEOREM TypeCorrect == Spec => []TypeOK
<1>1. IInv => TypeOK
    BY DEF IInv
<1> QED  BY <1>1, Invariance, PTL

(* However logins, refreshes, logouts and failures interleave, the tokens  *)
(* a login or a logout has deleted do not come back.                       *)
THEOREM SessionsEnd == Spec => []SessionsStayEnded
<1>1. IInv => SessionsStayEnded
    BY DEF IInv
<1> QED  BY <1>1, Invariance, PTL

(* No refresh that came after a logout succeeds with a token of before it. *)
THEOREM LogoutIsRespected == Spec => []RefreshRespectsLogout
<1>1. IInv => RefreshRespectsLogout
    BY DEF IInv, PassedInv, Passed, RefreshRespectsLogout
<1> QED  BY <1>1, Invariance, PTL

(* An access token asked for after a demotion has the admin role only when *)
(* a promotion was under way or came later.                                *)
THEOREM DemotionIsFinal == Spec => []DemotionIsSeen
<1>1. IInv => DemotionIsSeen
    BY DEF IInv
<1> QED  BY <1>1, Invariance, PTL

(* Whoever becomes an admin was made one by an admin's token.              *)
THEOREM PowerIsGranted == Spec => []PowerHasASource
<1>1. IInv => PowerHasASource
    BY DEF IInv
<1> QED  BY <1>1, Invariance, PTL

(* Without an admin in the table at the start there is never one: the      *)
(* first admin is made in the database, not by a client.                   *)
THEOREM NoFirstAdmin ==
    ASSUME \A u \in Users : InitialRole[u] # "admin"
    PROVE  Spec => [](\A u \in Users : ~HasPower(u))
<1> DEFINE NoPower == \A u \in Users : ~HasPower(u)
<1>1. Init => NoPower
    BY DEF Init, HasPower, NoClaims
<1>2. IInv /\ NoPower /\ [Next]_vars => NoPower'
    <2> SUFFICES ASSUME IInv, NoPower, [Next]_vars, NEW u \in Users, HasPower(u)'
                 PROVE  FALSE
        OBVIOUS
    <2>1. BaseInv /\ Effects /\ IInv'
        BY HandleGood, EnvironmentGood, StepInv DEF IInv, BaseInv, Next, Idle, Good
    <2>2. PICK p \in Requests : Grants(p, u)'
        BY <2>1 DEF IInv, PowerHasASource
    <2> DEFINE j == req'[p].by
    <2>3. jwt'[j].role = "admin" /\ j \in Requests
        BY <2>1, <2>2 DEF Grants, Changes, IInv, TypeOK
    <2>4. jwt'[j].user \in Users /\ jwt'[j] = [user |-> jwt'[j].user, role |-> "admin"]
        BY <2>1, <2>3 DEF IInv, TypeOK, Claims, NoClaims
    <2>5. CASE jwt'[j] = jwt[j]
        BY <2>3, <2>4, <2>5 DEF HasPower
    <2>6. CASE jwt'[j] # jwt[j]
        BY <2>1, <2>3, <2>4, <2>6 DEF HasPower, Effects, ClaimsChange
    <2> QED  BY <2>5, <2>6
<1> QED  BY <1>1, <1>2, Invariance, PTL DEF Spec

(* What a step keeps and what it does, in a reachable state.               *)
LEMMA StepGood ==
    ASSUME IInv, [Next]_vars
    PROVE  BaseInv /\ BaseInv' /\ Effects
BY HandleGood, EnvironmentGood DEF IInv, BaseInv, Next, Idle, Good

LEMMA PowerStaysOut ==
    ASSUME BaseInv, BaseInv', Effects, Powerless
    PROVE  Powerless'
<1>1. ASSUME NEW u \in Users, role'[u] = "admin"
      PROVE  FALSE
    BY <1>1 DEF Powerless, Effects, RolesChange
<1>2. ASSUME NEW j \in Requests, jwt'[j].role = "admin"
      PROVE  ~Live(j)'
    <2>1. jwt'[j] = jwt[j]
        BY <1>2 DEF Powerless, Effects, ClaimsChange
    <2>2. ~Live(j)
        BY <1>2, <2>1 DEF Powerless
    <2> QED  BY <2>2 DEF Live, Effects, ExpiredGrows
<1>3. ASSUME NEW p \in Requests, pc'[p] = "update"
      PROVE  req'[p].role # "admin"
    <2>1. CASE pc[p] = "update"
        BY <2>1 DEF Powerless, Effects, Frozen
    <2>2. CASE pc[p] # "update"
        <3>1. /\ req'[p].by \in Requests
              /\ jwt[req'[p].by].role = "admin" /\ Live(req'[p].by)
            BY <1>3, <2>2 DEF Effects, UpdatesAsked
        <3> QED  BY <3>1 DEF Powerless
    <2> QED  BY <2>1, <2>2
<1> QED  BY <1>1, <1>2, <1>3 DEF Powerless

(* When no user is an admin any more and the last token that said so has   *)
(* expired, no request makes an admin again.                               *)
THEOREM PowerIsGone == Spec => PowerDiesOut
<1>1. IInv /\ [Next]_vars => (Powerless => Powerless')
    BY StepGood, PowerStaysOut
<1>2. (Powerless => Powerless') => [Powerless => Powerless']_vars
    OBVIOUS
<1> QED  BY <1>1, <1>2, Invariance, PTL DEF Spec, PowerDiesOut

(* The requests that could end in a token of a user who is signed out.     *)
LEMMA SignedOutSteps ==
    ASSUME BaseInv, BaseInv', Effects, NEW u \in Users, SignedOut(u),
           ~ \E r \in Requests : pc[r] = "idle" /\ pc'[r] = "findUser" /\ req'[r].user = u
    PROVE  SignedOut(u)'
<1>1. \A r \in Requests : pc[r] \in {"readUser", "sign"} =>
          req[req[r].of].user # u
    BY KindOf DEF SignedOut
<1>2. \A r \in Requests : pc[r] \in {"findUser", "sweep", "store"} => req[r].user # u
    BY KindOf DEF SignedOut
<1>3. ASSUME NEW row \in tokens'
      PROVE  row.user # u
    <2>1. CASE row \in tokens
        BY <2>1 DEF SignedOut
    <2>2. CASE row \notin tokens
        BY <1>2, <2>2 DEF Effects, TokensGrow, Row
    <2> QED  BY <2>1, <2>2
<1>4. ASSUME NEW j \in Requests, jwt'[j].user = u
      PROVE  ~Live(j)' /\ pc'[j] = "done"
    <2>1. jwt'[j] = jwt[j]
        BY <1>1, <1>2, <1>4 DEF Effects, ClaimsChange
    <2>2. ~Live(j) /\ pc[j] = "done"
        BY <1>4, <2>1 DEF SignedOut
    <2> QED  BY <2>2 DEF Live, Effects, ExpiredGrows, Frozen
<1>5. ASSUME NEW r \in Requests, req'[r].kind = "login", req'[r].user = u
      PROVE  pc'[r] = "done"
    <2>1. CASE pc[r] = "idle"
        <3>1. pc'[r] = "idle"
            BY <1>5, <2>1 DEF Effects, Arrivals
        <3> QED  BY <1>5, <3>1 DEF BaseInv, ControlInv, Control, NoReq
    <2>2. CASE pc[r] # "idle"
        BY <1>5, <2>2 DEF SignedOut, Effects, Frozen
    <2> QED  BY <2>1, <2>2
<1>6. ASSUME NEW r \in Requests, req'[r].kind = "refresh", req'[req'[r].of].user = u
      PROVE  pc'[r] \in {"findToken", "done"}
    <2>1. CASE pc[r] = "idle"
        <3>1. pc'[r] \in {"idle", "findToken"}
            BY <1>6, <2>1 DEF Effects, Arrivals
        <3> QED  BY <1>6, <3>1 DEF BaseInv, ControlInv, Control, NoReq
    <2>2. CASE pc[r] = "done"
        BY <2>2 DEF Effects, Frozen
    <2>3. CASE pc[r] \notin {"idle", "done"}
        <3>1. req'[r] = req[r]
            BY <2>3 DEF Effects, Frozen
        <3>2. pc[r] \in {"findToken", "readUser", "sign"}
            BY <1>6, <2>3, <3>1 DEF BaseInv, TypeOK, ControlInv, Control
        <3>3. req[r].of \in Requests /\ pc[req[r].of] = "done"
            BY <3>2, KindOf DEF HasRefresh, BaseInv, ControlInv, Control
        <3>4. req[req[r].of].user = u
            BY <1>6, <3>1, <3>3 DEF Effects, Frozen
        <3>5. pc[r] = "findToken"
            BY <1>1, <3>2, <3>4
        <3>6. ~Known(req[r].of)
            BY <3>4 DEF Known, SignedOut, BaseInv, TokensInv
        <3>7. code[r] # 200
            BY <3>5 DEF BaseInv, ControlInv, Control
        <3>8. ~Passed(r)'
            BY <3>5, <3>6, <3>7 DEF Effects, PassedGrows, Passed
        <3>9. pc'[r] # "idle" /\ pc'[r] \notin {"readUser", "sign"}
            BY <1>6, <3>5, <3>8 DEF Effects, Frozen, Passed
        <3> QED  BY <1>6, <3>9 DEF BaseInv, TypeOK, ControlInv, Control
    <2> QED  BY <2>1, <2>2, <2>3
<1> QED  BY <1>3, <1>4, <1>5, <1>6 DEF SignedOut

(* A user who is signed out is signed out until he logs in.                *)
THEOREM SignedOutUntilLogin == Spec => SignedOutStays
<1> DEFINE Stays == \A u \in Users : SignedOut(u) =>
                        \/ SignedOut(u)'
                        \/ \E r \in Requests :
                               pc[r] = "idle" /\ pc'[r] = "findUser" /\ req'[r].user = u
<1>1. IInv /\ [Next]_vars => Stays
    BY StepGood, SignedOutSteps
<1>2. Stays => [Stays]_vars
    OBVIOUS
<1> HIDE DEF Stays
<1>3. Spec => [][Stays]_vars
    BY <1>1, <1>2, Invariance, PTL DEF Spec
<1> QED  BY <1>3 DEF SignedOutStays, Stays
=============================================================================

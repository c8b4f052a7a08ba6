---------------------------- MODULE SessionsProofs ----------------------------
(***************************************************************************)
(* Proofs about Sessions, for any number of requests, passwords and codes: *)
(* that a reset revokes the sessions before it, that a code sets one       *)
(* password, and that whoever is let in has a profile.                     *)
(***************************************************************************)
EXTENDS Sessions, FiniteSetTheorems, TLAPS

SessionsSpec == SessionsInit /\ [][SessionsNext]_sessionVars

-----------------------------------------------------------------------------
(* Types *)

UserRow ==
  [uid : {Nothing, "own", "demo"}, password : Passwords \cup {Nothing}, role : Roles,
   code : Nat, expired : BOOLEAN, version : Nat]

Operations == {"none", "register", "login", "refresh", "link", "seed", "provision", "logout",
               "forgot", "confirm"}

Steps == {"idle", "find", "create", "rename", "session", "upsert", "update", "store", "mail",
          "write", "done", "failed"}

RequestRow ==
  [op : Operations, at : Steps, role : Roles \cup {Nothing}, version : Nat, code : Nat,
   presented : Nat \cup {Nothing}, resetsBefore : SUBSET Requests]

\* The steps that a request of an operation can be at.
AtOf(op) ==
  CASE op = "none" -> {"idle"}
    [] op = "register" -> {"find", "create", "session", "done", "failed"}
    [] op \in {"login", "refresh"} -> {"session", "done", "failed"}
    [] op = "link" -> {"find", "create", "rename", "done", "failed"}
    [] op = "seed" -> {"upsert", "done", "failed"}
    [] op = "provision" -> {"update", "done", "failed"}
    [] op = "logout" -> {"done"}
    [] op = "forgot" -> {"store", "mail", "done", "failed"}
    [] op = "confirm" -> {"write", "done", "failed"}

\* The operations that are about a role.
RoleOps == {"register", "login", "refresh", "link", "seed"}

\* A request is where its operation takes it, about a role where it needs one, never one
\* to create the profile of an administrator; the reset of a password is about a row, and
\* a code is one that has been generated.
RowOK(r) ==
  /\ requests[r].at \in AtOf(requests[r].op)
  /\ requests[r].op \in RoleOps => requests[r].role \in Roles
  /\ requests[r].at = "create" => requests[r].role # "ADMIN"
  /\ requests[r].op \in {"forgot", "confirm"} => user # NoUser
  /\ requests[r].op = "forgot" => requests[r].code \in 1..codes

TypeInv ==
  /\ identity \in {Nothing, "own", "demo"}
  /\ user \in UserRow \cup {NoUser}
  /\ profiles \in [Profiled -> {"none", "default", "given"}]
  /\ requests \in [Requests -> RequestRow]
  /\ \A r \in Requests : RowOK(r)
  /\ \A t \in tokens : t.version \in Nat
  /\ codes \in Nat
  /\ mailed \subseteq 1..codes
  /\ resets \subseteq Requests

\* What a request that begins looks like, and what its beginning leaves alone.
Begins(r, op, at) ==
  /\ requests[r].at = "idle" /\ requests[r].op = "none"
  /\ requests' \in [Requests -> RequestRow]
  /\ requests'[r].op = op /\ requests'[r].at = at /\ requests'[r].resetsBefore = resets
  /\ \A q \in Requests : q # r => requests'[q] = requests[q]

\* A request that goes on changes its step only.
Moves(r, op, from, to) ==
  /\ requests[r].op = op /\ requests[r].at = from
  /\ requests' \in [Requests -> RequestRow]
  /\ requests'[r].op = op /\ requests'[r].at = to
  /\ requests'[r].role = requests[r].role /\ requests'[r].version = requests[r].version
  /\ requests'[r].code = requests[r].code
  /\ requests'[r].presented = requests[r].presented
  /\ requests'[r].resetsBefore = requests[r].resetsBefore
  /\ \A q \in Requests : q # r => requests'[q] = requests[q]

\* The operation of a request is known from its step.
LEMMA OpOfStep ==
  ASSUME TypeInv, NEW r \in Requests
  PROVE  /\ requests[r].op \in Operations
         /\ requests[r].at \in AtOf(requests[r].op)
         /\ requests[r].at = "idle" <=> requests[r].op = "none"
         /\ requests[r].at = "find" => requests[r].op \in {"register", "link"}
         /\ requests[r].at = "create" => requests[r].op \in {"register", "link"}
         /\ requests[r].at = "rename" => requests[r].op = "link"
         /\ requests[r].at = "session" => requests[r].op \in {"register", "login", "refresh"}
         /\ requests[r].at = "upsert" => requests[r].op = "seed"
<1>1. requests[r] \in RequestRow /\ requests[r].at \in AtOf(requests[r].op)
  BY DEF TypeInv, RowOK
<1>2. requests[r].op \in Operations
  BY <1>1 DEF RequestRow
<1> QED
  BY <1>1, <1>2 DEF AtOf, Operations

\* Start puts in the request what it is given, and the resets there are.
LEMMA StartBegins ==
  ASSUME TypeInv, NEW r \in Requests, NEW begun \in RequestRow, Start(r, begun)
  PROVE  /\ Begins(r, begun.op, begun.at)
         /\ requests'[r].role = begun.role /\ requests'[r].version = begun.version
         /\ requests'[r].code = begun.code /\ requests'[r].presented = begun.presented
<1>1. requests \in [Requests -> RequestRow] /\ resets \subseteq Requests
  BY DEF TypeInv
<1>2. PICK row : row = [begun EXCEPT !.resetsBefore = resets]
  OBVIOUS
<1>3. /\ row \in RequestRow
      /\ row.op = begun.op /\ row.at = begun.at /\ row.role = begun.role
      /\ row.version = begun.version /\ row.code = begun.code
      /\ row.presented = begun.presented /\ row.resetsBefore = resets
  BY <1>1, <1>2 DEF RequestRow
<1>4. requests' = [requests EXCEPT ![r] = row] /\ requests[r].at = "idle"
  BY <1>2 DEF Start
<1>5. requests[r].op = "none"
  BY <1>4, OpOfStep
<1> QED
  BY <1>1, <1>3, <1>4, <1>5 DEF Begins

\* Goto moves the request.
LEMMA GotoMoves ==
  ASSUME TypeInv, NEW r \in Requests, NEW to \in Steps, Goto(r, to)
  PROVE  Moves(r, requests[r].op, requests[r].at, to)
<1>1. requests \in [Requests -> RequestRow]
  BY DEF TypeInv
<1>2. PICK row : row = [requests[r] EXCEPT !.at = to]
  OBVIOUS
<1>3. /\ row \in RequestRow
      /\ row.op = requests[r].op /\ row.at = to /\ row.role = requests[r].role
      /\ row.version = requests[r].version /\ row.code = requests[r].code
      /\ row.presented = requests[r].presented
      /\ row.resetsBefore = requests[r].resetsBefore
  BY <1>1, <1>2 DEF RequestRow
<1>4. requests' = [requests EXCEPT ![r] = row]
  BY <1>2 DEF Goto
<1> QED
  BY <1>1, <1>3, <1>4 DEF Moves

\* A row of a user is no missing row, and a column without a value holds none.
LEMMA RowsAndValues ==
  /\ NoUser \notin UserRow
  /\ Nothing \notin {"own", "demo"} /\ Nothing \notin Nat /\ Nothing \notin Roles
  /\ Idle \in RequestRow
  /\ Idle.presented = Nothing /\ Idle.role = Nothing /\ Idle.version = 0 /\ Idle.code = 0
<1>1. /\ NoUser \notin UserRow
      /\ Nothing \notin {"own", "demo"} /\ Nothing \notin Nat /\ Nothing \notin Roles
  BY SessionsAssumption DEF UserRow
<1>2. 0 \in Nat /\ {} \in SUBSET Requests
  OBVIOUS
<1>3. /\ Idle \in RequestRow
      /\ Idle.presented = Nothing /\ Idle.role = Nothing /\ Idle.version = 0 /\ Idle.code = 0
  BY <1>2 DEF Idle, RequestRow, Operations, Steps
<1> QED
  BY <1>1, <1>3

\* A row that is created holds no code and has version 0.
LEMMA NewUserRow ==
  ASSUME NEW uid \in {Nothing, "own", "demo"}, NEW pw \in Passwords \cup {Nothing},
         NEW role \in Roles
  PROVE  /\ NewUser(uid, pw, role) \in UserRow
         /\ NewUser(uid, pw, role).uid = uid /\ NewUser(uid, pw, role).role = role
         /\ NewUser(uid, pw, role).code = 0 /\ NewUser(uid, pw, role).version = 0
<1>1. 0 \in Nat /\ FALSE \in BOOLEAN
  OBVIOUS
<1> QED
  BY <1>1 DEF NewUser, UserRow

-----------------------------------------------------------------------------
(* What each action changes *)

\* Registering writes the row with the role, keeps the version of a row there was, and
\* leaves a request that looks for the profile of the role.
LEMMA RegisterChange ==
  ASSUME TypeInv, NEW r \in Requests, NEW pw \in Passwords, NEW role \in Roles,
         Register(r, pw, role)
  PROVE  /\ Begins(r, "register", "find")
         /\ requests'[r].role = role /\ requests'[r].version = user'.version
         /\ requests'[r].presented = Nothing
         /\ user' \in UserRow /\ user'.role = role /\ user'.code = 0
         /\ user = NoUser => user'.version = 0
         /\ user # NoUser => user'.version = user.version /\ user'.uid = user.uid
         /\ UNCHANGED <<identity, profiles, tokens, sessions, codes, mailed, resets>>
<1>1. /\ user' \in UserRow /\ user'.role = role /\ user'.code = 0
      /\ user = NoUser => user'.version = 0
      /\ user # NoUser => user'.version = user.version /\ user'.uid = user.uid
  <2>1. CASE user = NoUser
    BY <2>1, NewUserRow DEF Register
  <2>2. CASE user # NoUser
    <3>1. user \in UserRow
      BY <2>2 DEF TypeInv
    <3>2. user' = [user EXCEPT !.password = pw, !.role = role, !.code = 0, !.expired = FALSE]
      BY <2>2 DEF Register
    <3> QED
      BY <2>2, <3>1, <3>2 DEF UserRow
  <2> QED
    BY <2>1, <2>2
<1>2. PICK begun : begun = [Idle EXCEPT !.op = "register", !.at = "find", !.role = role,
                                        !.version = user'.version]
  OBVIOUS
<1>3. user'.version \in Nat
  BY <1>1 DEF UserRow
<1>4. /\ begun \in RequestRow /\ begun.op = "register" /\ begun.at = "find"
      /\ begun.role = role /\ begun.version = user'.version /\ begun.presented = Nothing
  BY <1>2, <1>3, RowsAndValues DEF RequestRow, Operations, Steps
<1>5. Start(r, begun)
  BY <1>2 DEF Register
<1> QED
  BY <1>1, <1>4, <1>5, StartBegins DEF Register

\* A login or a refresh takes role and version of the row away with it.
LEMMA LoginChange ==
  ASSUME TypeInv, NEW r \in Requests,
         \/ \E pw \in Passwords : Login(r, pw)
         \/ \E token \in tokens : Refresh(r, token)
  PROVE  \E op \in {"login", "refresh"} :
         /\ Begins(r, op, "session")
         /\ user \in UserRow
         /\ requests'[r].role = user.role /\ requests'[r].version = user.version
         /\ requests'[r].presented \in {Nothing, user.version}
         /\ UNCHANGED <<identity, user, profiles, tokens, sessions, codes, mailed, resets>>
<1>1. user \in UserRow
  BY DEF Login, Refresh, LocalUserFound, TypeInv
<1>2. user.version \in Nat /\ user.role \in Roles
  BY <1>1 DEF UserRow
<1>3. CASE \E pw \in Passwords : Login(r, pw)
  <2>1. PICK begun : begun = [Idle EXCEPT !.op = "login", !.at = "session", !.role = user.role,
                                          !.version = user.version]
    OBVIOUS
  <2>2. /\ begun \in RequestRow /\ begun.op = "login" /\ begun.at = "session"
        /\ begun.role = user.role /\ begun.version = user.version /\ begun.presented = Nothing
    BY <1>2, <2>1, RowsAndValues DEF RequestRow, Operations, Steps
  <2>3. Start(r, begun)
    BY <1>3, <2>1 DEF Login
  <2>4. UNCHANGED <<identity, user, profiles, tokens, sessions, codes, mailed, resets>>
    BY <1>3 DEF Login
  <2> QED
    BY <1>1, <2>2, <2>3, <2>4, StartBegins
<1>4. CASE \E token \in tokens : Refresh(r, token)
  <2>1. PICK begun : begun = [Idle EXCEPT !.op = "refresh", !.at = "session", !.role = user.role,
                                          !.version = user.version, !.presented = user.version]
    OBVIOUS
  <2>2. /\ begun \in RequestRow /\ begun.op = "refresh" /\ begun.at = "session"
        /\ begun.role = user.role /\ begun.version = user.version
        /\ begun.presented = user.version
    BY <1>2, <2>1, RowsAndValues DEF RequestRow, Operations, Steps
  <2>3. Start(r, begun)
    BY <1>4, <2>1 DEF Refresh, AssertTokenVersion
  <2>4. UNCHANGED <<identity, user, profiles, tokens, sessions, codes, mailed, resets>>
    BY <1>4 DEF Refresh
  <2> QED
    BY <1>1, <2>2, <2>3, <2>4, StartBegins
<1> QED
  BY <1>3, <1>4

\* The metadata of a token names a role or means a student.
LEMMA ToRoleIsRole ==
  ASSUME NEW raw, NEW fallback
  PROVE  ToRole(raw, fallback) \in Roles
BY DEF ToRole, Roles, Profiled

\* Linking leaves the row that is there, and creates one that has none.
LEMMA LinkChange ==
  ASSUME TypeInv, NEW r \in Requests, NEW role \in Roles, Link(r, role)
  PROVE  \E at \in {"find", "failed"} :
         /\ Begins(r, "link", at)
         /\ requests'[r].role = role
         /\ \/ user' = user /\ user # NoUser
            \/ /\ user = NoUser /\ user' \in UserRow /\ user'.role = role
               /\ user'.code = 0 /\ user'.version = 0 /\ at = "find"
         /\ UNCHANGED <<identity, profiles, tokens, sessions, codes, mailed, resets>>
<1>1. /\ identity \in {Nothing, "own", "demo"}
      /\ UNCHANGED <<identity, profiles, tokens, sessions, codes, mailed, resets>>
  BY DEF Link, TypeInv
<1>2. ASSUME NEW at \in {"find", "failed"},
             Start(r, [Idle EXCEPT !.op = "link", !.role = role, !.at = at])
      PROVE  Begins(r, "link", at) /\ requests'[r].role = role
  <2>1. PICK begun : begun = [Idle EXCEPT !.op = "link", !.role = role, !.at = at]
    OBVIOUS
  <2>2. /\ begun \in RequestRow /\ begun.op = "link" /\ begun.at = at /\ begun.role = role
    BY <2>1, RowsAndValues DEF RequestRow, Operations, Steps
  <2> QED
    BY <1>2, <2>1, <2>2, StartBegins
<1>3. CASE user = NoUser
  <2>1. user' = NewUser(identity, Nothing, role)
    BY <1>3 DEF Link
  <2>2. /\ user' \in UserRow /\ user'.role = role /\ user'.code = 0 /\ user'.version = 0
    BY <1>1, <2>1, NewUserRow
  <2>3. [Idle EXCEPT !.op = "link", !.at = "find", !.role = role]
          = [Idle EXCEPT !.op = "link", !.role = role, !.at = "find"]
    BY DEF Idle
  <2>4. Start(r, [Idle EXCEPT !.op = "link", !.role = role, !.at = "find"])
    BY <1>3, <2>3 DEF Link
  <2> QED
    BY <1>1, <1>2, <1>3, <2>2, <2>4
<1>4. CASE user # NoUser
  <2>1. PICK at \in {"find", "failed"} : at = IF user.uid = identity THEN "find" ELSE "failed"
    OBVIOUS
  <2>2. /\ Start(r, [Idle EXCEPT !.op = "link", !.role = role, !.at = at])
        /\ user' = user
    BY <1>4, <2>1 DEF Link
  <2> QED
    BY <1>1, <1>2, <1>4, <2>2
<1> QED
  BY <1>3, <1>4

\* The seed gives the role to the row of its identity, or creates it, and fails otherwise.
LEMMA SeedUserChange ==
  ASSUME TypeInv, NEW r \in Requests, NEW pw \in Passwords, NEW demo \in DemoIdentities,
         SeedUser(r, pw, demo)
  PROVE  \E at \in {"upsert", "failed"} :
         /\ Begins(r, "seed", at)
         /\ requests'[r].role \in Roles
         /\ \/ at = "failed" /\ user' = user
            \/ /\ at = "upsert" /\ user' \in UserRow
               /\ user'.uid = "demo" /\ user'.role = requests'[r].role
               /\ user = NoUser => user'.code = 0 /\ user'.version = 0
               /\ user # NoUser => user'.code = user.code /\ user'.version = user.version
         /\ UNCHANGED <<identity, profiles, tokens, sessions, codes, mailed, resets>>
<1>1. demo.uid = "demo" /\ demo.role \in Roles
  BY DEF DemoIdentities
<1>2. PICK at \in {"upsert", "failed"} :
        at = IF user = NoUser \/ (user # NoUser /\ user.uid = "demo") THEN "upsert" ELSE "failed"
  OBVIOUS
<1>3. PICK begun : begun = [Idle EXCEPT !.op = "seed", !.role = demo.role, !.at = at]
  OBVIOUS
<1>4. begun \in RequestRow /\ begun.op = "seed" /\ begun.at = at /\ begun.role = demo.role
  BY <1>1, <1>3, RowsAndValues DEF RequestRow, Operations, Steps
<1>5. Start(r, begun)
  BY <1>1, <1>2, <1>3 DEF SeedUser
<1>6. Begins(r, "seed", at) /\ requests'[r].role = demo.role
  BY <1>4, <1>5, StartBegins
<1>7. CASE user = NoUser
  <2>1. user' = NewUser("demo", pw, demo.role)
    BY <1>1, <1>7 DEF SeedUser
  <2>2. at = "upsert"
    BY <1>2, <1>7
  <2>3. /\ user' \in UserRow /\ user'.uid = "demo" /\ user'.role = demo.role
        /\ user'.code = 0 /\ user'.version = 0
    BY <1>1, <2>1, NewUserRow
  <2> QED
    BY <1>1, <1>6, <1>7, <2>2, <2>3 DEF SeedUser
<1>8. CASE user # NoUser /\ user.uid = "demo"
  <2>1. user' = [user EXCEPT !.role = demo.role] /\ user \in UserRow
    BY <1>1, <1>8 DEF SeedUser, TypeInv
  <2>2. at = "upsert"
    BY <1>2, <1>8
  <2>3. /\ user' \in UserRow /\ user'.uid = "demo" /\ user'.role = demo.role
        /\ user'.code = user.code /\ user'.version = user.version
    BY <1>1, <1>8, <2>1 DEF UserRow
  <2> QED
    BY <1>1, <1>6, <1>8, <2>2, <2>3 DEF SeedUser
<1>9. CASE user # NoUser /\ user.uid # "demo"
  <2>1. at = "failed" /\ user' = user
    BY <1>1, <1>2, <1>9 DEF SeedUser
  <2> QED
    BY <1>1, <1>6, <2>1 DEF SeedUser
<1> QED
  BY <1>7, <1>8, <1>9

\* The seed leaves a profile of its role, and takes away none.
LEMMA SeedProfileChange ==
  ASSUME TypeInv, NEW r \in Requests, SeedProfile(r)
  PROVE  /\ Moves(r, "seed", "upsert", "done")
         /\ requests[r].role \in Roles
         /\ profiles' \in [Profiled -> {"none", "default", "given"}]
         /\ \A p \in Profiled : profiles[p] # "none" => profiles'[p] # "none"
         /\ requests[r].role # "ADMIN" => profiles'[requests[r].role] # "none"
         /\ UNCHANGED <<identity, user, tokens, sessions, codes, mailed, resets>>
<1>1. /\ requests[r].op = "seed" /\ requests[r].at = "upsert" /\ Goto(r, "done")
      /\ UNCHANGED <<identity, user, tokens, sessions, codes, mailed, resets>>
  BY DEF SeedProfile, At
<1>2. Moves(r, "seed", "upsert", "done")
  BY <1>1, GotoMoves DEF Steps
<1>3. PICK role \in Roles : role = requests[r].role
  BY <1>1 DEF TypeInv, RowOK, RoleOps
<1>4. profiles' = IF role = "ADMIN" \/ profiles[role] # "none" THEN profiles
                  ELSE [profiles EXCEPT ![role] = "given"]
  BY <1>3 DEF SeedProfile
<1>5. profiles \in [Profiled -> {"none", "default", "given"}]
  BY DEF TypeInv
<1>6. role # "ADMIN" => role \in Profiled
  BY DEF Roles
<1>7. /\ profiles' \in [Profiled -> {"none", "default", "given"}]
      /\ \A p \in Profiled : profiles[p] # "none" => profiles'[p] # "none"
      /\ role # "ADMIN" => profiles'[role] # "none"
  BY <1>4, <1>5, <1>6
<1> QED
  BY <1>1, <1>2, <1>3, <1>7

\* The provisioner creates the identity of the demo where the address has none.
LEMMA ProvisionChange ==
  ASSUME TypeInv, NEW r \in Requests, NEW demo \in DemoIdentities,
         Provision(r, demo.uid) \/ ProvisionUpdate(r, demo.uid)
  PROVE  /\ identity' = identity \/ (identity = Nothing /\ identity' = "demo")
         /\ \/ Begins(r, "provision", "done") /\ identity' = "demo"
            \/ Begins(r, "provision", "update")
            \/ Moves(r, "provision", "update", "done") /\ identity' = "demo"
            \/ Moves(r, "provision", "update", "failed")
         /\ UNCHANGED <<user, profiles, tokens, sessions, codes, mailed, resets>>
<1>1. demo.uid = "demo"
  BY DEF DemoIdentities
<1>2. CASE Provision(r, demo.uid)
  <2>1. PICK at \in {"done", "update"} : at = IF identity = Nothing THEN "done" ELSE "update"
    OBVIOUS
  <2>2. PICK begun : begun = [Idle EXCEPT !.op = "provision", !.at = at]
    OBVIOUS
  <2>3. begun \in RequestRow /\ begun.op = "provision" /\ begun.at = at
    BY <2>2, RowsAndValues DEF RequestRow, Operations, Steps
  <2>4. Start(r, begun)
    BY <1>2, <2>1, <2>2 DEF Provision
  <2>5. Begins(r, "provision", at)
    BY <2>3, <2>4, StartBegins
  <2>6. /\ identity' = IF identity = Nothing THEN "demo" ELSE identity
        /\ UNCHANGED <<user, profiles, tokens, sessions, codes, mailed, resets>>
    BY <1>1, <1>2 DEF Provision
  <2> QED
    BY <2>1, <2>5, <2>6
<1>3. CASE ProvisionUpdate(r, demo.uid)
  <2>1. PICK to \in {"done", "failed"} : to = IF identity = "demo" THEN "done" ELSE "failed"
    OBVIOUS
  <2>2. /\ requests[r].op = "provision" /\ requests[r].at = "update" /\ Goto(r, to)
        /\ UNCHANGED <<identity, user, profiles, tokens, sessions, codes, mailed, resets>>
    BY <1>1, <1>3, <2>1 DEF ProvisionUpdate, At
  <2>3. Moves(r, "provision", "update", to)
    BY <2>2, GotoMoves DEF Steps
  <2> QED
    BY <2>1, <2>2, <2>3
<1> QED
  BY <1>2, <1>3

\* Logging out leaves nothing but a request that is done.
LEMMA LogoutChange ==
  ASSUME TypeInv, NEW r \in Requests, Logout(r)
  PROVE  /\ Begins(r, "logout", "done")
         /\ UNCHANGED <<identity, user, profiles, tokens, sessions, codes, mailed, resets>>
<1>1. PICK begun : begun = [Idle EXCEPT !.op = "logout", !.at = "done"]
  OBVIOUS
<1>2. begun \in RequestRow /\ begun.op = "logout" /\ begun.at = "done"
  BY <1>1, RowsAndValues DEF RequestRow, Operations, Steps
<1>3. Start(r, begun)
  BY <1>1 DEF Logout
<1> QED
  BY <1>2, <1>3, StartBegins DEF Logout

\* Looking for the profile ends in success only where there is one or none is needed.
LEMMA FindProfileChange ==
  ASSUME TypeInv, NEW r \in Requests, FindProfile(r)
  PROVE  \E op \in {"register", "link"}, to \in {"create", "rename", "session", "done"} :
         /\ Moves(r, op, "find", to)
         /\ requests[r].role \in Roles
         /\ to = "create" => requests[r].role # "ADMIN"
         /\ to = "rename" => op = "link" /\ requests[r].role = "STUDENT"
         /\ to \in {"rename", "session", "done"} =>
              requests[r].role = "ADMIN" \/ profiles[requests[r].role] # "none"
         /\ to = "session" => op = "register"
         /\ to = "done" => op = "link"
         /\ UNCHANGED <<identity, user, profiles, tokens, sessions, codes, mailed, resets>>
<1>1. PICK op \in {"register", "link"} : requests[r].op = op /\ requests[r].at = "find"
  BY OpOfStep DEF FindProfile
<1>2. PICK role \in Roles : requests[r].role = role
  BY <1>1 DEF TypeInv, RowOK, RoleOps
<1>3. PICK to : to = IF role = "ADMIN" THEN AfterProfile(r)
                ELSE IF profiles[role] = "none" THEN "create"
                ELSE IF op = "link" /\ role = "STUDENT" /\ profiles[role] = "default"
                  THEN "rename" ELSE AfterProfile(r)
  OBVIOUS
<1>4. /\ Goto(r, to)
      /\ UNCHANGED <<identity, user, profiles, tokens, sessions, codes, mailed, resets>>
  BY <1>1, <1>2, <1>3 DEF FindProfile
<1>5. /\ to \in {"create", "rename", "session", "done"}
      /\ to = "create" => role # "ADMIN"
      /\ to = "rename" => op = "link" /\ role = "STUDENT"
      /\ to \in {"rename", "session", "done"} => role = "ADMIN" \/ profiles[role] # "none"
      /\ to = "session" => op = "register"
      /\ to = "done" => op = "link"
  BY <1>1, <1>3 DEF AfterProfile
<1>6. Moves(r, op, "find", to)
  BY <1>1, <1>4, <1>5, GotoMoves DEF Steps
<1> QED
  BY <1>2, <1>4, <1>5, <1>6

\* Creating the profile succeeds only by creating it.
LEMMA CreateProfileChange ==
  ASSUME TypeInv, NEW r \in Requests, CreateProfile(r)
  PROVE  \E op \in {"register", "link"}, to \in {"session", "done", "failed"} :
         /\ Moves(r, op, "create", to)
         /\ requests[r].role \in Roles
         /\ to = "session" => op = "register"
         /\ to = "done" => op = "link"
         /\ profiles' \in [Profiled -> {"none", "default", "given"}]
         /\ \A p \in Profiled : profiles[p] # "none" => profiles'[p] # "none"
         /\ to # "failed" => profiles'[requests[r].role] # "none"
         /\ UNCHANGED <<identity, user, tokens, sessions, codes, mailed, resets>>
<1>1. PICK op \in {"register", "link"} : requests[r].op = op /\ requests[r].at = "create"
  BY OpOfStep DEF CreateProfile
<1>2. PICK role \in Roles : requests[r].role = role
  BY <1>1 DEF TypeInv, RowOK, RoleOps
<1>3. role \in Profiled
  BY <1>1, <1>2 DEF TypeInv, RowOK, Roles
<1>4. profiles \in [Profiled -> {"none", "default", "given"}]
  BY DEF TypeInv
<1>5. CASE profiles[role] = "none"
  <2>1. PICK to : to = AfterProfile(r)
    OBVIOUS
  <2>2. to = IF op = "link" THEN "done" ELSE "session"
    BY <1>1, <2>1 DEF AfterProfile
  <2>3. PICK name \in {"given", "default"} : name = IF op = "link" THEN "given" ELSE "default"
    OBVIOUS
  <2>4. /\ Goto(r, to) /\ profiles' = [profiles EXCEPT ![role] = name]
        /\ UNCHANGED <<identity, user, tokens, sessions, codes, mailed, resets>>
    BY <1>1, <1>2, <1>5, <2>1, <2>3 DEF CreateProfile
  <2>5. Moves(r, op, "create", to)
    BY <1>1, <2>2, <2>4, GotoMoves DEF Steps
  <2>6. /\ profiles' \in [Profiled -> {"none", "default", "given"}]
        /\ \A p \in Profiled : profiles[p] # "none" => profiles'[p] # "none"
        /\ profiles'[role] # "none"
    BY <1>3, <1>4, <2>3, <2>4
  <2> QED
    BY <1>2, <2>2, <2>4, <2>5, <2>6
<1>6. CASE profiles[role] # "none"
  <2>1. /\ Goto(r, "failed") /\ profiles' = profiles
        /\ UNCHANGED <<identity, user, tokens, sessions, codes, mailed, resets>>
    BY <1>2, <1>6 DEF CreateProfile
  <2>2. Moves(r, op, "create", "failed")
    BY <1>1, <2>1, GotoMoves DEF Steps
  <2> QED
    BY <1>2, <1>4, <2>1, <2>2
<1> QED
  BY <1>5, <1>6

\* Renaming leaves every profile there is.
LEMMA RenameChange ==
  ASSUME TypeInv, NEW r \in Requests, RenameStudent(r)
  PROVE  /\ Moves(r, "link", "rename", "done")
         /\ profiles' \in [Profiled -> {"none", "default", "given"}]
         /\ \A p \in Profiled : profiles[p] # "none" => profiles'[p] # "none"
         /\ UNCHANGED <<identity, user, tokens, sessions, codes, mailed, resets>>
<1>1. /\ requests[r].at = "rename" /\ Goto(r, "done")
      /\ profiles' = [profiles EXCEPT !["STUDENT"] = "given"]
      /\ UNCHANGED <<identity, user, tokens, sessions, codes, mailed, resets>>
  BY DEF RenameStudent
<1>2. Moves(r, "link", "rename", "done")
  BY <1>1, OpOfStep, GotoMoves DEF Steps
<1>3. profiles \in [Profiled -> {"none", "default", "given"}]
  BY DEF TypeInv
<1> QED
  BY <1>1, <1>2, <1>3

\* An answer carries what the request took away with it.
LEMMA SessionChange ==
  ASSUME TypeInv, NEW r \in Requests, BuildSession(r)
  PROVE  \E s, token :
         /\ requests[r].op \in {"register", "login", "refresh"}
         /\ Moves(r, requests[r].op, "session", "done")
         /\ s.version = requests[r].version /\ s.presented = requests[r].presented
         /\ s.resetsBefore = Cardinality(requests[r].resetsBefore)
         /\ token.version = requests[r].version
         /\ sessions' = sessions \cup {s} /\ tokens' = tokens \cup {token}
         /\ UNCHANGED <<identity, user, profiles, codes, mailed, resets>>
<1>1. PICK op \in {"register", "login", "refresh"} :
        requests[r].op = op /\ requests[r].at = "session"
  BY OpOfStep DEF BuildSession
<1>2. PICK s : s = [version |-> requests[r].version, presented |-> requests[r].presented,
                    resetsBefore |-> Cardinality(requests[r].resetsBefore)]
  OBVIOUS
<1>3. PICK token : token = SignRefreshToken(requests[r].version, requests[r].role)
  OBVIOUS
<1>4. /\ Goto(r, "done")
      /\ sessions' = sessions \cup {s} /\ tokens' = tokens \cup {token}
      /\ UNCHANGED <<identity, user, profiles, codes, mailed, resets>>
  BY <1>2, <1>3 DEF BuildSession
<1>5. Moves(r, op, "session", "done")
  BY <1>1, <1>4, GotoMoves DEF Steps
<1>6. /\ s.version = requests[r].version /\ s.presented = requests[r].presented
      /\ s.resetsBefore = Cardinality(requests[r].resetsBefore)
      /\ token.version = requests[r].version
  BY <1>2, <1>3 DEF SignRefreshToken
<1>7. /\ requests[r].op \in {"register", "login", "refresh"}
      /\ Moves(r, requests[r].op, "session", "done")
  BY <1>1, <1>5
<1> WITNESS s, token
<1> QED
  BY <1>4, <1>6, <1>7

\* Asking for a code generates the next one.
LEMMA ForgotChange ==
  ASSUME TypeInv, NEW r \in Requests, Forgot(r)
  PROVE  /\ Begins(r, "forgot", "store")
         /\ codes' = codes + 1 /\ codes' \in Nat /\ requests'[r].code = codes + 1
         /\ user \in UserRow
         /\ UNCHANGED <<identity, user, profiles, tokens, sessions, mailed, resets>>
<1>1. codes \in Nat
  BY DEF TypeInv
<1>2. codes + 1 \in Nat
  BY <1>1
<1>3. PICK begun : begun = [Idle EXCEPT !.op = "forgot", !.at = "store", !.code = codes + 1]
  OBVIOUS
<1>4. /\ begun \in RequestRow /\ begun.op = "forgot" /\ begun.at = "store"
      /\ begun.code = codes + 1
  BY <1>2, <1>3, RowsAndValues DEF RequestRow, Operations, Steps
<1>5. Start(r, begun)
  BY <1>3 DEF Forgot
<1>6. user \in UserRow
  BY DEF Forgot, LocalUserFound, TypeInv
<1> QED
  BY <1>2, <1>4, <1>5, <1>6, StartBegins DEF Forgot

\* The code is stored in the row, which is there because rows are never deleted.
LEMMA StoreChange ==
  ASSUME TypeInv, NEW r \in Requests, StoreCode(r)
  PROVE  /\ Moves(r, "forgot", "store", "mail")
         /\ user' \in UserRow /\ user'.code = requests[r].code /\ user'.uid = user.uid
         /\ user'.role = user.role /\ user'.version = user.version
         /\ UNCHANGED <<identity, profiles, tokens, sessions, codes, mailed, resets>>
<1>1. /\ requests[r].op = "forgot" /\ requests[r].at = "store" /\ Goto(r, "mail")
      /\ user' = [user EXCEPT !.code = requests[r].code, !.expired = FALSE]
      /\ UNCHANGED <<identity, profiles, tokens, sessions, codes, mailed, resets>>
  BY DEF StoreCode, At
<1>2. user \in UserRow /\ requests[r] \in RequestRow
  BY <1>1 DEF TypeInv, RowOK
<1>3. requests[r].code \in Nat
  BY <1>2 DEF RequestRow
<1>4. /\ user' \in UserRow /\ user'.code = requests[r].code /\ user'.uid = user.uid
      /\ user'.role = user.role /\ user'.version = user.version
  BY <1>1, <1>2, <1>3 DEF UserRow
<1> QED
  BY <1>1, <1>4, GotoMoves DEF Steps

\* The code stored is the one that is mailed.
LEMMA MailChange ==
  ASSUME TypeInv, NEW r \in Requests, Mail(r)
  PROVE  /\ Moves(r, "forgot", "mail", "done")
         /\ mailed' = mailed \cup {requests[r].code}
         /\ UNCHANGED <<identity, user, profiles, tokens, sessions, codes, resets>>
BY GotoMoves DEF Mail, At, Steps

\* A code that expires stays in the row.
LEMMA ExpireChange ==
  ASSUME TypeInv, ExpireCode
  PROVE  /\ user \in UserRow /\ user' \in UserRow
         /\ user'.code = user.code /\ user'.uid = user.uid
         /\ user'.role = user.role /\ user'.version = user.version
         /\ UNCHANGED <<identity, profiles, requests, tokens, sessions, codes, mailed, resets>>
<1>1. user \in UserRow /\ user' = [user EXCEPT !.expired = TRUE]
  BY DEF ExpireCode, TypeInv
<1> QED
  BY <1>1 DEF ExpireCode, UserRow

\* A confirmation starts with the code of the row.
LEMMA ConfirmChange ==
  ASSUME TypeInv, NEW r \in Requests, NEW code \in mailed, Confirm(r, code)
  PROVE  /\ Begins(r, "confirm", "write")
         /\ user \in UserRow /\ user.code = code /\ requests'[r].code = code
         /\ UNCHANGED <<identity, user, profiles, tokens, sessions, codes, mailed, resets>>
<1>1. user \in UserRow /\ user.code = code
  BY DEF Confirm, LocalUserFound, TypeInv
<1>2. code \in Nat
  BY <1>1 DEF UserRow
<1>3. PICK begun : begun = [Idle EXCEPT !.op = "confirm", !.at = "write", !.code = code]
  OBVIOUS
<1>4. begun \in RequestRow /\ begun.op = "confirm" /\ begun.at = "write" /\ begun.code = code
  BY <1>2, <1>3, RowsAndValues DEF RequestRow, Operations, Steps
<1>5. Start(r, begun)
  BY <1>3 DEF Confirm
<1> QED
  BY <1>1, <1>4, <1>5, StartBegins DEF Confirm

\* The write takes the code out of the row and raises its version by one.
LEMMA WriteChange ==
  ASSUME TypeInv, NEW r \in Requests, NEW pw \in Passwords, WritePassword(r, pw)
  PROVE  /\ Moves(r, "confirm", "write", "done")
         /\ user \in UserRow /\ user' \in UserRow
         /\ user'.code = 0 /\ user'.version = user.version + 1
         /\ user'.uid = user.uid /\ user'.role = user.role
         /\ resets' = resets \cup {r}
         /\ UNCHANGED <<identity, profiles, tokens, sessions, codes, mailed>>
<1>1. user \in UserRow
  BY DEF WritePassword, At, TypeInv, RowOK
<1>2. PICK next : next = user.version + 1
  OBVIOUS
<1>3. next \in Nat
  BY <1>1, <1>2 DEF UserRow
<1>4. user' = [user EXCEPT !.password = pw, !.code = 0, !.expired = FALSE, !.version = next]
  BY <1>2 DEF WritePassword
<1>5. /\ user' \in UserRow /\ user'.code = 0 /\ user'.version = next
      /\ user'.uid = user.uid /\ user'.role = user.role
  BY <1>1, <1>3, <1>4 DEF UserRow
<1> QED
  BY <1>1, <1>2, <1>5, GotoMoves DEF WritePassword, At, Steps

\* A failure leaves what was written.
LEMMA FailChange ==
  ASSUME TypeInv, NEW r \in Requests, Fail(r)
  PROVE  \E op \in Operations \ {"none", "logout"}, from \in Steps \ {"idle", "done", "failed"} :
         /\ Moves(r, op, from, "failed")
         /\ UNCHANGED <<identity, user, profiles, tokens, sessions, codes, mailed, resets>>
<1>1. /\ requests[r].at \notin {"idle", "done", "failed"} /\ Goto(r, "failed")
      /\ UNCHANGED <<identity, user, profiles, tokens, sessions, codes, mailed, resets>>
  BY DEF Fail
<1>2. requests[r] \in RequestRow /\ requests[r].at \in AtOf(requests[r].op)
  BY DEF TypeInv, RowOK
<1>3. requests[r].at \in Steps \ {"idle", "done", "failed"} /\ requests[r].op \in Operations
  BY <1>1, <1>2 DEF RequestRow
<1>4. requests[r].op # "none" /\ requests[r].op # "logout"
  BY <1>2, <1>3 DEF AtOf
<1>5. Moves(r, requests[r].op, requests[r].at, "failed")
  BY <1>1, GotoMoves DEF Steps
<1> QED
  BY <1>1, <1>3, <1>4, <1>5

-----------------------------------------------------------------------------

\* A step of a request is one of the actions; a link is about a role.
LEMMA StepCases ==
  ASSUME NEW r \in Requests, SessionStep(r)
  PROVE  \/ \E pw \in Passwords, role \in Roles : Register(r, pw, role)
         \/ \E pw \in Passwords, demo \in DemoIdentities : SeedUser(r, pw, demo)
         \/ (\E pw \in Passwords : Login(r, pw)) \/ \E token \in tokens : Refresh(r, token)
         \/ \E pw \in Passwords : WritePassword(r, pw)
         \/ \E role \in Roles : Link(r, role)
         \/ \E demo \in DemoIdentities : Provision(r, demo.uid) \/ ProvisionUpdate(r, demo.uid)
         \/ SeedProfile(r) \/ Logout(r) \/ FindProfile(r) \/ CreateProfile(r)
         \/ RenameStudent(r) \/ BuildSession(r) \/ Forgot(r) \/ StoreCode(r) \/ Mail(r)
         \/ \E code \in mailed : Confirm(r, code)
         \/ Fail(r)
<1>1. (\E raw \in Roles \cup {"other", Nothing}, fallback \in Roles \cup {"other"} :
         Link(r, ToRole(raw, fallback)))
        => \E role \in Roles : Link(r, role)
  BY ToRoleIsRole
<1> QED
  BY <1>1 DEF SessionStep

\* The rows of the other requests stay as they are typed when one takes a step.
LEMMA OthersStay ==
  ASSUME TypeInv, NEW r \in Requests, \A q \in Requests : q # r => requests'[q] = requests[q],
         codes' = codes \/ codes' = codes + 1, user = NoUser \/ user' # NoUser,
         RowOK(r)'
  PROVE  \A q \in Requests : RowOK(q)'
<1>1. SUFFICES ASSUME NEW q \in Requests, q # r PROVE RowOK(q)'
  OBVIOUS
<1>2. RowOK(q) /\ requests'[q] = requests[q] /\ codes \in Nat
  BY <1>1 DEF TypeInv
<1>3. \A c \in 1..codes : c \in 1..(codes')
  BY <1>2
<1> QED
  BY <1>2, <1>3 DEF RowOK

\* The initial state is typed.
LEMMA InitTypes == SessionsInit => TypeInv
<1> SUFFICES ASSUME SessionsInit PROVE TypeInv
  OBVIOUS
<1>1. identity = Nothing /\ requests = [r \in Requests |-> Idle] /\ codes = 0
      /\ mailed = {} /\ resets = {}
  BY DEF SessionsInit
<1>2. /\ user \in UserRow \cup {NoUser}
      /\ profiles \in [Profiled -> {"none", "default", "given"}]
      /\ \A t \in tokens : t.version \in Nat
  <2>1. CASE user = NoUser /\ tokens = {} /\ profiles = [r \in Profiled |-> "none"]
    BY <2>1
  <2>2. CASE /\ \E pw \in Passwords : user = NewUser(Nothing, pw, "STUDENT")
             /\ tokens = {SignRefreshToken(0, "STUDENT")}
             /\ profiles = [r \in Profiled |-> IF r = "STUDENT" THEN "default" ELSE "none"]
    <3>1. user \in UserRow
      BY <2>2, NewUserRow DEF Roles, Profiled
    <3>2. \A t \in tokens : t.version \in Nat
      BY <2>2 DEF SignRefreshToken
    <3> QED
      BY <2>2, <3>1, <3>2
  <2> QED
    BY <2>1, <2>2 DEF SessionsInit
<1>3. requests \in [Requests -> RequestRow]
  BY <1>1, RowsAndValues
<1>4. ASSUME NEW r \in Requests PROVE RowOK(r)
  BY <1>1 DEF RowOK, Idle, AtOf, RoleOps
<1> QED
  BY <1>1, <1>2, <1>3, <1>4 DEF TypeInv

\* Every step keeps the types.
LEMMA NextTypes == TypeInv /\ [SessionsNext]_sessionVars => TypeInv'
<1> SUFFICES ASSUME TypeInv, [SessionsNext]_sessionVars PROVE TypeInv'
  OBVIOUS
<1>1. CASE UNCHANGED sessionVars
  BY <1>1 DEF TypeInv, RowOK, sessionVars
<1>2. CASE ExpireCode
  <2>1. user' # NoUser
    BY <1>2, ExpireChange, RowsAndValues
  <2> QED
    BY <1>2, <2>1, ExpireChange DEF TypeInv, RowOK
<1>3. CASE SignUp
  BY <1>3 DEF SignUp, TypeInv, RowOK
<1>4. CASE \E r \in Requests : SessionStep(r)
  <2>1. PICK r \in Requests : SessionStep(r)
    BY <1>4
  <2> DEFINE Rows ==
        /\ requests' \in [Requests -> RequestRow]
        /\ \A q \in Requests : q # r => requests'[q] = requests[q]
        /\ RowOK(r)'
  <2>2. CASE \E pw \in Passwords, role \in Roles : Register(r, pw, role)
    <3>1. /\ Rows /\ user' \in UserRow
          /\ UNCHANGED <<identity, profiles, tokens, sessions, codes, mailed, resets>>
      BY <2>2, RegisterChange DEF Begins, RowOK, AtOf, RoleOps
    <3> QED
      BY <3>1, OthersStay, RowsAndValues DEF TypeInv
  <2>3. CASE \E pw \in Passwords, demo \in DemoIdentities : SeedUser(r, pw, demo)
    <3>1. /\ Rows /\ user' \in UserRow \cup {user}
          /\ UNCHANGED <<identity, profiles, tokens, sessions, codes, mailed, resets>>
      BY <2>3, SeedUserChange DEF Begins, RowOK, AtOf, RoleOps
    <3> QED
      BY <3>1, OthersStay, RowsAndValues DEF TypeInv
  <2>4. CASE (\E pw \in Passwords : Login(r, pw)) \/ \E token \in tokens : Refresh(r, token)
    <3>1. /\ Rows
          /\ UNCHANGED <<identity, user, profiles, tokens, sessions, codes, mailed, resets>>
      BY <2>4, LoginChange DEF Begins, RowOK, AtOf, RoleOps, UserRow
    <3> QED
      BY <3>1, OthersStay DEF TypeInv
  <2>5. CASE \E pw \in Passwords : WritePassword(r, pw)
    <3>1. /\ Rows /\ user' \in UserRow /\ resets' = resets \cup {r}
          /\ UNCHANGED <<identity, profiles, tokens, sessions, codes, mailed>>
      BY <2>5, WriteChange, RowsAndValues DEF Moves, RowOK, AtOf, RoleOps
    <3> QED
      BY <3>1, OthersStay, RowsAndValues DEF TypeInv
  <2>6. CASE \E role \in Roles : Link(r, role)
    <3>1. /\ Rows /\ user' \in UserRow \cup {user}
          /\ UNCHANGED <<identity, profiles, tokens, sessions, codes, mailed, resets>>
      BY <2>6, LinkChange DEF Begins, RowOK, AtOf, RoleOps
    <3> QED
      BY <3>1, OthersStay, RowsAndValues DEF TypeInv
  <2>7. CASE \E demo \in DemoIdentities : Provision(r, demo.uid) \/ ProvisionUpdate(r, demo.uid)
    <3>1. /\ Rows /\ identity' \in {"demo", identity}
          /\ UNCHANGED <<user, profiles, tokens, sessions, codes, mailed, resets>>
      BY <2>7, ProvisionChange DEF Begins, Moves, RowOK, AtOf, RoleOps
    <3> QED
      BY <3>1, OthersStay DEF TypeInv
  <2>8. CASE SeedProfile(r)
    <3>1. /\ Rows /\ profiles' \in [Profiled -> {"none", "default", "given"}]
          /\ UNCHANGED <<identity, user, tokens, sessions, codes, mailed, resets>>
      BY <2>8, SeedProfileChange DEF Moves, RowOK, AtOf, RoleOps
    <3> QED
      BY <3>1, OthersStay DEF TypeInv
  <2>9. CASE Logout(r)
    <3>1. /\ Rows
          /\ UNCHANGED <<identity, user, profiles, tokens, sessions, codes, mailed, resets>>
      BY <2>9, LogoutChange DEF Begins, RowOK, AtOf, RoleOps
    <3> QED
      BY <3>1, OthersStay DEF TypeInv
  <2>10. CASE FindProfile(r)
    <3>1. /\ Rows
          /\ UNCHANGED <<identity, user, profiles, tokens, sessions, codes, mailed, resets>>
      BY <2>10, FindProfileChange DEF Moves, RowOK, AtOf, RoleOps
    <3> QED
      BY <3>1, OthersStay DEF TypeInv
  <2>11. CASE CreateProfile(r)
    <3>1. /\ Rows /\ profiles' \in [Profiled -> {"none", "default", "given"}]
          /\ UNCHANGED <<identity, user, tokens, sessions, codes, mailed, resets>>
      BY <2>11, CreateProfileChange DEF Moves, RowOK, AtOf, RoleOps
    <3> QED
      BY <3>1, OthersStay DEF TypeInv
  <2>12. CASE RenameStudent(r)
    <3>1. RowOK(r)
      BY DEF TypeInv
    <3>2. /\ Rows /\ profiles' \in [Profiled -> {"none", "default", "given"}]
          /\ UNCHANGED <<identity, user, tokens, sessions, codes, mailed, resets>>
      BY <2>12, <3>1, RenameChange DEF Moves, RowOK, AtOf, RoleOps
    <3> QED
      BY <3>2, OthersStay DEF TypeInv
  <2>13. CASE BuildSession(r)
    <3>1. RowOK(r) /\ requests[r] \in RequestRow
      BY DEF TypeInv
    <3>2. PICK token : /\ token.version = requests[r].version
                       /\ tokens' = tokens \cup {token}
                       /\ UNCHANGED <<identity, user, profiles, codes, mailed, resets>>
      BY <2>13, SessionChange
    <3>3. Rows
      BY <2>13, <3>1, <3>2, SessionChange DEF Moves, RowOK, AtOf, RoleOps
    <3>4. token.version \in Nat
      BY <3>1, <3>2 DEF RequestRow
    <3> QED
      BY <3>2, <3>3, <3>4, OthersStay DEF TypeInv
  <2>14. CASE Forgot(r)
    <3>1. /\ codes \in Nat /\ codes' = codes + 1 /\ codes' \in Nat
          /\ user \in UserRow /\ mailed \subseteq 1..codes
          /\ UNCHANGED <<identity, user, profiles, tokens, sessions, mailed, resets>>
      BY <2>14, ForgotChange DEF TypeInv
    <3>2. codes + 1 \in 1..(codes') /\ mailed' \subseteq 1..(codes')
      BY <3>1
    <3>3. Rows
      BY <2>14, <3>1, <3>2, ForgotChange, RowsAndValues DEF Begins, RowOK, AtOf, RoleOps
    <3> QED
      BY <3>1, <3>2, <3>3, OthersStay DEF TypeInv
  <2>15. CASE StoreCode(r)
    <3>1. RowOK(r)
      BY DEF TypeInv
    <3>2. /\ Rows /\ user' \in UserRow
          /\ UNCHANGED <<identity, profiles, tokens, sessions, codes, mailed, resets>>
      BY <2>15, <3>1, StoreChange, RowsAndValues DEF Moves, RowOK, AtOf, RoleOps
    <3> QED
      BY <3>2, OthersStay, RowsAndValues DEF TypeInv
  <2>16. CASE Mail(r)
    <3>1. RowOK(r)
      BY DEF TypeInv
    <3>2. /\ Rows /\ mailed' = mailed \cup {requests[r].code} /\ requests[r].code \in 1..codes
          /\ UNCHANGED <<identity, user, profiles, tokens, sessions, codes, resets>>
      BY <2>16, <3>1, MailChange DEF Moves, RowOK, AtOf, RoleOps
    <3> QED
      BY <3>2, OthersStay DEF TypeInv
  <2>17. CASE \E code \in mailed : Confirm(r, code)
    <3>1. /\ Rows
          /\ UNCHANGED <<identity, user, profiles, tokens, sessions, codes, mailed, resets>>
      BY <2>17, ConfirmChange, RowsAndValues DEF Begins, RowOK, AtOf, RoleOps
    <3> QED
      BY <3>1, OthersStay DEF TypeInv
  <2>18. CASE Fail(r)
    <3>1. RowOK(r)
      BY DEF TypeInv
    <3>2. /\ Rows
          /\ UNCHANGED <<identity, user, profiles, tokens, sessions, codes, mailed, resets>>
      BY <2>18, <3>1, FailChange DEF Moves, RowOK, AtOf, Operations
    <3> QED
      BY <3>2, OthersStay DEF TypeInv
  <2> QED
    BY <2>1, <2>2, <2>3, <2>4, <2>5, <2>6, <2>7, <2>8, <2>9, <2>10, <2>11, <2>12, <2>13,
       <2>14, <2>15, <2>16, <2>17, <2>18, StepCases
<1> QED
  BY <1>1, <1>2, <1>3, <1>4 DEF SessionsNext

\* The rows of the address, of its requests and of the tokens keep their types.
THEOREM SessionsTypeCorrect == SessionsSpec => []TypeInv
BY InitTypes, NextTypes, PTL DEF SessionsSpec

-----------------------------------------------------------------------------
(* Versions *)

\* A request that will hand out tokens took away a version that counts the resets there
\* were when it began, and was shown no other.
Versioned(r) ==
  requests[r].op \in {"register", "login", "refresh"} =>
    /\ requests[r].version = Cardinality(requests[r].resetsBefore)
    /\ requests[r].presented \in {Nothing, requests[r].version}

\* The version of the row counts the resets that have been answered: what
\* ResetRevokesSessions rests on, for it compares a version with a number of resets.
VersionInv ==
  /\ IsFiniteSet(resets)
  /\ user = NoUser => resets = {}
  /\ user # NoUser => user.version = Cardinality(resets)
  /\ \A r \in resets : requests[r].op = "confirm" /\ requests[r].at = "done"
  /\ \A r \in Requests : Versioned(r)
  /\ ResetRevokesSessions

\* A row that is written with the version it had, or created with version 0, while a
\* request takes a step that settles no reset and answers nothing.
LEMMA VersionsStay ==
  ASSUME TypeInv, VersionInv, NEW r \in Requests, requests[r].at # "done",
         \A q \in Requests : q # r => requests'[q] = requests[q],
         Versioned(r)',
         \/ user' = user
         \/ /\ user' \in UserRow
            /\ user = NoUser => user'.version = 0
            /\ user # NoUser => user'.version = user.version,
         UNCHANGED <<sessions, resets>>
  PROVE  VersionInv'
<1>1. r \notin resets /\ resets \subseteq Requests
  BY DEF TypeInv, VersionInv
<1>2. /\ user' = NoUser => resets' = {}
      /\ user' # NoUser => user'.version = Cardinality(resets')
  BY RowsAndValues, FS_EmptySet DEF VersionInv
<1>3. \A q \in resets' : requests'[q].op = "confirm" /\ requests'[q].at = "done"
  BY <1>1 DEF VersionInv
<1>4. \A q \in Requests : Versioned(q)'
  BY DEF VersionInv, Versioned
<1>5. IsFiniteSet(resets') /\ ResetRevokesSessions'
  BY DEF VersionInv, ResetRevokesSessions
<1> QED
  BY <1>2, <1>3, <1>4, <1>5 DEF VersionInv

\* Initially no password has been reset.
LEMMA InitVersions == SessionsInit => VersionInv
<1> SUFFICES ASSUME SessionsInit PROVE VersionInv
  OBVIOUS
<1>1. resets = {} /\ sessions = {} /\ requests = [r \in Requests |-> Idle]
  BY DEF SessionsInit
<1>2. IsFiniteSet({}) /\ Cardinality({}) = 0
  BY FS_EmptySet
<1>3. user # NoUser => user.version = 0
  BY NewUserRow DEF SessionsInit, Roles, Profiled
<1>4. \A r \in Requests : Versioned(r)
  BY <1>1 DEF Versioned, Idle
<1> QED
  BY <1>1, <1>2, <1>3, <1>4 DEF VersionInv, ResetRevokesSessions

\* The version keeps counting the resets.
LEMMA NextVersions ==
  TypeInv /\ VersionInv /\ [SessionsNext]_sessionVars => VersionInv'
<1> SUFFICES ASSUME TypeInv, VersionInv, [SessionsNext]_sessionVars PROVE VersionInv'
  OBVIOUS
<1>1. CASE UNCHANGED sessionVars
  BY <1>1 DEF VersionInv, Versioned, ResetRevokesSessions, sessionVars
<1>2. CASE ExpireCode
  <2>1. /\ user # NoUser /\ user' # NoUser /\ user'.version = user.version
        /\ UNCHANGED <<requests, sessions, resets>>
    BY <1>2, ExpireChange, RowsAndValues
  <2> QED
    BY <2>1 DEF VersionInv, Versioned, ResetRevokesSessions
<1>3. CASE SignUp
  BY <1>3 DEF SignUp, VersionInv, Versioned, ResetRevokesSessions
<1>4. CASE \E r \in Requests : SessionStep(r)
  <2>1. PICK r \in Requests : SessionStep(r)
    BY <1>4
  <2>2. Versioned(r)
    BY DEF VersionInv
  <2>3. CASE \E pw \in Passwords, role \in Roles : Register(r, pw, role)
    <3>1. /\ Begins(r, "register", "find")
          /\ requests'[r].version = user'.version /\ requests'[r].presented = Nothing
          /\ user' \in UserRow
          /\ user = NoUser => user'.version = 0
          /\ user # NoUser => user'.version = user.version
          /\ UNCHANGED <<sessions, resets>>
      BY <2>3, RegisterChange
    <3>2. user'.version = Cardinality(resets)
      BY <3>1, FS_EmptySet DEF VersionInv
    <3>3. Versioned(r)'
      BY <3>1, <3>2 DEF Begins, Versioned
    <3> QED
      BY <3>1, <3>3, VersionsStay DEF Begins
  <2>4. CASE (\E pw \in Passwords : Login(r, pw)) \/ \E token \in tokens : Refresh(r, token)
    <3>1. PICK op \in {"login", "refresh"} :
            /\ Begins(r, op, "session") /\ user \in UserRow
            /\ requests'[r].version = user.version
            /\ requests'[r].presented \in {Nothing, user.version}
            /\ UNCHANGED <<user, sessions, resets>>
      BY <2>4, LoginChange
    <3>2. user.version = Cardinality(resets)
      BY <3>1, RowsAndValues DEF VersionInv
    <3>3. Versioned(r)'
      BY <3>1, <3>2 DEF Begins, Versioned
    <3> QED
      BY <3>1, <3>3, VersionsStay DEF Begins
  <2>5. CASE \E pw \in Passwords : WritePassword(r, pw)
    <3>1. /\ Moves(r, "confirm", "write", "done")
          /\ user \in UserRow /\ user' \in UserRow /\ user'.version = user.version + 1
          /\ resets' = resets \cup {r} /\ sessions' = sessions
      BY <2>5, WriteChange
    <3>2. r \notin resets /\ IsFiniteSet(resets) /\ resets \subseteq Requests
      BY <3>1 DEF Moves, TypeInv, VersionInv
    <3>3. IsFiniteSet(resets') /\ Cardinality(resets') = Cardinality(resets) + 1
      BY <3>1, <3>2, FS_AddElement
    <3>4. user # NoUser /\ user' # NoUser
      BY <3>1, RowsAndValues
    <3>5. user'.version = Cardinality(resets')
      BY <3>1, <3>3, <3>4 DEF VersionInv
    <3>6. \A q \in resets' : requests'[q].op = "confirm" /\ requests'[q].at = "done"
      BY <3>1, <3>2 DEF Moves, VersionInv
    <3>7. \A q \in Requests : Versioned(q)'
      BY <3>1 DEF Moves, VersionInv, Versioned
    <3>8. ResetRevokesSessions'
      BY <3>1 DEF VersionInv, ResetRevokesSessions
    <3> QED
      BY <3>3, <3>4, <3>5, <3>6, <3>7, <3>8 DEF VersionInv
  <2>6. CASE BuildSession(r)
    <3>1. PICK s :
            /\ requests[r].op \in {"register", "login", "refresh"}
            /\ Moves(r, requests[r].op, "session", "done")
            /\ s.version = requests[r].version /\ s.presented = requests[r].presented
            /\ s.resetsBefore = Cardinality(requests[r].resetsBefore)
            /\ sessions' = sessions \cup {s}
            /\ UNCHANGED <<user, resets>>
      BY <2>6, SessionChange
    <3>2. /\ s.version = s.resetsBefore /\ s.presented \in {Nothing, s.version}
          /\ s.version \in Nat
      <4>1. requests[r] \in RequestRow
        BY DEF TypeInv
      <4> QED
        BY <2>2, <3>1, <4>1 DEF Moves, Versioned, RequestRow
    <3>3. ResetRevokesSessions'
      BY <3>1, <3>2 DEF VersionInv, ResetRevokesSessions
    <3>4. \A q \in Requests : Versioned(q)'
      BY <3>1 DEF Moves, VersionInv, Versioned
    <3>5. \A q \in resets' : requests'[q].op = "confirm" /\ requests'[q].at = "done"
      BY <3>1 DEF Moves, VersionInv, TypeInv
    <3> QED
      BY <3>1, <3>3, <3>4, <3>5 DEF VersionInv
  <2>7. CASE \E pw \in Passwords, demo \in DemoIdentities : SeedUser(r, pw, demo)
    BY <2>7, SeedUserChange, VersionsStay DEF Begins, Versioned
  <2>8. CASE \E role \in Roles : Link(r, role)
    BY <2>8, LinkChange, VersionsStay DEF Begins, Versioned
  <2>9. CASE \E demo \in DemoIdentities : Provision(r, demo.uid) \/ ProvisionUpdate(r, demo.uid)
    BY <2>9, ProvisionChange, VersionsStay DEF Begins, Moves, Versioned
  <2>10. CASE Logout(r) \/ Forgot(r) \/ \E code \in mailed : Confirm(r, code)
    BY <2>10, LogoutChange, ForgotChange, ConfirmChange, VersionsStay DEF Begins, Versioned
  <2>11. CASE SeedProfile(r) \/ RenameStudent(r) \/ Mail(r)
    BY <2>11, SeedProfileChange, RenameChange, MailChange, VersionsStay DEF Moves, Versioned
  <2>12. CASE FindProfile(r)
    BY <2>2, <2>12, FindProfileChange, VersionsStay DEF Moves, Versioned
  <2>13. CASE CreateProfile(r)
    BY <2>2, <2>13, CreateProfileChange, VersionsStay DEF Moves, Versioned
  <2>14. CASE StoreCode(r)
    <3>1. user # NoUser
      BY <2>14 DEF StoreCode, At, TypeInv, RowOK
    <3> QED
      BY <2>14, <3>1, StoreChange, VersionsStay DEF Moves, Versioned
  <2>15. CASE Fail(r)
    BY <2>2, <2>15, FailChange, VersionsStay DEF Moves, Versioned
  <2> QED
    BY <2>1, <2>3, <2>4, <2>5, <2>6, <2>7, <2>8, <2>9, <2>10, <2>11, <2>12, <2>13, <2>14,
       <2>15, StepCases
<1> QED
  BY <1>1, <1>2, <1>3, <1>4 DEF SessionsNext

\* ResetRevokesSessions, for all constants: tokens of before a reset start no session
\* after it, however registrations, logins, refreshes and other resets overlap with it.
THEOREM ResetEndsSessions == SessionsSpec => []ResetRevokesSessions
<1>1. VersionInv => ResetRevokesSessions
  BY DEF VersionInv
<1> QED
  BY <1>1, InitTypes, NextTypes, InitVersions, NextVersions, PTL DEF SessionsSpec

-----------------------------------------------------------------------------
(* Codes *)

\* A confirmation uses a code that was mailed, and none that had set a password when it
\* began; what a request remembers as settled has been settled.
Coded(r) ==
  /\ requests[r].resetsBefore \subseteq resets
  /\ requests[r].op = "confirm" =>
       /\ requests[r].code \in mailed
       /\ \A q \in requests[r].resetsBefore : requests[q].code # requests[r].code

\* CodeIsSpentOnce is about codes in the hands of requests. It needs that each code is
\* generated once and mailed only after it has been stored, so that no row comes to hold
\* again a code that has set a password.
CodeInv ==
  /\ \A r, s \in Requests :
       /\ requests[r].op = "forgot" /\ requests[s].op = "forgot"
       /\ requests[r].code = requests[s].code
       => r = s
  /\ \A r \in Requests : At(r, "forgot", "store") => requests[r].code \notin mailed
  /\ \A r \in Requests : Coded(r)
  /\ user # NoUser => \A r \in resets : user.code # requests[r].code

\* The code of a request that has set a password is one that was mailed, and no missing one.
LEMMA SpentCodes ==
  ASSUME TypeInv, VersionInv, CodeInv, NEW r \in resets
  PROVE  r \in Requests /\ requests[r].code \in mailed /\ requests[r].code # 0
<1>1. r \in Requests /\ requests[r].op = "confirm"
  BY DEF TypeInv, VersionInv
<1>2. requests[r].code \in mailed
  BY <1>1 DEF CodeInv, Coded
<1>3. mailed \subseteq 1..codes /\ codes \in Nat
  BY DEF TypeInv
<1> QED
  BY <1>1, <1>2, <1>3

\* A request takes a step in which no code is generated, mailed or spent, while the row
\* keeps its code or loses it.
LEMMA CodesStay ==
  ASSUME TypeInv, VersionInv, CodeInv, NEW r \in Requests, requests[r].at # "done",
         \A q \in Requests : q # r => requests'[q] = requests[q],
         requests'[r].op = "forgot" =>
            /\ requests[r].op = "forgot" /\ requests'[r].code = requests[r].code
            /\ requests'[r].at # "store",
         requests'[r].resetsBefore \subseteq resets,
         requests'[r].op = "confirm" =>
            /\ requests'[r].code \in mailed
            /\ \A q \in requests'[r].resetsBefore : requests[q].code # requests'[r].code,
         \/ user' = user
         \/ user' \in UserRow /\ user'.code = 0
         \/ user' \in UserRow /\ user # NoUser /\ user'.code = user.code,
         UNCHANGED <<mailed, resets>>
  PROVE  CodeInv'
<1>1. r \notin resets /\ resets \subseteq Requests
  BY DEF TypeInv, VersionInv
<1>2. \A q \in resets : requests'[q] = requests[q] /\ requests[q].code # 0
  BY <1>1, SpentCodes
<1>3. user' # NoUser => \A q \in resets' : user'.code # requests'[q].code
  BY <1>2 DEF CodeInv
<1>4. ASSUME NEW q \in Requests PROVE Coded(q)'
  <2>1. CASE q = r
    BY <1>2, <2>1 DEF Coded
  <2>2. CASE q # r
    BY <1>2, <2>2 DEF CodeInv, Coded
  <2> QED
    BY <2>1, <2>2
<1>5. \A q, s \in Requests :
        /\ requests'[q].op = "forgot" /\ requests'[s].op = "forgot"
        /\ requests'[q].code = requests'[s].code
        => q = s
  BY DEF CodeInv
<1>6. \A q \in Requests : At(q, "forgot", "store")' => requests'[q].code \notin mailed'
  BY DEF CodeInv, At
<1> QED
  BY <1>3, <1>4, <1>5, <1>6 DEF CodeInv

\* Initially there is no code.
LEMMA InitCodes == SessionsInit => CodeInv
<1> SUFFICES ASSUME SessionsInit PROVE CodeInv
  OBVIOUS
<1>1. resets = {} /\ requests = [r \in Requests |-> Idle]
  BY DEF SessionsInit
<1> QED
  BY <1>1 DEF CodeInv, Coded, Idle, At

\* Every step keeps the codes apart.
LEMMA NextCodes ==
  TypeInv /\ VersionInv /\ CodeInv /\ [SessionsNext]_sessionVars => CodeInv'
<1> SUFFICES ASSUME TypeInv, VersionInv, CodeInv, [SessionsNext]_sessionVars PROVE CodeInv'
  OBVIOUS
<1>1. CASE UNCHANGED sessionVars
  BY <1>1 DEF CodeInv, Coded, At, sessionVars
<1>2. CASE ExpireCode
  <2>1. /\ user # NoUser /\ user'.code = user.code
        /\ UNCHANGED <<requests, mailed, resets>>
    BY <1>2, ExpireChange, RowsAndValues
  <2> QED
    BY <2>1 DEF CodeInv, Coded, At
<1>3. CASE SignUp
  BY <1>3 DEF SignUp, CodeInv, Coded, At
<1>4. CASE \E r \in Requests : SessionStep(r)
  <2>1. PICK r \in Requests : SessionStep(r)
    BY <1>4
  <2>2. Coded(r) /\ RowOK(r) /\ resets \subseteq Requests
    BY DEF CodeInv, TypeInv
  <2>3. CASE Forgot(r)
    <3>1. /\ Begins(r, "forgot", "store") /\ requests'[r].code = codes + 1
          /\ UNCHANGED <<user, mailed, resets>>
      BY <2>3, ForgotChange
    <3>2. codes \in Nat /\ mailed \subseteq 1..codes
      BY DEF TypeInv
    <3>3. codes + 1 \notin 1..codes
      BY <3>2
    <3>4. \A q \in Requests : requests[q].op = "forgot" => requests[q].code \in 1..codes
      BY DEF TypeInv, RowOK
    <3>5. \A q, s \in Requests :
            /\ requests'[q].op = "forgot" /\ requests'[s].op = "forgot"
            /\ requests'[q].code = requests'[s].code
            => q = s
      BY <3>1, <3>3, <3>4 DEF Begins, CodeInv
    <3>6. \A q \in Requests : At(q, "forgot", "store")' => requests'[q].code \notin mailed'
      BY <3>1, <3>2, <3>3 DEF Begins, CodeInv, At
    <3>7. \A q \in resets : q # r /\ requests'[q] = requests[q]
      BY <2>2, <3>1 DEF Begins, VersionInv
    <3>8. \A q \in Requests : Coded(q)'
      BY <3>1, <3>7 DEF Begins, CodeInv, Coded
    <3> QED
      BY <3>1, <3>5, <3>6, <3>7, <3>8 DEF CodeInv
  <2>4. CASE StoreCode(r)
    <3>1. /\ Moves(r, "forgot", "store", "mail")
          /\ user' \in UserRow /\ user'.code = requests[r].code
          /\ UNCHANGED <<mailed, resets>>
      BY <2>4, StoreChange
    <3>2. requests[r].code \notin mailed
      BY <3>1 DEF Moves, CodeInv, At
    <3>3. \A q \in resets : q # r /\ requests'[q] = requests[q]
      BY <2>2, <3>1 DEF Moves, VersionInv
    <3>4. \A q \in resets' : user'.code # requests'[q].code
      BY <3>1, <3>2, <3>3, SpentCodes
    <3>5. \A q \in Requests : Coded(q)'
      BY <3>1, <3>3 DEF Moves, CodeInv, Coded
    <3>6. \A q \in Requests : At(q, "forgot", "store")' => requests'[q].code \notin mailed'
      BY <3>1 DEF Moves, CodeInv, At
    <3>7. \A q, s \in Requests :
            /\ requests'[q].op = "forgot" /\ requests'[s].op = "forgot"
            /\ requests'[q].code = requests'[s].code
            => q = s
      BY <3>1 DEF Moves, CodeInv
    <3> QED
      BY <3>4, <3>5, <3>6, <3>7 DEF CodeInv
  <2>5. CASE Mail(r)
    <3>1. /\ Moves(r, "forgot", "mail", "done") /\ mailed' = mailed \cup {requests[r].code}
          /\ UNCHANGED <<user, resets>>
      BY <2>5, MailChange
    <3>2. \A q \in resets : q # r /\ requests'[q] = requests[q]
      BY <2>2, <3>1 DEF Moves, VersionInv
    <3>3. \A q \in Requests : Coded(q)'
      BY <3>1, <3>2 DEF Moves, CodeInv, Coded
    <3>4. \A q, s \in Requests :
            /\ requests'[q].op = "forgot" /\ requests'[s].op = "forgot"
            /\ requests'[q].code = requests'[s].code
            => q = s
      BY <3>1 DEF Moves, CodeInv
    <3>5. ASSUME NEW q \in Requests, At(q, "forgot", "store")'
          PROVE  requests'[q].code \notin mailed'
      <4>1. q # r /\ requests'[q] = requests[q]
        BY <3>1, <3>5 DEF Moves, At
      <4>2. At(q, "forgot", "store")
        BY <3>5, <4>1 DEF At
      <4>3. requests[q].code \notin mailed /\ requests[q].code # requests[r].code
        BY <3>1, <4>1, <4>2 DEF Moves, CodeInv, At
      <4> QED
        BY <3>1, <4>1, <4>3
    <3>6. user' # NoUser => \A q \in resets' : user'.code # requests'[q].code
      BY <3>1, <3>2 DEF CodeInv
    <3> QED
      BY <3>3, <3>4, <3>5, <3>6 DEF CodeInv
  <2>6. CASE \E code \in mailed : Confirm(r, code)
    <3>1. PICK code \in mailed :
            /\ Begins(r, "confirm", "write") /\ user \in UserRow /\ user.code = code
            /\ requests'[r].code = code
            /\ UNCHANGED <<user, mailed, resets>>
      BY <2>6, ConfirmChange
    <3>2. \A q \in resets : requests[q].code # code
      BY <3>1, RowsAndValues DEF CodeInv
    <3> QED
      BY <3>1, <3>2, CodesStay DEF Begins
  <2>7. CASE \E pw \in Passwords : WritePassword(r, pw)
    <3>1. /\ Moves(r, "confirm", "write", "done")
          /\ user' \in UserRow /\ user'.code = 0
          /\ resets' = resets \cup {r} /\ mailed' = mailed
      BY <2>7, WriteChange
    <3>2. \A q \in Requests : requests'[q].code = requests[q].code
      BY <3>1 DEF Moves
    <3>3. \A q \in resets' : requests'[q].code # 0
      <4>1. requests[r].code \in 1..codes
        BY <2>2, <3>1 DEF Moves, Coded, TypeInv
      <4>2. requests[r].code # 0
        BY <4>1
      <4> QED
        BY <2>2, <3>1, <3>2, <4>2, SpentCodes
    <3>4. \A q \in Requests : Coded(q)'
      BY <2>2, <3>1, <3>2 DEF Moves, CodeInv, Coded
    <3>5. \A q \in Requests : At(q, "forgot", "store")' => requests'[q].code \notin mailed'
      BY <3>1 DEF Moves, CodeInv, At
    <3>6. \A q, s \in Requests :
            /\ requests'[q].op = "forgot" /\ requests'[s].op = "forgot"
            /\ requests'[q].code = requests'[s].code
            => q = s
      BY <3>1 DEF Moves, CodeInv
    <3> QED
      BY <3>1, <3>3, <3>4, <3>5, <3>6 DEF CodeInv
  <2>8. CASE \E pw \in Passwords, role \in Roles : Register(r, pw, role)
    BY <2>8, RegisterChange, CodesStay DEF Begins
  <2>9. CASE (\E pw \in Passwords : Login(r, pw)) \/ \E token \in tokens : Refresh(r, token)
    BY <2>9, LoginChange, CodesStay DEF Begins
  <2>10. CASE \E pw \in Passwords, demo \in DemoIdentities : SeedUser(r, pw, demo)
    BY <2>10, SeedUserChange, CodesStay DEF Begins
  <2>11. CASE \E role \in Roles : Link(r, role)
    BY <2>11, LinkChange, CodesStay DEF Begins
  <2>12. CASE \E demo \in DemoIdentities : Provision(r, demo.uid) \/ ProvisionUpdate(r, demo.uid)
    BY <2>2, <2>12, ProvisionChange, CodesStay DEF Begins, Moves, Coded
  <2>13. CASE Logout(r)
    BY <2>13, LogoutChange, CodesStay DEF Begins
  <2>14. CASE SeedProfile(r) \/ RenameStudent(r)
    BY <2>2, <2>14, SeedProfileChange, RenameChange, CodesStay DEF Moves, Coded
  <2>15. CASE FindProfile(r)
    BY <2>2, <2>15, FindProfileChange, CodesStay DEF Moves, Coded
  <2>16. CASE CreateProfile(r)
    BY <2>2, <2>16, CreateProfileChange, CodesStay DEF Moves, Coded
  <2>17. CASE BuildSession(r)
    BY <2>2, <2>17, SessionChange, CodesStay DEF Moves, Coded
  <2>18. CASE Fail(r)
    BY <2>2, <2>18, FailChange, CodesStay DEF Moves, Coded
  <2> QED
    BY <2>1, <2>3, <2>4, <2>5, <2>6, <2>7, <2>8, <2>9, <2>10, <2>11, <2>12, <2>13, <2>14,
       <2>15, <2>16, <2>17, <2>18, StepCases
<1> QED
  BY <1>1, <1>2, <1>3, <1>4 DEF SessionsNext

\* CodeIsSpentOnce, for all constants: a confirmation that begins after the code has set a
\* password sets none, whatever codes are asked for, mailed and expire around it.
THEOREM CodesAreSpentOnce == SessionsSpec => []CodeIsSpentOnce
<1>1. TypeInv /\ VersionInv /\ CodeInv => CodeIsSpentOnce
  <2> SUFFICES ASSUME TypeInv, VersionInv, CodeInv PROVE CodeIsSpentOnce
    OBVIOUS
  <2>1. ASSUME NEW r \in resets, NEW q \in requests[r].resetsBefore
        PROVE  requests[q].code # requests[r].code
    BY DEF TypeInv, VersionInv, CodeInv, Coded
  <2> QED
    BY <2>1 DEF CodeIsSpentOnce
<1> QED
  BY <1>1, InitTypes, NextTypes, InitVersions, NextVersions, InitCodes, NextCodes,
     PTL DEF SessionsSpec

-----------------------------------------------------------------------------
(* Profiles *)

\* A request that was to create the profile of the role, and has not.
Owing(r, role) ==
  /\ requests[r].op \in {"register", "link", "seed"}
  /\ requests[r].role = role
  /\ requests[r].at \in {"find", "create", "upsert", "failed"}

\* A profile of the role exists, or a request that was to create it is unfinished or failed.
Provided(role) ==
  \/ role = "ADMIN" \/ HasProfile(role)
  \/ \E q \in Requests : Owing(q, role)

\* Where a request that creates a profile, or an identity, has got to.
Settled(r) ==
  /\ At(r, "link", "done") /\ requests[r].role # "ADMIN" => HasProfile(requests[r].role)
  /\ requests[r].at = "rename" => requests[r].role = "STUDENT" /\ HasProfile("STUDENT")
  /\ requests[r].at = "session" => Provided(requests[r].role)
  /\ requests[r].op = "seed" /\ requests[r].at \in {"upsert", "done"} =>
       user # NoUser /\ user.uid = "demo"
  /\ At(r, "provision", "done") => identity = "demo"

\* SessionHasProfile is about requests that let somebody in. They take the role from the
\* row, so it needs that the row, too, has a role that is provided for.
ProfileInv ==
  /\ user # NoUser => Provided(user.role)
  /\ \A r \in Requests : Settled(r)

\* No step takes a profile away: a role with one keeps it.
LEMMA ProfilesStay ==
  ASSUME NEW role, HasProfile(role), role \in Roles,
         \A p \in Profiled : profiles[p] # "none" => profiles'[p] # "none"
  PROVE  HasProfile(role)'
BY DEF HasProfile, Roles, Profiled

\* What holds of a role that is provided for while a request takes a step: it stays so if
\* the request still owes what it owed, or there is a profile now.
LEMMA ProvidedStays ==
  ASSUME NEW r \in Requests, NEW role \in Roles, Provided(role),
         \A q \in Requests : q # r => requests'[q] = requests[q],
         \A p \in Profiled : profiles[p] # "none" => profiles'[p] # "none",
         Owing(r, role) => Owing(r, role)' \/ HasProfile(role)' \/ role = "ADMIN"
  PROVE  Provided(role)'
<1>1. CASE HasProfile(role)
  BY <1>1, ProfilesStay DEF Provided
<1>2. CASE role = "ADMIN"
  BY <1>2 DEF Provided
<1>3. CASE \E q \in Requests : Owing(q, role)
  <2>1. PICK q \in Requests : Owing(q, role)
    BY <1>3
  <2>2. CASE q = r
    BY <2>1, <2>2 DEF Provided
  <2>3. CASE q # r
    BY <2>1, <2>3 DEF Provided, Owing
  <2> QED
    BY <2>2, <2>3
<1> QED
  BY <1>1, <1>2, <1>3 DEF Provided

\* What a step has to show: the profiles there are stay, whoever owed one still does or has
\* created it, and the row has the role it had or one that is provided for.
LEMMA ProfilesKept ==
  ASSUME TypeInv, ProfileInv, NEW r \in Requests,
         \A q \in Requests : q # r => requests'[q] = requests[q],
         \A p \in Profiled : profiles[p] # "none" => profiles'[p] # "none",
         \A role \in Roles :
            Owing(r, role) => Owing(r, role)' \/ HasProfile(role)' \/ role = "ADMIN",
         \/ user' = user
         \/ /\ user' \in UserRow
            /\ user # NoUser => user'.uid = user.uid
            /\ \/ user # NoUser /\ user'.role = user.role
               \/ Owing(r, user.role)',
         identity' = identity \/ identity = Nothing,
         Settled(r)'
  PROVE  ProfileInv'
<1>1. \A role \in Roles : Provided(role) => Provided(role)'
  BY ProvidedStays
<1>2. user' # NoUser => Provided(user.role)'
  <2>1. ASSUME user' # NoUser, user' = user \/ (user # NoUser /\ user'.role = user.role)
        PROVE  Provided(user.role)'
    <3>1. PICK role \in Roles : role = user.role
      BY <2>1 DEF TypeInv, UserRow
    <3>2. Provided(role)'
      BY <1>1, <2>1, <3>1 DEF ProfileInv
    <3> QED
      BY <2>1, <3>1, <3>2
  <2>2. ASSUME Owing(r, user.role)' PROVE Provided(user.role)'
    BY <2>2 DEF Provided
  <2> QED
    BY <2>1, <2>2
<1>3. ASSUME NEW q \in Requests, q # r PROVE Settled(q)'
  <2>1. Settled(q) /\ requests'[q] = requests[q] /\ requests[q] \in RequestRow /\ RowOK(q)
    BY <1>3 DEF ProfileInv, TypeInv
  <2>2. ASSUME At(q, "link", "done"), requests[q].role # "ADMIN"
        PROVE  HasProfile(requests[q].role)'
    <3>1. PICK role \in Roles : role = requests[q].role
      BY <2>1, <2>2 DEF At, RowOK, RoleOps
    <3>2. HasProfile(role)
      BY <2>1, <2>2, <3>1 DEF Settled
    <3>3. HasProfile(role)'
      BY <3>2, ProfilesStay
    <3> QED
      BY <2>1, <3>1, <3>3
  <2>3. requests[q].at = "rename" => requests[q].role = "STUDENT" /\ HasProfile("STUDENT")'
    BY <2>1, ProfilesStay DEF Settled, Roles, Profiled
  <2>4. ASSUME requests[q].at = "session" PROVE Provided(requests[q].role)'
    <3>1. PICK role \in Roles : role = requests[q].role
      BY <2>1, <2>4, OpOfStep DEF RowOK, RoleOps
    <3>2. Provided(role)'
      BY <1>1, <2>1, <2>4, <3>1 DEF Settled
    <3> QED
      BY <2>1, <3>1, <3>2
  <2>5. requests[q].op = "seed" /\ requests[q].at \in {"upsert", "done"} =>
          user' # NoUser /\ user'.uid = "demo"
    BY <2>1, RowsAndValues DEF Settled
  <2>6. At(q, "provision", "done") => identity' = "demo"
    BY <2>1, RowsAndValues DEF Settled
  <2> QED
    BY <2>1, <2>2, <2>3, <2>4, <2>5, <2>6 DEF Settled, At
<1> QED
  BY <1>2, <1>3 DEF ProfileInv

\* Initially a row comes with the profile of its role.
LEMMA InitProfiles == SessionsInit => ProfileInv
<1> SUFFICES ASSUME SessionsInit PROVE ProfileInv
  OBVIOUS
<1>1. requests = [r \in Requests |-> Idle]
  BY DEF SessionsInit
<1>2. \A r \in Requests : Settled(r)
  BY <1>1 DEF Settled, At, Idle
<1>3. user # NoUser => Provided(user.role)
  <2>1. user # NoUser => user.role = "STUDENT" /\ profiles["STUDENT"] = "default"
    BY NewUserRow DEF SessionsInit, Roles, Profiled
  <2> QED
    BY <2>1 DEF Provided, HasProfile
<1> QED
  BY <1>2, <1>3 DEF ProfileInv

\* Every step keeps the profiles provided for.
LEMMA NextProfiles == TypeInv /\ ProfileInv /\ [SessionsNext]_sessionVars => ProfileInv'
<1> SUFFICES ASSUME TypeInv, ProfileInv, [SessionsNext]_sessionVars PROVE ProfileInv'
  OBVIOUS
<1>1. CASE UNCHANGED sessionVars
  BY <1>1 DEF ProfileInv, Settled, Provided, Owing, HasProfile, At, sessionVars
<1>2. CASE ExpireCode
  <2>1. /\ user # NoUser /\ user' # NoUser /\ user'.uid = user.uid /\ user'.role = user.role
        /\ UNCHANGED <<identity, profiles, requests>>
    BY <1>2, ExpireChange, RowsAndValues
  <2> QED
    BY <2>1 DEF ProfileInv, Settled, Provided, Owing, HasProfile, At
<1>3. CASE SignUp
  <2>1. identity = Nothing /\ UNCHANGED <<user, profiles, requests>>
    BY <1>3 DEF SignUp
  <2> QED
    BY <2>1, RowsAndValues DEF ProfileInv, Settled, Provided, Owing, HasProfile, At
<1>4. CASE \E r \in Requests : SessionStep(r)
  <2>1. PICK r \in Requests : SessionStep(r)
    BY <1>4
  <2>2. Settled(r) /\ RowOK(r)
    BY DEF ProfileInv, TypeInv
  <2>3. CASE \E pw \in Passwords, role \in Roles : Register(r, pw, role)
    <3>1. /\ Begins(r, "register", "find")
          /\ requests'[r].role = user'.role /\ user' \in UserRow
          /\ user # NoUser => user'.uid = user.uid
          /\ UNCHANGED <<identity, profiles>>
      BY <2>3, RegisterChange
    <3>2. Owing(r, user.role)' /\ Settled(r)'
      BY <3>1 DEF Begins, Owing, Settled, At
    <3>3. \A role \in Roles : ~Owing(r, role)
      BY <3>1 DEF Begins, Owing
    <3> QED
      BY <3>1, <3>2, <3>3, ProfilesKept DEF Begins
  <2>4. CASE (\E pw \in Passwords : Login(r, pw)) \/ \E token \in tokens : Refresh(r, token)
    <3>1. PICK op \in {"login", "refresh"} :
            /\ Begins(r, op, "session")
            /\ user \in UserRow /\ requests'[r].role = user.role
            /\ UNCHANGED <<identity, user, profiles>>
      BY <2>4, LoginChange
    <3>2. PICK role \in Roles : role = user.role
      BY <3>1 DEF UserRow
    <3>3. Provided(role)
      BY <3>1, <3>2, RowsAndValues DEF ProfileInv
    <3>4. ~Owing(r, role)
      BY <3>1 DEF Begins, Owing
    <3>5. Provided(role)'
      BY <3>1, <3>3, <3>4, ProvidedStays DEF Begins
    <3>6. Settled(r)'
      BY <3>1, <3>2, <3>5 DEF Begins, Settled, At
    <3>7. \A p \in Roles : ~Owing(r, p)
      BY <3>1 DEF Begins, Owing
    <3> QED
      BY <3>1, <3>6, <3>7, ProfilesKept DEF Begins
  <2>5. CASE \E pw \in Passwords : WritePassword(r, pw)
    <3>1. /\ Moves(r, "confirm", "write", "done")
          /\ user \in UserRow /\ user' \in UserRow
          /\ user'.uid = user.uid /\ user'.role = user.role
          /\ UNCHANGED <<identity, profiles>>
      BY <2>5, WriteChange
    <3>2. Settled(r)' /\ user # NoUser /\ \A p \in Roles : ~Owing(r, p)
      BY <3>1, RowsAndValues DEF Moves, Settled, Owing, At
    <3> QED
      BY <3>1, <3>2, ProfilesKept DEF Moves
  <2>6. CASE \E role \in Roles : Link(r, role)
    <3>1. PICK at \in {"find", "failed"} :
            /\ Begins(r, "link", at)
            /\ \/ user' = user
               \/ /\ user = NoUser /\ user' \in UserRow /\ user'.role = requests'[r].role
                  /\ at = "find"
            /\ UNCHANGED <<identity, profiles>>
      BY <2>6, LinkChange
    <3>2. /\ Settled(r)' /\ \A p \in Roles : ~Owing(r, p)
          /\ user' = user \/ (user = NoUser /\ user' \in UserRow /\ Owing(r, user.role)')
      BY <3>1 DEF Begins, Settled, Owing, At
    <3> QED
      BY <3>1, <3>2, ProfilesKept DEF Begins
  <2>7. CASE \E pw \in Passwords, demo \in DemoIdentities : SeedUser(r, pw, demo)
    <3>1. PICK pw \in Passwords, demo \in DemoIdentities : SeedUser(r, pw, demo)
      BY <2>7
    <3>2. user # NoUser /\ user' # user => user.uid = "demo"
      BY <3>1 DEF SeedUser, DemoIdentities
    <3>3. PICK at \in {"upsert", "failed"} :
            /\ Begins(r, "seed", at)
            /\ \/ at = "failed" /\ user' = user
               \/ /\ at = "upsert" /\ user' \in UserRow
                  /\ user'.uid = "demo" /\ user'.role = requests'[r].role
            /\ UNCHANGED <<identity, profiles>>
      BY <3>1, SeedUserChange
    <3>4. /\ Settled(r)' /\ \A p \in Roles : ~Owing(r, p)
      BY <3>3, RowsAndValues DEF Begins, Settled, Owing, At
    <3>5. user' = user \/ (user' \in UserRow /\ user'.uid = "demo" /\ Owing(r, user.role)')
      BY <3>3 DEF Begins, Owing
    <3> QED
      BY <3>2, <3>3, <3>4, <3>5, ProfilesKept DEF Begins
  <2>8. CASE \E demo \in DemoIdentities : Provision(r, demo.uid) \/ ProvisionUpdate(r, demo.uid)
    <3>1. /\ \/ Begins(r, "provision", "done") /\ identity' = "demo"
             \/ Begins(r, "provision", "update")
             \/ Moves(r, "provision", "update", "done") /\ identity' = "demo"
             \/ Moves(r, "provision", "update", "failed")
          /\ identity' = identity \/ identity = Nothing
          /\ UNCHANGED <<user, profiles>>
      BY <2>8, ProvisionChange
    <3>2. Settled(r)' /\ \A p \in Roles : ~Owing(r, p)
      BY <3>1 DEF Begins, Moves, Settled, Owing, At
    <3>3. \A q \in Requests : q # r => requests'[q] = requests[q]
      BY <3>1 DEF Begins, Moves
    <3> QED
      BY <3>1, <3>2, <3>3, ProfilesKept
  <2>9. CASE Logout(r) \/ Forgot(r) \/ \E code \in mailed : Confirm(r, code)
    <3>1. PICK op \in {"logout", "forgot", "confirm"}, at \in Steps :
            Begins(r, op, at) /\ at # "session" /\ at # "rename" /\ at # "upsert"
              /\ UNCHANGED <<identity, user, profiles>>
      BY <2>9, LogoutChange, ForgotChange, ConfirmChange DEF Steps
    <3>2. Settled(r)' /\ \A p \in Roles : ~Owing(r, p)
      BY <3>1 DEF Begins, Settled, Owing, At
    <3> QED
      BY <3>1, <3>2, ProfilesKept DEF Begins
  <2>10. CASE SeedProfile(r)
    <3>1. /\ Moves(r, "seed", "upsert", "done") /\ requests[r].role \in Roles
          /\ \A p \in Profiled : profiles[p] # "none" => profiles'[p] # "none"
          /\ requests[r].role # "ADMIN" => profiles'[requests[r].role] # "none"
          /\ UNCHANGED <<identity, user>>
      BY <2>10, SeedProfileChange
    <3>2. Settled(r)'
      BY <2>2, <3>1 DEF Moves, Settled, At
    <3>3. \A role \in Roles : Owing(r, role) => HasProfile(role)' \/ role = "ADMIN"
      BY <3>1 DEF Moves, Owing, HasProfile
    <3> QED
      BY <3>1, <3>2, <3>3, ProfilesKept DEF Moves
  <2>11. CASE FindProfile(r)
    <3>1. PICK op \in {"register", "link"}, to \in {"create", "rename", "session", "done"} :
            /\ Moves(r, op, "find", to) /\ requests[r].role \in Roles
            /\ to = "rename" => op = "link" /\ requests[r].role = "STUDENT"
            /\ to \in {"rename", "session", "done"} =>
                 requests[r].role = "ADMIN" \/ profiles[requests[r].role] # "none"
            /\ UNCHANGED <<identity, user, profiles>>
      BY <2>11, FindProfileChange
    <3>2. to \in {"rename", "session", "done"} =>
            requests[r].role = "ADMIN" \/ HasProfile(requests[r].role)'
      BY <3>1 DEF HasProfile, Moves
    <3>3. Settled(r)'
      BY <3>1, <3>2 DEF Moves, Settled, Provided, HasProfile, At
    <3>4. \A role \in Roles :
            Owing(r, role) => Owing(r, role)' \/ HasProfile(role)' \/ role = "ADMIN"
      BY <3>1, <3>2 DEF Moves, Owing, HasProfile
    <3> QED
      BY <3>1, <3>3, <3>4, ProfilesKept DEF Moves
  <2>12. CASE CreateProfile(r)
    <3>1. PICK op \in {"register", "link"}, to \in {"session", "done", "failed"} :
            /\ Moves(r, op, "create", to) /\ requests[r].role \in Roles
            /\ \A p \in Profiled : profiles[p] # "none" => profiles'[p] # "none"
            /\ to # "failed" => profiles'[requests[r].role] # "none"
            /\ UNCHANGED <<identity, user>>
      BY <2>12, CreateProfileChange
    <3>2. requests[r].role # "ADMIN"
      BY <2>2, <3>1 DEF Moves, RowOK
    <3>3. Settled(r)'
      BY <3>1, <3>2 DEF Moves, Settled, Provided, HasProfile, At
    <3>4. \A role \in Roles : Owing(r, role) => Owing(r, role)' \/ HasProfile(role)'
      BY <3>1, <3>2 DEF Moves, Owing, HasProfile
    <3> QED
      BY <3>1, <3>3, <3>4, ProfilesKept DEF Moves
  <2>13. CASE RenameStudent(r)
    <3>1. /\ Moves(r, "link", "rename", "done")
          /\ \A p \in Profiled : profiles[p] # "none" => profiles'[p] # "none"
          /\ UNCHANGED <<identity, user>>
      BY <2>13, RenameChange
    <3>2. HasProfile("STUDENT")' /\ requests[r].role = "STUDENT"
      BY <2>2, <3>1, ProfilesStay DEF Moves, Settled, Roles, Profiled
    <3>3. Settled(r)' /\ \A p \in Roles : ~Owing(r, p)
      BY <3>1, <3>2 DEF Moves, Settled, Owing, HasProfile, At
    <3> QED
      BY <3>1, <3>3, ProfilesKept DEF Moves
  <2>14. CASE BuildSession(r)
    <3>1. /\ requests[r].op \in {"register", "login", "refresh"}
          /\ Moves(r, requests[r].op, "session", "done")
          /\ UNCHANGED <<identity, user, profiles>>
      BY <2>14, SessionChange
    <3>2. Settled(r)' /\ \A p \in Roles : ~Owing(r, p)
      BY <3>1 DEF Moves, Settled, Owing, At
    <3> QED
      BY <3>1, <3>2, ProfilesKept DEF Moves
  <2>15. CASE StoreCode(r)
    <3>1. /\ Moves(r, "forgot", "store", "mail")
          /\ user' \in UserRow /\ user'.uid = user.uid /\ user'.role = user.role
          /\ UNCHANGED <<identity, profiles>>
      BY <2>15, StoreChange
    <3>2. /\ Settled(r)' /\ user # NoUser
          /\ \A p \in Roles : ~Owing(r, p)
      BY <2>2, <3>1 DEF Moves, Settled, Owing, At, RowOK
    <3> QED
      BY <3>1, <3>2, ProfilesKept DEF Moves
  <2>16. CASE Mail(r)
    <3>1. Moves(r, "forgot", "mail", "done") /\ UNCHANGED <<identity, user, profiles>>
      BY <2>16, MailChange
    <3>2. Settled(r)' /\ \A p \in Roles : ~Owing(r, p)
      BY <3>1 DEF Moves, Settled, Owing, At
    <3> QED
      BY <3>1, <3>2, ProfilesKept DEF Moves
  <2>17. CASE Fail(r)
    <3>1. PICK op \in Operations, from \in Steps \ {"idle", "done", "failed"} :
            Moves(r, op, from, "failed") /\ UNCHANGED <<identity, user, profiles>>
      BY <2>17, FailChange
    <3>2. Settled(r)'
      BY <3>1 DEF Moves, Settled, At
    <3>3. \A role \in Roles : Owing(r, role) => Owing(r, role)'
      BY <3>1 DEF Moves, Owing
    <3> QED
      BY <3>1, <3>2, <3>3, ProfilesKept DEF Moves
  <2> QED
    BY <2>1, <2>3, <2>4, <2>5, <2>6, <2>7, <2>8, <2>9, <2>10, <2>11, <2>12, <2>13, <2>14,
       <2>15, <2>16, <2>17, StepCases
<1> QED
  BY <1>1, <1>2, <1>3, <1>4 DEF SessionsNext

\* SessionHasProfile, for all constants: whoever is let in has a profile of the role unless
\* a request that was to create it is unfinished or failed, and an address that the seed
\* and the provisioner have done with has one identity.
THEOREM SessionsHaveProfiles == SessionsSpec => []SessionHasProfile
<1>1. TypeInv /\ ProfileInv => SessionHasProfile
  <2> SUFFICES ASSUME TypeInv, ProfileInv PROVE SessionHasProfile
    OBVIOUS
  <2>1. ASSUME NEW r \in Requests, requests[r].role # "ADMIN"
        PROVE  /\ At(r, "link", "done") => Me(r)
               /\ requests[r].at = "session" =>
                    HasProfile(requests[r].role) \/ \E q \in Requests : Owing(q, requests[r].role)
    BY <2>1 DEF ProfileInv, Settled, Provided, Me
  <2>2. ASSUME NEW q \in Requests, NEW r \in Requests,
               At(q, "seed", "done"), At(r, "provision", "done")
        PROVE  user.uid = identity
    BY <2>2 DEF ProfileInv, Settled, At
  <2> QED
    BY <2>1, <2>2 DEF SessionHasProfile, Owing
<1> QED
  BY <1>1, InitTypes, NextTypes, InitProfiles, NextProfiles, PTL DEF SessionsSpec

=============================================================================

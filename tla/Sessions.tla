------------------------------- MODULE Sessions -------------------------------
(***************************************************************************)
(* Signing in and the reset of a forgotten password (modules/auth):        *)
(* requests about one e-mail address, each a handler that may be           *)
(* interleaved with the others at every await and fail at any of them.     *)
(* Two roads lead to a user row, AuthService (password) and                *)
(* UserLinkerService (a Supabase identity, linked on every request that    *)
(* carries its token), and both create the profile of the role after it.   *)
(* The seed is a third: it may run against a database in use, and its      *)
(* counterpart provisions the identities in Supabase.                      *)
(***************************************************************************)
EXTENDS Naturals, FiniteSets

CONSTANTS
    Requests,     \* requests in flight, one operation each
    Passwords,
    MaxCodes,     \* bound: reset codes generated
    NoUser, Nothing

Profiled == {"TEACHER", "PARENT", "STUDENT"}
Roles == Profiled \cup {"ADMIN"}

\* A column that holds nothing holds no value, and no row is not a row.
ASSUME SessionsAssumption ==
    /\ Nothing \notin Nat \cup Passwords \cup Roles \cup {"own", "demo", "other"}
    /\ MaxCodes \in Nat
    /\ NoUser \notin [uid : {Nothing, "own", "demo"}, password : Passwords \cup {Nothing},
                     role : Roles, code : Nat, expired : BOOLEAN, version : Nat]

VARIABLES
    identity,   \* uid of the Supabase identity of the address, or Nothing
    user,       \* row of the address: [uid, password, role, code, expired, version]
    profiles,   \* role -> "none", or the display name of its row: "default", "given"
    requests,
    tokens,     \* refresh tokens handed out: the claims they were signed with
    sessions,   \* the answers that carried them
    codes,      \* reset codes generated so far
    mailed,     \* those that reached the mailbox
    resets      \* the requests that have set a new password

sessionVars == <<identity, user, profiles, requests, tokens, sessions, codes, mailed, resets>>

Idle == [op |-> "none", at |-> "idle", role |-> Nothing, version |-> 0, code |-> 0,
         presented |-> Nothing, resetsBefore |-> {}]

SignRefreshToken(version, role) == [version |-> version, role |-> role]

NewUser(uid, password, role) ==
    [uid |-> uid, password |-> password, role |-> role,
     code |-> 0, expired |-> FALSE, version |-> 0]

\* Nobody yet, or a student who registered long ago and still holds the tokens.
SessionsInit ==
    /\ identity = Nothing
    /\ \/ /\ user = NoUser /\ tokens = {}
          /\ profiles = [r \in Profiled |-> "none"]
       \/ /\ \E pw \in Passwords : user = NewUser(Nothing, pw, "STUDENT")
          /\ tokens = {SignRefreshToken(0, "STUDENT")}
          /\ profiles = [r \in Profiled |-> IF r = "STUDENT" THEN "default" ELSE "none"]
    /\ requests = [r \in Requests |-> Idle]
    /\ sessions = {} /\ codes = 0 /\ mailed = {} /\ resets = {}

\* r starts with what it has read, and remembers what was settled before it began.
Start(r, begun) ==
    /\ requests[r].at = "idle"
    /\ requests' = [requests EXCEPT ![r] = [begun EXCEPT !.resetsBefore = resets]]

At(r, op, at) == requests[r].op = op /\ requests[r].at = at
Goto(r, at) == requests' = [requests EXCEPT ![r].at = at]

------------------------------------------------------------------------------
(* Requests that sign in. *)

\* findLocalUserOrThrow: any row of the address will do, one without a password too.
LocalUserFound == user # NoUser

\* One upsert by e-mail: an address that is taken changes password and role and
\* loses its reset code; its sessions stay valid.
Register(r, pw, role) ==
    /\ user' = IF user = NoUser THEN NewUser(Nothing, pw, role)
               ELSE [user EXCEPT !.password = pw, !.role = role, !.code = 0, !.expired = FALSE]
    /\ Start(r, [Idle EXCEPT !.op = "register", !.at = "find", !.role = role,
                             !.version = user'.version])
    /\ UNCHANGED <<identity, profiles, tokens, sessions, codes, mailed, resets>>

Login(r, pw) ==
    /\ LocalUserFound
    /\ user.password = pw
    /\ Start(r, [Idle EXCEPT !.op = "login", !.at = "session", !.role = user.role,
                             !.version = user.version])
    /\ UNCHANGED <<identity, user, profiles, tokens, sessions, codes, mailed, resets>>

\* Broken variant: the version of the token is not looked at.
AnyTokenVersion(version) == version \in Nat

AssertTokenVersion(version) == user.version = version

Refresh(r, token) ==
    /\ LocalUserFound
    /\ AssertTokenVersion(token.version)
    /\ Start(r, [Idle EXCEPT !.op = "refresh", !.at = "session", !.role = user.role,
                             !.version = user.version, !.presented = token.version])
    /\ UNCHANGED <<identity, user, profiles, tokens, sessions, codes, mailed, resets>>

\* What the token's metadata says of the role; whatever it does not know is a student.
ToRole(raw, fallback) ==
    LET candidate == IF raw # Nothing THEN raw ELSE fallback
    IN  IF candidate \in {"TEACHER", "PARENT", "ADMIN"} THEN candidate ELSE "STUDENT"

\* A Supabase identity is linked by its own key: with a local account on the same
\* address the create collides and the request fails, every time.
Link(r, role) ==
    /\ identity # Nothing
    /\ IF user = NoUser
         THEN /\ user' = NewUser(identity, Nothing, role)
              /\ Start(r, [Idle EXCEPT !.op = "link", !.at = "find", !.role = role])
         ELSE /\ Start(r, [Idle EXCEPT !.op = "link", !.role = role,
                                       !.at = IF user.uid = identity THEN "find" ELSE "failed"])
              /\ UNCHANGED user
    /\ UNCHANGED <<identity, profiles, tokens, sessions, codes, mailed, resets>>

\* One of the demo identities, which the seed and the provisioner share: its uid is
\* written down, its role one of the four.
DemoIdentities == [uid : {"demo"}, role : Roles]

\* The seed upserts by the same key, with a password, and sets the role of a row it finds ...
SeedUser(r, pw, demo) ==
    LET found == user # NoUser /\ user.uid = demo.uid
    IN
    /\ Start(r, [Idle EXCEPT !.op = "seed", !.role = demo.role,
                             !.at = IF user = NoUser \/ found THEN "upsert" ELSE "failed"])
    /\ user' = CASE user = NoUser -> NewUser(demo.uid, pw, demo.role)
                 [] found -> [user EXCEPT !.role = demo.role]
                 [] OTHER -> user
    /\ UNCHANGED <<identity, profiles, tokens, sessions, codes, mailed, resets>>

\* ... then upserts the profile, which keeps the name it has.
SeedProfile(r) ==
    LET role == requests[r].role
    IN  /\ At(r, "seed", "upsert")
        /\ profiles' = IF role = "ADMIN" \/ profiles[role] # "none" THEN profiles
                       ELSE [profiles EXCEPT ![role] = "given"]
        /\ Goto(r, "done")
        /\ UNCHANGED <<identity, user, tokens, sessions, codes, mailed, resets>>

\* Somebody signs up with Supabase and gets a uid of their own.
SignUp ==
    /\ identity = Nothing
    /\ identity' = "own"
    /\ UNCHANGED <<user, profiles, requests, tokens, sessions, codes, mailed, resets>>

\* The provisioner creates the identity, with the uid of the seed ...
Provision(r, uid) ==
    /\ identity' = IF identity = Nothing THEN uid ELSE identity
    /\ Start(r, [Idle EXCEPT !.op = "provision",
                             !.at = IF identity = Nothing THEN "done" ELSE "update"])
    /\ UNCHANGED <<user, profiles, tokens, sessions, codes, mailed, resets>>

\* ... or, where the address is taken, updates the one of that uid: if there is none, the
\* address has another and the run ends with exit code 1.
ProvisionUpdate(r, uid) ==
    /\ At(r, "provision", "update")
    /\ Goto(r, IF identity = uid THEN "done" ELSE "failed")
    /\ UNCHANGED <<identity, user, profiles, tokens, sessions, codes, mailed, resets>>

\* logout answers and does nothing: the tokens stay valid.
Logout(r) ==
    /\ tokens # {}
    /\ Start(r, [Idle EXCEPT !.op = "logout", !.at = "done"])
    /\ UNCHANGED <<identity, user, profiles, tokens, sessions, codes, mailed, resets>>

AfterProfile(r) == IF requests[r].op = "link" THEN "done" ELSE "session"

\* Broken variant: registering over an existing row takes its profile for granted.
FindNewProfile(r) ==
    LET role == requests[r].role
    IN  /\ requests[r].at = "find"
        /\ Goto(r, IF role = "ADMIN" \/ \E other \in Profiled : profiles[other] # "none"
                     THEN AfterProfile(r) ELSE "create")
        /\ UNCHANGED <<identity, user, profiles, tokens, sessions, codes, mailed, resets>>

\* ensureRoleProfile, of either service: look for the row of the role ...
FindProfile(r) ==
    LET role == requests[r].role
    IN  /\ requests[r].at = "find"
        /\ Goto(r, IF role = "ADMIN" THEN AfterProfile(r)
                   ELSE IF profiles[role] = "none" THEN "create"
                   ELSE IF requests[r].op = "link" /\ role = "STUDENT" /\ profiles[role] = "default"
                     THEN "rename" ELSE AfterProfile(r))
        /\ UNCHANGED <<identity, user, profiles, tokens, sessions, codes, mailed, resets>>

\* ... create it, unless another request has done so meanwhile (a unique user id) ...
CreateProfile(r) ==
    LET role == requests[r].role
    IN  /\ requests[r].at = "create"
        /\ IF profiles[role] = "none"
             THEN /\ profiles' = [profiles EXCEPT ![role] =
                                    IF requests[r].op = "link" THEN "given" ELSE "default"]
                  /\ Goto(r, AfterProfile(r))
             ELSE /\ Goto(r, "failed")
                  /\ UNCHANGED profiles
        /\ UNCHANGED <<identity, user, tokens, sessions, codes, mailed, resets>>

\* ... or give a student who is still called "Nuevo Alumno" the name of the identity.
RenameStudent(r) ==
    /\ requests[r].at = "rename"
    /\ profiles' = [profiles EXCEPT !["STUDENT"] = "given"]
    /\ Goto(r, "done")
    /\ UNCHANGED <<identity, user, tokens, sessions, codes, mailed, resets>>

\* findProfileId: an administrator is looked for among the students.
HasProfile(role) == profiles[IF role = "ADMIN" THEN "STUDENT" ELSE role] # "none"

\* The answer carries tokens of the version read.
BuildSession(r) ==
    LET q == requests[r]
    IN  /\ q.at = "session"
        /\ tokens' = tokens \cup {SignRefreshToken(q.version, q.role)}
        /\ sessions' = sessions \cup
             {[version |-> q.version, presented |-> q.presented,
               resetsBefore |-> Cardinality(q.resetsBefore)]}
        /\ Goto(r, "done")
        /\ UNCHANGED <<identity, user, profiles, codes, mailed, resets>>

------------------------------------------------------------------------------
(* The reset of a password. *)

Forgot(r) ==
    /\ LocalUserFound
    /\ codes < MaxCodes
    /\ codes' = codes + 1
    /\ Start(r, [Idle EXCEPT !.op = "forgot", !.at = "store", !.code = codes + 1])
    /\ UNCHANGED <<identity, user, profiles, tokens, sessions, mailed, resets>>

StoreCode(r) ==
    /\ At(r, "forgot", "store")
    /\ user' = [user EXCEPT !.code = requests[r].code, !.expired = FALSE]
    /\ Goto(r, "mail")
    /\ UNCHANGED <<identity, profiles, tokens, sessions, codes, mailed, resets>>

\* When the mail fails the request does, with the code left in the row.
Mail(r) ==
    /\ At(r, "forgot", "mail")
    /\ mailed' = mailed \cup {requests[r].code}
    /\ Goto(r, "done")
    /\ UNCHANGED <<identity, user, profiles, tokens, sessions, codes, resets>>

\* Fifteen minutes have passed.
ExpireCode ==
    /\ user # NoUser
    /\ user.code # 0 /\ ~user.expired
    /\ user' = [user EXCEPT !.expired = TRUE]
    /\ UNCHANGED <<identity, profiles, requests, tokens, sessions, codes, mailed, resets>>

Confirm(r, code) ==
    /\ LocalUserFound
    /\ user.code = code /\ ~user.expired
    /\ Start(r, [Idle EXCEPT !.op = "confirm", !.at = "write", !.code = code])
    /\ UNCHANGED <<identity, user, profiles, tokens, sessions, codes, mailed, resets>>

\* Broken variant: the code is left to expire.
WriteAndKeepCode(r, pw) ==
    /\ At(r, "confirm", "write")
    /\ user' = [user EXCEPT !.password = pw, !.version = @ + 1]
    /\ resets' = resets \cup {r}
    /\ Goto(r, "done")
    /\ UNCHANGED <<identity, profiles, tokens, sessions, codes, mailed>>

\* The update names the row only: whatever code it holds by now is cleared.
WritePassword(r, pw) ==
    /\ At(r, "confirm", "write")
    /\ user' = [user EXCEPT !.password = pw, !.code = 0, !.expired = FALSE, !.version = @ + 1]
    /\ resets' = resets \cup {r}
    /\ Goto(r, "done")
    /\ UNCHANGED <<identity, profiles, tokens, sessions, codes, mailed>>

------------------------------------------------------------------------------

\* A statement, the mail or the process fails: what was written stays.
Fail(r) ==
    /\ requests[r].at \notin {"idle", "done", "failed"}
    /\ Goto(r, "failed")
    /\ UNCHANGED <<identity, user, profiles, tokens, sessions, codes, mailed, resets>>

SessionStep(r) ==
    \/ \E pw \in Passwords :
         \/ \E role \in Roles : Register(r, pw, role)
         \/ \E demo \in DemoIdentities : SeedUser(r, pw, demo)
         \/ Login(r, pw)
         \/ WritePassword(r, pw)
    \/ \E token \in tokens : Refresh(r, token)
    \/ \E raw \in Roles \cup {"other", Nothing}, fallback \in Roles \cup {"other"} :
         Link(r, ToRole(raw, fallback))
    \/ \E demo \in DemoIdentities : Provision(r, demo.uid) \/ ProvisionUpdate(r, demo.uid)
    \/ SeedProfile(r) \/ Logout(r)
    \/ FindProfile(r) \/ CreateProfile(r) \/ RenameStudent(r) \/ BuildSession(r)
    \/ Forgot(r) \/ StoreCode(r) \/ Mail(r)
    \/ \E code \in mailed : Confirm(r, code)
    \/ Fail(r)

SessionsNext == ExpireCode \/ SignUp \/ \E r \in Requests : SessionStep(r)

------------------------------------------------------------------------------
(* Properties. *)

\* Once a password reset has been answered, no token from before it starts a
\* session any more, and no request that begins after it is handed tokens that the
\* reset has already revoked (a request in flight during the reset may be).
ResetRevokesSessions ==
    \A s \in sessions :
       /\ s.version >= s.resetsBefore
       /\ s.presented # Nothing => s.presented >= s.resetsBefore

\* A code whose use has been answered changes no password again: a second
\* confirmation succeeds only if it had read the row before the first one wrote it.
CodeIsSpentOnce ==
    \A r \in resets : requests[r].code \notin {requests[q].code : q \in requests[r].resetsBefore}

\* What me answers a linked identity: the profile of the role in its token.
Me(r) == HasProfile(requests[r].role)

\* Whoever has been let in has a profile of the role: an identity that was linked
\* always (me finds it), a session of a password unless a request that was to create
\* the profile is unfinished or failed, for the row of the user is written first.
\* And an address that the seed and the provisioner have both done with is let in:
\* its identity is that of its row.
SessionHasProfile ==
    /\ \A r \in Requests : requests[r].role # "ADMIN" =>
         /\ At(r, "link", "done") => Me(r)
         /\ requests[r].at = "session" =>
              \/ HasProfile(requests[r].role)
              \/ \E q \in Requests : /\ requests[q].op \in {"register", "link", "seed"}
                                    /\ requests[q].role = requests[r].role
                                    /\ requests[q].at \in {"find", "create", "upsert", "failed"}
    /\ (\E q, r \in Requests : At(q, "seed", "done") /\ At(r, "provision", "done"))
         => user.uid = identity
==============================================================================

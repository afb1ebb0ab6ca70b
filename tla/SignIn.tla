------------------------------- MODULE SignIn -------------------------------
(***************************************************************************)
(* Sign-up, sign-in, provisioning and sessions:                            *)
(* src/services/auth.service.ts over src/repositories/auth.repository.ts,  *)
(* composed with the workspaces that provisioning writes to.  The identity *)
(* provider is external: it answers or fails, and may name any person.     *)
(***************************************************************************)
EXTENDS Workspaces

CONSTANTS
    Attempts,   \* tokens of sign-in flows
    Logins,     \* requests that begin or complete a sign-in, each runs once
    Logouts     \* logout requests, each runs once

VARIABLES
    attempt,    \* the row of each flow: unused, open, lapsed (past due), gone
    rowLock,    \* which login's transaction holds the users row of u
    grants,     \* SIGNUP_GRANT rows of u
    login,
    session,    \* the session a login opened
    logout,
    told        \* how often the provider was told to end a session

authVars == <<attempt, rowLock, grants, login, session, logout, told>>
vars == <<workspaceVars, authVars>>

NoLogin == "no login"
NoAttempt == "no attempt"
NoSession == [user |-> NoRow, state |-> "none"]

ASSUME NamesAssumption ==
    /\ NoLogin \notin Logins /\ NoAttempt \notin Attempts
    /\ Logouts # {} => Logins # {}

LoginOps == {"signUp", "google", "password", "complete"}
LoginSteps == {"idle", "exists", "store", "consume", "exchange", "upsert", "home",
               "commit", "session", "done", "collided"}

AuthTypeOK ==
    /\ attempt \in [Attempts -> {"unused", "open", "lapsed", "gone"}]
    /\ rowLock \in [Users -> Logins \cup {NoLogin}]
    /\ grants \in [Users -> 0..2]
    /\ login \in [Logins -> [at : LoginSteps, op : LoginOps, who : Users,
                             attempt : Attempts \cup {NoAttempt}, newHome : BOOLEAN]]
    /\ session \in [Logins -> [user : Users \cup {NoRow},
                               state : {"none", "live", "expired", "revoked"}]]
    /\ logout \in [Logouts -> [at : {"idle", "revoke", "provider", "done", "refused"},
                               session : Logins]]
    /\ told \in [Logins -> Nat]

TypeOK == WorkspaceTypeOK /\ AuthTypeOK

\* Accounts and teams may be there from before: provisioned people with their
\* personal workspace and grant, teams that have an owner.
InitRows ==
    /\ known \in SUBSET Users
    /\ \E teams \in SUBSET Teams, members \in [Teams -> [Users -> Roles \cup {NoRow}]] :
         /\ existing = {Home(u) : u \in known} \cup teams
         /\ \A t \in Teams, u \in Users : t \notin teams \/ u \notin known => members[t][u] = NoRow
         /\ \A t \in teams : \E u \in known : members[t][u] = "owner"
         /\ role = [w \in Workspaces |->
                      IF w \in Teams THEN members[w]
                      ELSE [u \in Users |-> IF w = Home(u) /\ u \in known THEN "owner" ELSE NoRow]]
    /\ grants = [u \in Users |-> IF u \in known THEN 1 ELSE 0]
    /\ renamed = {}
    /\ attempt = [a \in Attempts |-> "unused"]
    /\ rowLock = [u \in Users |-> NoLogin]
    /\ session = [l \in Logins |-> NoSession]
    /\ told = [l \in Logins |-> 0]

EndedLogin == [at |-> "done", op |-> "password", who |-> CHOOSE u \in Users : TRUE,
               attempt |-> NoAttempt, newHome |-> FALSE]

\* The requests in these sets may come, the others never do.
InitCalls(es, ls, xs) ==
    /\ edit = [e \in TeamEdits |-> IF e \in es THEN NoEdit ELSE Over]
    /\ login = [l \in Logins |-> IF l \in ls THEN [EndedLogin EXCEPT !.at = "idle"] ELSE EndedLogin]
    /\ logout = [x \in Logouts |-> [at |-> IF x \in xs THEN "idle" ELSE "refused",
                                    session |-> CHOOSE l \in Logins : TRUE]]

Init == InitRows /\ InitCalls(TeamEdits, Logins, Logouts)

(***************************************************************************)
(* Sign-up and sign-in, one step per awaited call.                         *)
(***************************************************************************)
\* An ended login remembers only which attempt it was for.
LoginTo(l, to) ==
    login' = [login EXCEPT ![l] =
                IF to = "done" THEN [EndedLogin EXCEPT !.attempt = login[l].attempt] ELSE [@ EXCEPT !.at = to]]
KeepRows == UNCHANGED <<workspaceVars, rowLock, grants, session, logout, told>>

\* signUpWithEmail starts with existsByEmail, beginGoogleLogin with the provider.
Begin(l, op, u, a) ==
    /\ login[l].at = "idle" /\ op \in {"signUp", "google"}
    /\ attempt[a] = "unused" /\ \A k \in Logins : login[k].attempt # a
    /\ login' = [login EXCEPT ![l] = [at |-> IF op = "signUp" THEN "exists" ELSE "store",
                                      op |-> op, who |-> u, attempt |-> a, newHome |-> FALSE]]
    /\ KeepRows /\ UNCHANGED attempt

CheckExists(l) ==
    /\ login[l].at = "exists"
    /\ LoginTo(l, IF login[l].who \in known THEN "done" ELSE "store")
    /\ KeepRows /\ UNCHANGED attempt

\* Mutant: the flow is stored as consumed.
StoreAttemptUsed(l) ==
    /\ login[l].at = "store"
    /\ attempt' = [attempt EXCEPT ![login[l].attempt] = "used"]
    /\ LoginTo(l, "done") /\ KeepRows

\* flows.create: the lapsed rows go, the new one is inserted.
StoreAttempt(l) ==
    /\ login[l].at = "store"
    /\ attempt' = [a \in Attempts |-> IF a = login[l].attempt THEN "open"
                                      ELSE IF attempt[a] = "lapsed" THEN "gone" ELSE attempt[a]]
    /\ LoginTo(l, "done") /\ KeepRows

\* A password, or a link of the provider that carries an attempt.  A link may
\* be opened twice, and may carry an attempt that never reached the store.
ArriveLogin(l, op, a) ==
    /\ login[l].at = "idle"
    /\ \/ op = "password" /\ a = NoAttempt
       \/ op = "complete" /\ a \in Attempts
    /\ login' = [login EXCEPT ![l].at = IF op = "complete" THEN "consume" ELSE "exchange",
                              ![l].op = op, ![l].attempt = a]
    /\ KeepRows /\ UNCHANGED attempt

\* Mutant: the attempt is read and stays.
ConsumeByReading(l) ==
    /\ login[l].at = "consume"
    /\ LoginTo(l, IF attempt[login[l].attempt] = "open" THEN "exchange" ELSE "done")
    /\ KeepRows /\ UNCHANGED attempt

\* flows.consume: DELETE ... RETURNING of a row that is not past due.
Consume(l) ==
    LET a == login[l].attempt
    IN /\ login[l].at = "consume"
       /\ IF attempt[a] = "open"
            THEN attempt' = [attempt EXCEPT ![a] = "gone"] /\ LoginTo(l, "exchange")
            ELSE UNCHANGED attempt /\ LoginTo(l, "done")
       /\ KeepRows

\* The provider names a person with a verified address, or the login is refused.
Exchange(l) ==
    /\ login[l].at = "exchange"
    /\ \/ \E u \in Users : login' = [login EXCEPT ![l].at = "upsert", ![l].who = u]
       \/ LoginTo(l, "done")
    /\ KeepRows /\ UNCHANGED attempt

\* Mutant: the users row is written in a transaction of its own.
UpsertUserApart(l) ==
    /\ login[l].at = "upsert" /\ rowLock[login[l].who] = NoLogin
    /\ LoginTo(l, "home")
    /\ KeepRows /\ UNCHANGED attempt

\* provision(): one transaction.  Its first statement upserts the users row
\* and so waits for, then holds, that row until the transaction ends.
UpsertUser(l) ==
    LET u == login[l].who
    IN /\ login[l].at = "upsert" /\ rowLock[u] = NoLogin
       /\ rowLock' = [rowLock EXCEPT ![u] = l]
       /\ LoginTo(l, "home")
       /\ UNCHANGED <<workspaceVars, attempt, grants, session, logout, told>>

FindHome(l) ==
    /\ login[l].at = "home"
    /\ login' = [login EXCEPT ![l].at = "commit",
                              ![l].newHome = Home(login[l].who) \notin existing]
    /\ KeepRows /\ UNCHANGED attempt

Unlock(l) == rowLock' = [u \in Users |-> IF rowLock[u] = l THEN NoLogin ELSE rowLock[u]]

\* Mutant: the grant is inserted at every login.
CommitGrantingAgain(l) ==
    LET u == login[l].who
    IN /\ login[l].at = "commit"
       /\ known' = known \cup {u}
       /\ existing' = existing \cup {Home(u)}
       /\ role' = [role EXCEPT ![Home(u)][u] = IF @ = NoRow THEN "owner" ELSE @]
       /\ grants' = [grants EXCEPT ![u] = @ + 1]
       /\ LoginTo(l, "session") /\ Unlock(l)
       /\ UNCHANGED <<renamed, edit, attempt, session, logout, told>>

\* The inserts and the commit.  A second personal workspace of one person is
\* refused by workspaces_personal_owner_unique; the membership, the account
\* and the grant are inserted unless they are there.
CommitProvision(l) ==
    LET u == login[l].who
        h == Home(u)
    IN /\ login[l].at = "commit"
       /\ IF login[l].newHome /\ h \in existing
            THEN /\ LoginTo(l, "collided")
                 /\ UNCHANGED <<workspaceVars, grants>>
            ELSE /\ known' = known \cup {u}
                 /\ existing' = existing \cup {h}
                 /\ role' = [role EXCEPT ![h][u] = IF @ = NoRow THEN "owner" ELSE @]
                 /\ edit' = IF role[h][u] = NoRow
                              THEN StaleAfter(NoRow, h) ELSE edit
                 /\ grants' = [grants EXCEPT ![u] = IF @ = 0 THEN 1 ELSE @]
                 /\ LoginTo(l, "session")
                 /\ UNCHANGED renamed
       /\ Unlock(l)
       /\ UNCHANGED <<attempt, session, logout, told>>

OpenSession(l) ==
    /\ login[l].at = "session"
    /\ session' = [session EXCEPT ![l] = [user |-> login[l].who, state |-> "live"]]
    /\ LoginTo(l, "done")
    /\ UNCHANGED <<workspaceVars, attempt, rowLock, grants, logout, told>>

\* Mutant: the transaction of a dead login stays open.
LoginDiesHoldingRow(l) ==
    /\ login[l].at \notin {"idle", "done", "collided"}
    /\ LoginTo(l, "done")
    /\ KeepRows /\ UNCHANGED attempt

\* The process or its database connection dies; an open transaction rolls back.
LoginDies(l) ==
    /\ login[l].at \notin {"idle", "done", "collided"}
    /\ LoginTo(l, "done") /\ Unlock(l)
    /\ UNCHANGED <<workspaceVars, attempt, grants, session, logout, told>>

(***************************************************************************)
(* Logout: resolveSession, then revoke().                                  *)
(***************************************************************************)
KeepAuth == UNCHANGED <<workspaceVars, attempt, rowLock, grants, login>>
LogoutTo(x, to) == logout' = [logout EXCEPT ![x].at = to]

\* The middleware finds the session by its token: live, or the answer is 401.
ResolveSession(x, s) ==
    /\ logout[x].at = "idle" /\ session[s] # NoSession
    /\ logout' = [logout EXCEPT ![x] = [at |-> IF session[s].state = "live" THEN "revoke" ELSE "refused",
                                        session |-> s]]
    /\ KeepAuth /\ UNCHANGED <<session, told>>

\* Mutant: the session is revoked whether or not it still was live.
RevokeAgain(x) ==
    /\ logout[x].at = "revoke"
    /\ session' = [session EXCEPT ![logout[x].session].state = "revoked"]
    /\ LogoutTo(x, "provider")
    /\ KeepAuth /\ UNCHANGED told

\* UPDATE ... WHERE revoked_at IS NULL RETURNING: one of two logouts gets the row.
Revoke(x) ==
    LET s == logout[x].session
    IN /\ logout[x].at = "revoke"
       /\ session' = [session EXCEPT ![s].state = "revoked"]
       /\ LogoutTo(x, IF session[s].state # "revoked" THEN "provider" ELSE "done")
       /\ KeepAuth /\ UNCHANGED told

\* Best effort: an error of the provider is swallowed.
TellProvider(x) ==
    /\ logout[x].at = "provider"
    /\ told' = [told EXCEPT ![logout[x].session] = @ + 1]
    /\ LogoutTo(x, "done") /\ KeepAuth /\ UNCHANGED session

(***************************************************************************)
(* Time.                                                                   *)
(***************************************************************************)
AttemptLapses(a) ==
    /\ attempt[a] = "open"
    /\ attempt' = [attempt EXCEPT ![a] = "lapsed"]
    /\ UNCHANGED <<workspaceVars, rowLock, grants, login, session, logout, told>>

SessionExpires(s) ==
    /\ session[s].state = "live"
    /\ session' = [session EXCEPT ![s].state = "expired"]
    /\ KeepAuth /\ UNCHANGED <<logout, told>>

LoginStep(l) ==
    \/ CheckExists(l) \/ StoreAttempt(l) \/ Consume(l) \/ Exchange(l)
    \/ UpsertUser(l) \/ FindHome(l) \/ CommitProvision(l) \/ OpenSession(l)

AuthNext ==
    \/ \E l \in Logins :
         \/ \E op \in {"signUp", "google"}, u \in Users, a \in Attempts : Begin(l, op, u, a)
         \/ \E op \in {"password", "complete"}, a \in Attempts \cup {NoAttempt} : ArriveLogin(l, op, a)
         \/ LoginStep(l)
         \/ LoginDies(l)
    \/ \E x \in Logouts : (\E s \in Logins : ResolveSession(x, s)) \/ Revoke(x) \/ TellProvider(x)
    \/ \E a \in Attempts : AttemptLapses(a)
    \/ \E s \in Logins : SessionExpires(s)

Next == AuthNext \/ (EditNext /\ UNCHANGED authVars)

\* Node's event loop and the database run every login on; nobody has to log in.
Fairness == \A l \in Logins : WF_vars(LoginStep(l))
Spec == Init /\ [][Next]_vars /\ Fairness

(***************************************************************************)
(* Properties.                                                             *)
(***************************************************************************)

\* However logins of one person overlap, fail and are repeated: the account,
\* its personal workspace and exactly one welcome grant exist, or none of them.
ProvisionedWholeAndOnce ==
    \A u \in Users : grants[u] = (IF u \in known THEN 1 ELSE 0)
                     /\ (u \in known <=> Home(u) \in existing)

\* The upsert of the users row makes logins of one person take turns, so two
\* first logins at once both succeed and none runs into the unique index.
LoginsNeverCollide == \A l \in Logins : login[l].at # "collided"

\* A sign-in link opens one session at most, however often it is opened.
OneSessionPerAttempt ==
    \A a \in Attempts : Cardinality({l \in Logins : login[l].attempt = a /\ session[l] # NoSession}) <= 1

\* Two logouts of one session at once: both answer with the session revoked,
\* and the provider is told of it once.
LogoutsAgree ==
    /\ \A x \in Logouts : logout[x].at = "done" => session[logout[x].session].state = "revoked"
    /\ \A s \in Logins : told[s] <= 1

\* A login always gets an answer: the row another login holds is given back,
\* also when that login dies.
LoginsEnd ==
    \A l \in Logins : (login[l].at = "upsert") ~> (login[l].at \in {"done", "collided"})

\* Logins and logouts that overlap, die and are repeated leave accounts,
\* sessions and what the provider was told whole.
AccountsAreWhole ==
    /\ TypeOK /\ ProvisionedWholeAndOnce /\ LoginsNeverCollide
    /\ OneSessionPerAttempt /\ LogoutsAgree
=============================================================================

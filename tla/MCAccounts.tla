----------------------------- MODULE MCAccounts -----------------------------
(* Sign-in and workspaces on a small instance.                             *)
EXTENDS SignIn
CONSTANTS u1, u2, team, e1, e2, a1, l1, l2, l3, x1, x2

\* Two requests on the team u1 owns together with u2, who owns it too or is no member;
\* sign-ins and logouts from an empty database; or a request beside a login.
MCInit ==
    /\ InitRows
    /\ \/ known = Users /\ team \in existing /\ role[team][u1] = "owner"
          /\ role[team][u2] \in {"owner", NoRow} /\ InitCalls(TeamEdits, {}, {})
       \/ known = {} /\ InitCalls({}, Logins, Logouts)
       \/ known = {u1} /\ team \notin existing /\ InitCalls({e1}, {l1}, {})
MCSpec == MCInit /\ [][Next]_vars /\ Fairness
=============================================================================

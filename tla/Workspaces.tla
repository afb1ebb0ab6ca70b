----------------------------- MODULE Workspaces -----------------------------
(***************************************************************************)
(* Workspaces and their members: src/services/workspace.service.ts over    *)
(* src/repositories/workspace.repository.ts.  Every request is a chain of  *)
(* awaited statements with no transaction around them, so another request  *)
(* may write the membership between the check and the write.               *)
(***************************************************************************)
EXTENDS Naturals, FiniteSets

CONSTANTS
    Users,      \* people with an account at the identity provider
    Teams,      \* workspaces the create request may make
    TeamEdits   \* requests that manage workspaces, each runs once

Roles == {"owner", "editor", "viewer"}
NoRow == "none"

\* provision() gives every person one personal workspace.
Home(u) == <<"home", u>>
Workspaces == Teams \cup {Home(u) : u \in Users}

ASSUME UsersAssumption ==
    Users # {} /\ NoRow \notin TeamEdits /\ \A u \in Users : Home(u) \notin Teams

VARIABLES
    known,      \* users with a row in users
    existing,   \* workspaces with a row
    role,       \* role[w][u], NoRow when u is no member of w
    renamed,    \* workspaces with a new name
    edit        \* the requests

workspaceVars == <<known, existing, role, renamed, edit>>

Owners(w) == {u \in Users : role[w][u] = "owner"}

EditOps == {"create", "rename", "add", "update", "remove"}
EditSteps == {"idle", "authorize", "target", "count", "write", "done"}

\* stale is history: the membership of the workspace was written after the
\* request's last read of it.
NoEdit == [at |-> "idle", op |-> "create", by |-> CHOOSE u \in Users : TRUE,
           ws |-> CHOOSE w \in Workspaces : TRUE,
           target |-> CHOOSE u \in Users : TRUE, to |-> "owner", stale |-> FALSE]

WorkspaceTypeOK ==
    /\ known \subseteq Users
    /\ existing \subseteq Workspaces
    /\ role \in [Workspaces -> [Users -> Roles \cup {NoRow}]]
    /\ renamed \subseteq Workspaces
    /\ edit \in [TeamEdits -> [at : EditSteps, op : EditOps, by : Users, ws : Workspaces,
                               target : Users, to : Roles, stale : BOOLEAN]]

(***************************************************************************)
(* The steps of a request.                                                 *)
(***************************************************************************)

\* A write of w's membership makes every decision in flight on w stale.
StaleAfter(e, w) ==
    [x \in TeamEdits |-> IF x # e /\ edit[x].ws = w /\ edit[x].at \in {"target", "count", "write"}
                           THEN [edit[x] EXCEPT !.stale = TRUE] ELSE edit[x]]

Step(e, to) == edit' = [edit EXCEPT ![e].at = to, ![e].stale = FALSE]
Over == [NoEdit EXCEPT !.at = "done"]
Refuse(e) == /\ edit' = [edit EXCEPT ![e] = Over]
             /\ UNCHANGED <<known, existing, role, renamed>>

\* The routes behind requireAuthentication: only an account can ask.
Ask(e, op, u, w, v, r) ==
    /\ edit[e].at = "idle"
    /\ u \in known
    /\ edit' = [edit EXCEPT ![e] = [at |-> "authorize", op |-> op, by |-> u, ws |-> w,
                                    target |-> v, to |-> r, stale |-> FALSE]]
    /\ UNCHANGED <<known, existing, role, renamed>>

\* create(): the workspace and its first owner in one transaction.
CreateTeam(e) ==
    /\ edit[e].at = "authorize" /\ edit[e].op = "create"
    /\ edit[e].ws \in Teams \ existing
    /\ existing' = existing \cup {edit[e].ws}
    /\ role' = [role EXCEPT ![edit[e].ws][edit[e].by] = "owner"]
    /\ edit' = [edit EXCEPT ![e] = Over]
    /\ UNCHANGED <<known, renamed>>

\* requireMembership and the viewer check of update(), requireOwner elsewhere.
Authorize(e) ==
    LET c == edit[e]
        has == role[c.ws][c.by]
    IN /\ c.at = "authorize" /\ c.op # "create"
       /\ \/ /\ c.op = "rename" /\ has \in {"owner", "editor"}
             /\ Step(e, "write") /\ UNCHANGED <<known, existing, role, renamed>>
          \/ /\ c.op \in {"add", "update", "remove"} /\ has = "owner"
             /\ Step(e, "target") /\ UNCHANGED <<known, existing, role, renamed>>
          \/ /\ has = NoRow \/ has = "viewer" \/ (has = "editor" /\ c.op # "rename")
             /\ Refuse(e)

\* findProfileByEmail for add; getMembership of the target for the others,
\* which then count the owners when an owner would stop being one.
ReadTarget(e) ==
    LET c == edit[e]
        was == role[c.ws][c.target]
        demotes == was = "owner" /\ (c.op = "remove" \/ c.to # "owner")
    IN /\ c.at = "target"
       /\ \/ /\ c.op = "add" /\ c.target \in known
             /\ edit' = [edit EXCEPT ![e].at = "write"]
             /\ UNCHANGED <<known, existing, role, renamed>>
          \/ /\ c.op # "add" /\ was # NoRow
             /\ Step(e, IF demotes THEN "count" ELSE "write")
             /\ UNCHANGED <<known, existing, role, renamed>>
          \/ /\ (c.op = "add" /\ c.target \notin known) \/ (c.op # "add" /\ was = NoRow)
             /\ Refuse(e)

\* Mutant: owners are counted, and one is enough.
CountOwnersLoosely(e) ==
    /\ edit[e].at = "count"
    /\ Owners(edit[e].ws) # {}
    /\ Step(e, "write") /\ UNCHANGED <<known, existing, role, renamed>>

CountOwners(e) ==
    /\ edit[e].at = "count"
    /\ \/ /\ Cardinality(Owners(edit[e].ws)) > 1
          /\ Step(e, "write") /\ UNCHANGED <<known, existing, role, renamed>>
       \/ /\ Cardinality(Owners(edit[e].ws)) <= 1
          /\ Refuse(e)

WriteRow(e, r) ==
    LET c == edit[e]
    IN /\ role' = [role EXCEPT ![c.ws][c.target] = r]
       /\ edit' = [StaleAfter(e, c.ws) EXCEPT ![e] = Over]
       /\ UNCHANGED <<known, existing, renamed>>

\* addMember: insert, or overwrite the role of the row that is there.
AddMember(e) ==
    /\ edit[e].at = "write" /\ edit[e].op = "add"
    /\ WriteRow(e, edit[e].to)

\* Mutant: updateMember writes like addMember.
UpdateOrInsertMember(e) ==
    /\ edit[e].at = "write" /\ edit[e].op = "update"
    /\ WriteRow(e, edit[e].to)

\* updateMember: an UPDATE, which touches nothing once the row is gone.
UpdateMember(e) ==
    /\ edit[e].at = "write" /\ edit[e].op = "update"
    /\ WriteRow(e, IF role[edit[e].ws][edit[e].target] = NoRow THEN NoRow ELSE edit[e].to)

RemoveMember(e) ==
    /\ edit[e].at = "write" /\ edit[e].op = "remove"
    /\ WriteRow(e, NoRow)

Rename(e) ==
    /\ edit[e].at = "write" /\ edit[e].op = "rename"
    /\ renamed' = renamed \cup {edit[e].ws}
    /\ edit' = [edit EXCEPT ![e] = Over]
    /\ UNCHANGED <<known, existing, role>>

\* The process dies, or the connection, between two statements.
EditDies(e) == edit[e].at \notin {"idle", "done"} /\ Refuse(e)

EditNext ==
    \E e \in TeamEdits :
        \/ \E op \in EditOps, u \in Users, w \in Workspaces, v \in Users, r \in Roles :
              /\ op = "create" => w \in Teams \ existing /\ v = u /\ r = "owner"
              /\ op # "create" => w \in existing
              /\ op \in {"rename", "remove"} => r = "owner"
              /\ op = "rename" => v = u
              /\ Ask(e, op, u, w, v, r)
        \/ CreateTeam(e) \/ Authorize(e) \/ ReadTarget(e) \/ CountOwners(e)
        \/ AddMember(e) \/ UpdateMember(e) \/ RemoveMember(e) \/ Rename(e) \/ EditDies(e)

(***************************************************************************)
(* Properties.                                                             *)
(***************************************************************************)

Ended(e) == edit[e].at = "write" /\ edit'[e].at = "done"

\* A workspace loses its last owner only by a request that decided on owners
\* who have changed since it counted them, or by addMember, which overwrites a
\* role without counting.  The counts of updateMember and removeMember hold
\* whenever nothing came between the count and the write.
FreshDecisionsKeepAnOwner ==
    [][\A w \in Workspaces :
         Owners(w) # {} /\ Owners(w)' = {} =>
            \E e \in TeamEdits : Ended(e) /\ edit[e].ws = w
                               /\ (edit[e].stale \/ edit[e].op = "add")]_workspaceVars

\* Who is out of a workspace comes in by an invitation, by founding it, or by
\* signing in to their own: a role change that comes late never lets back in
\* someone who was removed meanwhile.
RemovedStaysOut ==
    [][\A w \in Workspaces, u \in Users :
         role[w][u] = NoRow /\ role'[w][u] # NoRow =>
            \/ w = Home(u)
            \/ \E e \in TeamEdits : /\ edit[e].ws = w /\ edit'[e].at = "done" /\ edit[e].at # "done"
                                /\ \/ edit[e].op = "add" /\ edit[e].target = u
                                   \/ edit[e].op = "create" /\ edit[e].by = u]_workspaceVars
=============================================================================

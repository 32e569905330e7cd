---------------------------- MODULE BoardMembers ----------------------------
(***************************************************************************)
(* The membership of one board: the handlers of server/api/members.go, the *)
(* App operations they call (server/app/boards.go) and the two tables they *)
(* reach (server/services/store/sqlstore/board.go), board_members and      *)
(* board_members_history.  Neither SaveMember nor DeleteMember runs in a   *)
(* transaction and no lock spans a request, so every database call of a    *)
(* request is a step of its own.  Permissions are those of the standalone  *)
(* server (services/permissions/localpermissions).                         *)
(***************************************************************************)
EXTENDS Naturals, Sequences, FiniteSets

CONSTANTS
    Users,
    Creator,        \* the user that created the board
    Grants,         \* sets of schemes a client asks for
    MinimumRole,    \* board.MinimumRole: a scheme, or "none" for the empty string
    Open,           \* board.Type = model.BoardTypeOpen
    Requests,       \* request goroutines; each serves one request at a time
    MaxRequests,    \* bound on the requests served
    MaxCrashes      \* bound on the crashes of the server

Schemes == {"admin", "editor", "commenter", "viewer"}

ASSUME CreatorAssumption == Creator \in Users
ASSUME GrantsAssumption == Grants \subseteq SUBSET Schemes
ASSUME MinimumRoleAssumption == MinimumRole \in Schemes \cup {"none"}

VARIABLES
    members,    \* table board_members: a function from the users that have a row
    history,    \* table board_members_history: the actions recorded for each user
    live,       \* is there a row for the board in table boards
    pc,         \* the step each request goroutine is at
    req,        \* the request it serves and what it has read
    served,     \* number of requests begun
    crashes     \* number of crashes

vars == <<members, history, live, pc, req, served, crashes>>
tables == <<members, history, live>>
counts == <<served, crashes>>

Actions == {"created", "deleted"}
Ops == {"add", "join", "update", "remove", "leave"}
RequestType == [op : Ops, actor : Users, target : Users, grant : SUBSET Schemes,
                existed : BOOLEAN]
NoRequest == [op |-> "add", actor |-> Creator, target |-> Creator, grant |-> {},
              existed |-> FALSE]

IsMember(u) == u \in DOMAIN members
Admins == {u \in DOMAIN members : "admin" \in members[u]}

TypeOK ==
    /\ DOMAIN members \subseteq Users
    /\ members \in [DOMAIN members -> SUBSET Schemes]
    /\ history \in [Users -> Seq(Actions)]
    /\ live \in BOOLEAN
    /\ pc \in [Requests -> {"idle", "authorise", "load", "lastAdmin", "readRow",
                            "upsert", "recordCreated", "deleteRow", "recordDeleted"}]
    /\ req \in [Requests -> RequestType]
    /\ served \in Nat
    /\ crashes \in Nat

\* insertBoardWithAdmin, which is transactional, has committed.
Init ==
    /\ members = [u \in {Creator} |-> {"admin", "editor"}]
    /\ history = [u \in Users |-> IF u = Creator THEN <<"created">> ELSE <<>>]
    /\ live = TRUE
    /\ pc = [r \in Requests |-> "idle"]
    /\ req = [r \in Requests |-> NoRequest]
    /\ served = 0
    /\ crashes = 0

\* The request of r goes on with a step; a request that ends forgets what it read.
Goto(r, step) ==
    /\ pc' = [pc EXCEPT ![r] = step]
    /\ req' = IF step = "idle" THEN [req EXCEPT ![r] = NoRequest] ELSE req

-----------------------------------------------------------------------------
(* The handlers of api/members.go.                                         *)

\* The row joins the board's minimum role, which a deleted board has not.
Rights(u) == IF IsMember(u) THEN members[u] \cup (IF live THEN {MinimumRole} ELSE {}) ELSE {}

\* localpermissions.HasPermissionToBoard, by the schemes that grant a permission.
ManageBoardRoles == {"admin"}
ManageBoardProperties == {"admin", "editor"}
HasPermissionToBoard(u, granting) == Rights(u) \cap granting # {}

\* A join derives the row from the board's minimum role.
JoinGrant == IF MinimumRole = "none" THEN {"editor"} ELSE {MinimumRole}

Arrive(r, op, actor, target, grant) ==
    /\ pc[r] = "idle"
    /\ served < MaxRequests
    /\ op \in {"join", "leave"} => target = actor
    /\ op = "join" => grant = JoinGrant
    /\ op \in {"remove", "leave"} => grant = {}
    /\ req' = [req EXCEPT ![r] = [op |-> op, actor |-> actor, target |-> target,
                                  grant |-> grant, existed |-> FALSE]]
    /\ pc' = [pc EXCEPT ![r] = "authorise"]
    /\ served' = served + 1
    /\ UNCHANGED <<tables, crashes>>

MayAdd(actor) ==
    /\ live
    /\ \/ HasPermissionToBoard(actor, ManageBoardRoles)
       \/ Open /\ HasPermissionToBoard(actor, ManageBoardProperties)

MayJoin == live /\ Open

MayUpdate(actor) == HasPermissionToBoard(actor, ManageBoardRoles)

MayRemove(actor) == live /\ HasPermissionToBoard(actor, ManageBoardRoles)

MayLeave(actor) == HasPermissionToBoard(actor, Schemes) /\ live

Allowed(q) ==
    \/ q.op = "add" /\ MayAdd(q.actor)
    \/ q.op = "join" /\ MayJoin
    \/ q.op = "update" /\ MayUpdate(q.actor)
    \/ q.op = "remove" /\ MayRemove(q.actor)
    \/ q.op = "leave" /\ MayLeave(q.actor)

\* The handler's reads of the board and of the actor's permissions.
Authorise(r) ==
    /\ pc[r] = "authorise"
    /\ Goto(r, IF Allowed(req[r]) THEN "load" ELSE "idle")
    /\ UNCHANGED <<tables, counts>>

-----------------------------------------------------------------------------
(* App.AddMemberToBoard, UpdateBoardMember and DeleteBoardMember.          *)

\* Mutant: an update that keeps no admin is not looked at.
LowersAdminDeleteOnly(q) == q.op \in {"remove", "leave"} /\ "admin" \in members[q.target]

\* Does the request take the admin scheme away from its target?
LowersAdmin(q) ==
    /\ "admin" \in members[q.target]
    /\ q.op = "update" => "admin" \notin q.grant

\* What follows the reads of the board and of the target's membership.
AfterLoad(q) ==
    IF ~live THEN "idle"
    ELSE IF q.op \in {"add", "join"} THEN IF IsMember(q.target) THEN "idle" ELSE "readRow"
    ELSE IF ~IsMember(q.target) THEN "idle"
    ELSE IF LowersAdmin(q) THEN "lastAdmin"
    ELSE IF q.op = "update" THEN "readRow"
    ELSE "deleteRow"

Load(r) ==
    /\ pc[r] = "load"
    /\ Goto(r, AfterLoad(req[r]))
    /\ UNCHANGED <<tables, counts>>

\* isLastAdmin, which reads every membership of the board.
IsLastAdmin(u) == Admins \subseteq {u}

CheckLastAdmin(r) ==
    /\ pc[r] = "lastAdmin"
    /\ Goto(r, IF IsLastAdmin(req[r].target) THEN "idle"
               ELSE IF req[r].op = "update" THEN "readRow"
               ELSE "deleteRow")
    /\ UNCHANGED <<tables, counts>>

-----------------------------------------------------------------------------
(* saveMember and deleteMember of the SQL store.                           *)

ReadRow(r) ==
    /\ pc[r] = "readRow"
    /\ req' = [req EXCEPT ![r].existed = IsMember(req[r].target)]
    /\ pc' = [pc EXCEPT ![r] = "upsert"]
    /\ UNCHANGED <<tables, counts>>

\* Mutant: the history is written on every save.
AfterUpsertAlways(q) == "recordCreated"

AfterUpsert(q) == IF q.existed THEN "idle" ELSE "recordCreated"

Upsert(r) ==
    /\ pc[r] = "upsert"
    /\ members' = [u \in DOMAIN members \cup {req[r].target} |->
                     IF u = req[r].target THEN req[r].grant ELSE members[u]]
    /\ Goto(r, AfterUpsert(req[r]))
    /\ UNCHANGED <<history, live, counts>>

RecordCreated(r) ==
    /\ pc[r] = "recordCreated"
    /\ history' = [history EXCEPT ![req[r].target] = Append(@, "created")]
    /\ Goto(r, "idle")
    /\ UNCHANGED <<members, live, counts>>

\* The history is written only when a row was there to delete.
DeleteRow(r) ==
    /\ pc[r] = "deleteRow"
    /\ members' = [u \in DOMAIN members \ {req[r].target} |-> members[u]]
    /\ Goto(r, IF IsMember(req[r].target) THEN "recordDeleted" ELSE "idle")
    /\ UNCHANGED <<history, live, counts>>

RecordDeleted(r) ==
    /\ pc[r] = "recordDeleted"
    /\ history' = [history EXCEPT ![req[r].target] = Append(@, "deleted")]
    /\ Goto(r, "idle")
    /\ UNCHANGED <<members, live, counts>>

-----------------------------------------------------------------------------
(* The board's own row, and the server.                                    *)

\* deleteBoard leaves the memberships behind; undeleteBoard finds them again.
DeleteBoard ==
    /\ live
    /\ \E u \in Users : HasPermissionToBoard(u, {"admin"})
    /\ live' = FALSE
    /\ UNCHANGED <<members, history, pc, req, counts>>

UndeleteBoard ==
    /\ ~live
    /\ \E u \in Users : HasPermissionToBoard(u, {"admin"})
    /\ live' = TRUE
    /\ UNCHANGED <<members, history, pc, req, counts>>

\* The process dies: what the requests had read is gone, the tables stay.
Crash ==
    /\ crashes < MaxCrashes
    /\ crashes' = crashes + 1
    /\ pc' = [r \in Requests |-> "idle"]
    /\ req' = [r \in Requests |-> NoRequest]
    /\ UNCHANGED <<tables, served>>

Request(r) ==
    \/ \E op \in Ops, actor, target \in Users, grant \in Grants \cup {{}, JoinGrant} :
           Arrive(r, op, actor, target, grant)
    \/ Authorise(r) \/ Load(r) \/ CheckLastAdmin(r)
    \/ ReadRow(r) \/ Upsert(r) \/ RecordCreated(r)
    \/ DeleteRow(r) \/ RecordDeleted(r)

Next ==
    \/ \E r \in Requests : Request(r)
    \/ DeleteBoard \/ UndeleteBoard \/ Crash

Spec == Init /\ [][Next]_vars

-----------------------------------------------------------------------------
(* Properties.                                                             *)

Writing(u) == \E r \in Requests :
    pc[r] \in {"upsert", "recordCreated", "recordDeleted"} /\ req[r].target = u

\* The board keeps an admin (boards.go:575-585, 631-641).  One request at a
\* time cannot lose the last one, whatever its kind and wherever it crashes.
AdminRemains == Admins # {}

\* With one request at a time and no crash the history of a user tells created
\* and deleted apart in turn, and its last entry says whether there is a row.
HistoryAgrees ==
    crashes = 0 => \A u \in Users :
        /\ \A i \in 1..Len(history[u]) :
              history[u][i] = IF i % 2 = 1 THEN "created" ELSE "deleted"
        /\ ~Writing(u) => (IsMember(u) <=> Len(history[u]) % 2 = 1)

\* Even when requests overlap, a member that nobody is writing has an entry
\* that says it was created.
MemberWasCreated ==
    crashes = 0 => \A u \in Users :
        IsMember(u) /\ ~Writing(u) => \E i \in 1..Len(history[u]) : history[u][i] = "created"
=============================================================================

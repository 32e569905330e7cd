---------------------------- MODULE LiveUpdates ----------------------------
(***************************************************************************)
(* Live updates of the clients that show one board: the web client's       *)
(* connection (webapp/src/wsclient.ts), the sessions of the websocket      *)
(* server (server/ws/server.go), and the broadcasts of changes that the    *)
(* App's callback queue executes.  One team; a change is an identifier.    *)
(***************************************************************************)
EXTENDS Naturals, Sequences, FiniteSets

CONSTANTS
    Users,
    None,           \* no user, no lock holder
    Clients,        \* browser tabs
    UserOf,         \* the user logged in at each client
    InitialMembers, \* the board's members at first
    PoolSize,       \* broadcasts executed at a time, notifierPoolSize
    MaxRetries,     \* reopenMaxRetries
    Components,     \* bound on the mounted components of a client
    MaxChanges,     \* bound on the changes committed
    MaxMembers,     \* bound on the changes of membership
    MaxMounts,      \* bound on the components mounted or unmounted
    MaxFaults       \* bound on the connections refused or lost, and restarts

ASSUME NoneAssumption == None \notin Users \cup (Clients \X Nat)
ASSUME UserOfAssumption == UserOf \in [Clients -> Users]
ASSUME InitialMembersAssumption == InitialMembers \subseteq Users
ASSUME BoundsAssumption ==
    {PoolSize, MaxRetries, Components, MaxChanges, MaxMembers, MaxMounts, MaxFaults} \subseteq Nat

VARIABLES
    members,        \* table board_members of the board
    changes,        \* changes committed
    casts,          \* the broadcast of each change
    wire,           \* the connection of each session
    inbox, outbox,  \* what is on its way to the server, to the client
    pc, user, teams,            \* what the server's goroutine of a session knows
    listeners,      \* Server.listeners
    listenersByTeam, \* how often each session is in Server.listenersByTeam[team]
    mu,             \* who holds Server.mu
    ws, phase, retries, mounted, \* WSClient: connection, state, counters
    entitled,       \* users that were members at or after the commit of a change
    owed,           \* clients a change has yet to reach
    memberChanges, mounts, faults   \* counters for the bounds

server == <<pc, user, teams, listeners, listenersByTeam, mu>>
client == <<ws, phase, retries, mounted>>
ghosts == <<entitled, owed>>
counters == <<memberChanges, mounts, faults>>
vars == <<members, changes, casts, wire, inbox, outbox, server, client, ghosts, counters>>

Changes == 1..MaxChanges
Conns == 1..MaxFaults + 1
Sessions == Clients \X Conns
Commands == {"auth", "subscribe", "unsubscribe"}

\* The session of a client's current connection; the client of a session.
Current(c) == <<c, ws[c]>>
HasSession(c) == ws[c] > 0
ClientOf(s) == s[1]

TypeOK ==
    /\ members \subseteq Users
    /\ changes \in 0..MaxChanges
    /\ casts \in [Changes -> [step : {"none", "queued", "listeners", "write"},
                              who : SUBSET Users, to : SUBSET Sessions]]
    /\ wire \in [Sessions -> {"none", "connecting", "up", "down"}]
    /\ inbox \in [Sessions -> Seq(Commands)]
    /\ outbox \in [Sessions -> Seq(Changes)]
    /\ pc \in [Sessions -> {"none", "read", "subscribing", "unsubscribing", "removing", "removed"}]
    /\ user \in [Sessions -> Users \cup {None}]
    /\ teams \in [Sessions -> BOOLEAN]
    /\ listeners \subseteq Sessions
    /\ listenersByTeam \in [Sessions -> Nat]
    /\ mu \in Sessions \cup {None}
    /\ ws \in [Clients -> 0..MaxFaults + 1]
    /\ phase \in [Clients -> {"init", "opening", "open", "close"}]
    /\ retries \in [Clients -> 0..MaxRetries]
    /\ mounted \in [Clients -> 0..Components]
    /\ entitled \in [Changes -> SUBSET Users]
    /\ owed \in [Changes -> SUBSET Clients]
    /\ memberChanges \in 0..MaxMembers
    /\ mounts \in 0..MaxMounts
    /\ faults \in 0..MaxFaults

Init ==
    /\ members = InitialMembers
    /\ changes = 0
    /\ casts = [i \in Changes |-> [step |-> "none", who |-> {}, to |-> {}]]
    /\ wire = [s \in Sessions |-> "none"]
    /\ inbox = [s \in Sessions |-> <<>>]
    /\ outbox = [s \in Sessions |-> <<>>]
    /\ pc = [s \in Sessions |-> "none"]
    /\ user = [s \in Sessions |-> None]
    /\ teams = [s \in Sessions |-> FALSE]
    /\ listeners = {}
    /\ listenersByTeam = [s \in Sessions |-> 0]
    /\ mu = None
    /\ ws = [c \in Clients |-> 0]
    /\ phase = [c \in Clients |-> "init"]
    /\ retries = [c \in Clients |-> 0]
    /\ mounted = [c \in Clients |-> 0]
    /\ entitled = [i \in Changes |-> {}]
    /\ owed = [i \in Changes |-> {}]
    /\ memberChanges = 0 /\ mounts = 0 /\ faults = 0

\* The changes not yet received are no longer owed to the clients in C.
Excuse(C) == owed' = [i \in Changes |-> owed[i] \ C]

-----------------------------------------------------------------------------
(* The client: WSClient.open, its callbacks, and the components that       *)
(* subscribe (hooks/websockets.tsx).                                       *)

Connect(c) ==
    /\ ws' = [ws EXCEPT ![c] = @ + 1]
    /\ phase' = [phase EXCEPT ![c] = "opening"]
    /\ wire' = [wire EXCEPT ![<<c, ws[c] + 1>>] = "connecting"]

Open(c) ==
    /\ phase[c] = "init"
    /\ Connect(c)
    /\ UNCHANGED <<members, changes, casts, inbox, outbox, server, retries, mounted, ghosts, counters>>

\* Mutant: the subscriptions are sent before the token.
OpenCommandsSwapped(c) ==
    IF mounted[c] > 0 THEN <<"subscribe", "auth">> ELSE <<"auth">>

OpenCommands(c) ==
    IF mounted[c] > 0 THEN <<"auth", "subscribe">> ELSE <<"auth">>

OnOpen(c) ==
    /\ phase[c] = "opening"
    /\ wire[Current(c)] = "up"
    /\ phase' = [phase EXCEPT ![c] = "open"]
    /\ retries' = [retries EXCEPT ![c] = 0]
    /\ inbox' = [inbox EXCEPT ![Current(c)] = @ \o OpenCommands(c)]
    /\ UNCHANGED <<members, changes, casts, wire, outbox, server, ws, mounted, ghosts, counters>>

OnClose(c) ==
    /\ phase[c] \in {"opening", "open"}
    /\ wire[Current(c)] = "down"
    /\ phase' = [phase EXCEPT ![c] = "close"]
    /\ UNCHANGED <<members, changes, casts, wire, inbox, outbox, server, ws, retries, mounted, ghosts, counters>>

MayRetry(c) == retries[c] < MaxRetries

\* The timer set by onclose.  The handlers of onReconnect load no blocks.
Reopen(c) ==
    /\ phase[c] = "close"
    /\ MayRetry(c)
    /\ retries' = [retries EXCEPT ![c] = @ + 1]
    /\ Connect(c)
    /\ UNCHANGED <<members, changes, casts, inbox, outbox, server, mounted, ghosts, counters>>

\* sendCommand, when hasConn().
Send(c, command) ==
    inbox' = IF phase[c] = "open" /\ wire[Current(c)] = "up"
             THEN [inbox EXCEPT ![Current(c)] = Append(@, command)]
             ELSE inbox

\* subscribeToTeam: the first component sends the command.
Mount(c) ==
    /\ mounts < MaxMounts
    /\ mounted[c] < Components
    /\ mounted' = [mounted EXCEPT ![c] = @ + 1]
    /\ IF mounted[c] = 0 THEN Send(c, "subscribe") ELSE UNCHANGED inbox
    /\ mounts' = mounts + 1
    /\ UNCHANGED <<members, changes, casts, wire, outbox, server, ws, phase, retries, ghosts, memberChanges, faults>>

MayUnsubscribe(c) == mounted[c] > 0

\* unsubscribeToTeam: the last component sends the command.
Unmount(c) ==
    /\ mounts < MaxMounts
    /\ MayUnsubscribe(c)
    /\ mounted' = [mounted EXCEPT ![c] = @ - 1]
    /\ IF mounted[c] = 1
       THEN Send(c, "unsubscribe") /\ Excuse({c})
       ELSE UNCHANGED <<inbox, owed>>
    /\ mounts' = mounts + 1
    /\ UNCHANGED <<members, changes, casts, wire, outbox, server, ws, phase, retries, entitled, memberChanges, faults>>

\* onmessage ignores other connections than ws, updateHandler other teams.
Listens(s) ==
    LET c == ClientOf(s) IN s = Current(c) /\ phase[c] = "open" /\ mounted[c] > 0

OnMessage(s) ==
    /\ outbox[s] # <<>>
    /\ outbox' = [outbox EXCEPT ![s] = Tail(@)]
    /\ owed' = IF Listens(s)
               THEN [owed EXCEPT ![Head(outbox[s])] = @ \ {ClientOf(s)}]
               ELSE owed
    /\ UNCHANGED <<members, changes, casts, wire, inbox, server, client, entitled, counters>>

-----------------------------------------------------------------------------
(* The server's goroutine of a session: handleWebSocket.                   *)

Accept(s) ==
    /\ wire[s] = "connecting"
    /\ mu = None
    /\ wire' = [wire EXCEPT ![s] = "up"]
    /\ pc' = [pc EXCEPT ![s] = "read"]
    /\ listeners' = listeners \cup {s}
    /\ UNCHANGED <<members, changes, casts, inbox, outbox, user, teams, listenersByTeam, mu, client, ghosts, counters>>

\* ReadMessage returns a command.
Reads(s, command) ==
    /\ pc[s] = "read"
    /\ inbox[s] # <<>>
    /\ Head(inbox[s]) = command
    /\ inbox' = [inbox EXCEPT ![s] = Tail(@)]
    /\ UNCHANGED <<members, changes, casts, wire, outbox, client, ghosts, counters>>

Lock(s, step) ==
    /\ mu = None
    /\ mu' = s
    /\ pc' = [pc EXCEPT ![s] = step]

Unlock(s, step) ==
    /\ mu' = None
    /\ pc' = [pc EXCEPT ![s] = step]

AuthenticateListener(s) ==
    /\ Reads(s, "auth")
    /\ user' = [user EXCEPT ![s] = IF @ = None THEN UserOf[ClientOf(s)] ELSE @]
    /\ UNCHANGED <<pc, teams, listeners, listenersByTeam, mu>>

SubscribeListener(s) ==
    /\ Reads(s, "subscribe")
    /\ IF user[s] = None \/ teams[s]
       THEN UNCHANGED <<pc, mu>>
       ELSE Lock(s, "subscribing")
    /\ UNCHANGED <<user, teams, listeners, listenersByTeam>>

UnsubscribeListener(s) ==
    /\ Reads(s, "unsubscribe")
    /\ IF user[s] = None \/ ~teams[s]
       THEN UNCHANGED <<pc, mu>>
       ELSE Lock(s, "unsubscribing")
    /\ UNCHANGED <<user, teams, listeners, listenersByTeam>>

\* ReadMessage returns an error.
ReadFails(s) ==
    /\ pc[s] = "read"
    /\ wire[s] = "down"
    /\ Lock(s, "removing")
    /\ UNCHANGED <<members, changes, casts, wire, inbox, outbox, user, teams, listeners, listenersByTeam, client, ghosts, counters>>

\* Mutant: a session stays in the index when it unsubscribes or closes.
OthersAll(s) == listenersByTeam

\* removeListenerFromTeam copies the others, in their order.
Others(s) == [listenersByTeam EXCEPT ![s] = 0]

\* The critical sections of subscribeListenerToTeam, unsubscribeListenerFromTeam
\* and removeListener.
EndCritical(s) ==
    /\ mu = s
    /\ \/ /\ pc[s] = "subscribing"
          /\ listenersByTeam' = [listenersByTeam EXCEPT ![s] = @ + 1]
          /\ teams' = [teams EXCEPT ![s] = TRUE]
          /\ Unlock(s, "read")
          /\ UNCHANGED listeners
       \/ /\ pc[s] = "unsubscribing"
          /\ listenersByTeam' = Others(s)
          /\ teams' = [teams EXCEPT ![s] = FALSE]
          /\ Unlock(s, "read")
          /\ UNCHANGED listeners
       \/ /\ pc[s] = "removing"
          /\ listenersByTeam' = IF teams[s] THEN Others(s) ELSE listenersByTeam
          /\ teams' = [teams EXCEPT ![s] = FALSE]
          /\ listeners' = listeners \ {s}
          /\ Unlock(s, "removed")
    /\ UNCHANGED <<members, changes, casts, wire, inbox, outbox, user, client, ghosts, counters>>

-----------------------------------------------------------------------------
(* Changes and their broadcasts: a request commits and enqueues, a worker  *)
(* of the callback queue executes BroadcastBlockChange.                    *)

\* A client a change must reach: subscribed, shown and a member.
Watching(c) ==
    /\ HasSession(c)
    /\ wire[Current(c)] = "up" /\ teams[Current(c)] /\ pc[Current(c)] = "read"
    /\ mounted[c] > 0
    /\ inbox[Current(c)] = <<>>
    /\ UserOf[c] \in members

\* Requests that overlap enqueue in any order: casts keeps no order.
Commit ==
    /\ changes < MaxChanges
    /\ changes' = changes + 1
    /\ casts' = [casts EXCEPT ![changes + 1].step = "queued"]
    /\ entitled' = [entitled EXCEPT ![changes + 1] = members]
    /\ owed' = [owed EXCEPT ![changes + 1] = {c \in Clients : Watching(c)}]
    /\ UNCHANGED <<members, wire, inbox, outbox, server, client, counters>>

Executing ==
    {i \in Changes : casts[i].step = "listeners" \/ (casts[i].step = "write" /\ casts[i].to # {})}

\* The worker that takes the callback reads the members of the board, and
\* starts to read the index with no lock.
ReadMembers(i) ==
    /\ casts[i].step = "queued"
    /\ Cardinality(Executing) < PoolSize
    /\ casts' = [casts EXCEPT ![i] = [@ EXCEPT !.step = "listeners", !.who = members]]
    /\ UNCHANGED <<members, changes, wire, inbox, outbox, server, client, ghosts, counters>>

Subscribed == {s \in Sessions : listenersByTeam[s] > 0}

\* Mutant: one listener of each member, as getListenerForUser returns.
FirstListeners(who) ==
    {s \in Subscribed : user[s] \in who /\ s = CHOOSE l \in Subscribed : user[l] = user[s]}

\* Mutant: whoever subscribed to the team.
TeamListeners(who) == Subscribed

\* getListenersForTeamAndBoard.
ListenersOf(who) == {s \in Subscribed : user[s] \in who}

ReadListeners(i) ==
    /\ casts[i].step = "listeners"
    /\ casts' = [casts EXCEPT ![i] = [step |-> "write", who |-> {}, to |-> ListenersOf(casts[i].who)]]
    /\ UNCHANGED <<members, changes, wire, inbox, outbox, server, client, ghosts, counters>>

\* WriteJSON fails on a connection that is down.
Write(i, s) ==
    /\ casts[i].step = "write"
    /\ s \in casts[i].to
    /\ outbox' = IF wire[s] = "up" THEN [outbox EXCEPT ![s] = Append(@, i)] ELSE outbox
    /\ casts' = [casts EXCEPT ![i].to = @ \ {s}]
    /\ UNCHANGED <<members, changes, wire, inbox, server, client, ghosts, counters>>

AddMember(u) ==
    /\ memberChanges < MaxMembers
    /\ u \notin members
    /\ members' = members \cup {u}
    /\ entitled' = [i \in Changes |-> IF i <= changes THEN entitled[i] \cup {u} ELSE entitled[i]]
    /\ memberChanges' = memberChanges + 1
    /\ UNCHANGED <<changes, casts, wire, inbox, outbox, server, client, owed, mounts, faults>>

RemoveMember(u) ==
    /\ memberChanges < MaxMembers
    /\ u \in members
    /\ members' = members \ {u}
    /\ Excuse({c \in Clients : UserOf[c] = u})
    /\ memberChanges' = memberChanges + 1
    /\ UNCHANGED <<changes, casts, wire, inbox, outbox, server, client, entitled, mounts, faults>>

-----------------------------------------------------------------------------
(* Faults.                                                                 *)

\* The connection is refused or lost; what is under way may still arrive.
LoseConnection(s) ==
    /\ faults < MaxFaults
    /\ wire[s] \in {"connecting", "up"}
    /\ wire' = [wire EXCEPT ![s] = "down"]
    /\ Excuse({ClientOf(s)})
    /\ faults' = faults + 1
    /\ UNCHANGED <<members, changes, casts, inbox, outbox, server, client, entitled, memberChanges, mounts>>

\* The server process ends, for one when the Go runtime detects that a map is
\* read and written at a time, and starts again.
Restart ==
    /\ faults < MaxFaults
    /\ wire' = [s \in Sessions |-> IF wire[s] = "none" THEN "none" ELSE "down"]
    /\ pc' = [s \in Sessions |-> IF wire[s] = "none" THEN "none" ELSE "removed"]
    /\ inbox' = [s \in Sessions |-> <<>>]
    /\ teams' = [s \in Sessions |-> FALSE]
    /\ listeners' = {} /\ listenersByTeam' = [s \in Sessions |-> 0] /\ mu' = None
    /\ casts' = [i \in Changes |-> IF casts[i].step = "none" THEN casts[i]
                                   ELSE [step |-> "write", who |-> {}, to |-> {}]]
    /\ Excuse(Clients)
    /\ faults' = faults + 1
    /\ UNCHANGED <<members, changes, outbox, user, client, entitled, memberChanges, mounts>>

-----------------------------------------------------------------------------

ClientStep(c) == Open(c) \/ OnOpen(c) \/ OnClose(c) \/ Reopen(c)

SessionStep(s) ==
    \/ Accept(s) \/ AuthenticateListener(s) \/ SubscribeListener(s) \/ UnsubscribeListener(s)
    \/ ReadFails(s) \/ EndCritical(s)

CastStep(i) ==
    \/ ReadMembers(i) \/ ReadListeners(i)
    \/ \E s \in Sessions : Write(i, s)

Environment ==
    \/ \E c \in Clients : Mount(c) \/ Unmount(c)
    \/ Commit
    \/ \E u \in Users : AddMember(u) \/ RemoveMember(u)
    \/ \E s \in Sessions : LoseConnection(s)
    \/ Restart

Next ==
    \/ \E c \in Clients : ClientStep(c)
    \/ \E s \in Sessions : SessionStep(s) \/ OnMessage(s)
    \/ \E i \in Changes : CastStep(i)
    \/ Environment

Spec == Init /\ [][Next]_vars

\* Browsers and goroutines run on; users, the database and faults do as they like.
Fairness ==
    /\ \A c \in Clients : WF_vars(ClientStep(c))
    /\ \A s \in Sessions : WF_vars(SessionStep(s)) /\ WF_vars(OnMessage(s))
    /\ \A i \in Changes : WF_vars(CastStep(i))

FairSpec == Spec /\ Fairness

-----------------------------------------------------------------------------
(* Properties.                                                             *)

\* The index by team and the sessions agree, no session is twice in it, and no
\* session whose goroutine has gone is left there.
ListenersConsistent ==
    /\ \A s \in Sessions : listenersByTeam[s] <= 1
    /\ \A s \in Sessions : teams[s] <=> s \in Subscribed
    /\ Subscribed \subseteq listeners
    /\ \A s \in listeners : pc[s] \notin {"none", "removed"} /\ (teams[s] => user[s] # None)

\* Nobody hears of a change who has not been a member since it was committed:
\* the members are read after the commit, whatever comes in between.
OnlyMembersHear ==
    \A s \in Sessions : \A n \in 1..Len(outbox[s]) :
        UserOf[ClientOf(s)] \in entitled[outbox[s][n]]

\* A change reaches every tab that showed the board when it was committed, unless
\* the tab closes the board, its user leaves, or its connection or the server is lost.
ChangesReach == \A i \in Changes : \A c \in Clients : (c \in owed[i]) ~> (c \notin owed[i])

\* Once a connection stays, what the server sends comes to be what the components
\* ask for, whatever was mounted while it was closed or opening.
SubscriptionsConverge ==
    \A c \in Clients :
        <>[](phase[c] = "open") =>
            <>[](phase[c] = "open" => (teams[Current(c)] <=> mounted[c] > 0))
=============================================================================

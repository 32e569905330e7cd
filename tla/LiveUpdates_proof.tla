------------------------- MODULE LiveUpdates_proof -------------------------
(* Proofs about LiveUpdates, for any clients, users, and bounds.           *)
EXTENDS LiveUpdates, TLAPS

\* A client has opened one connection more than faults can have closed.
Counted ==
    \A c \in Clients :
        /\ phase[c] = "init" => ws[c] = 0
        /\ ws[c] <= faults + 1
        /\ ws[c] > 0 /\ wire[Current(c)] = "down" => ws[c] <= faults
        /\ phase[c] = "close" => ws[c] <= faults
        /\ phase[c] # "init" => ws[c] > 0

Typed == TypeOK /\ Counted

LEMMA BoundsNat ==
  /\ PoolSize \in Nat /\ MaxRetries \in Nat /\ Components \in Nat /\ MaxChanges \in Nat
  /\ MaxMembers \in Nat /\ MaxMounts \in Nat /\ MaxFaults \in Nat
BY BoundsAssumption

LEMMA InitTyped == Init => Typed
<1> SUFFICES ASSUME Init PROVE Typed
  OBVIOUS
<1> USE InitialMembersAssumption, BoundsNat
<1>1. casts \in [Changes -> [step : {"none", "queued", "listeners", "write"},
                              who : SUBSET Users, to : SUBSET Sessions]]
  BY DEF Init
<1>2. <<>> \in Seq(Commands) /\ <<>> \in Seq(Changes)
  OBVIOUS
<1>3. inbox \in [Sessions -> Seq(Commands)] /\ outbox \in [Sessions -> Seq(Changes)] /\ listenersByTeam \in [Sessions -> Nat]
  BY <1>2 DEF Init
<1>4. Counted
  BY DEF Init, Counted
<1>5. QED BY <1>1, <1>3, <1>4 DEF Init, TypeOK, Typed

LEMMA ConnectTyped ==
  ASSUME Typed, NEW c \in Clients, ws[c] <= faults, faults' = faults, Connect(c)
  PROVE  /\ ws' \in [Clients -> 0..MaxFaults + 1]
         /\ phase' \in [Clients -> {"init", "opening", "open", "close"}]
         /\ wire' \in [Sessions -> {"none", "connecting", "up", "down"}]
         /\ Counted'
<1> USE BoundsNat
<1>0. /\ ws \in [Clients -> 0..MaxFaults + 1] /\ faults \in 0..MaxFaults
      /\ phase \in [Clients -> {"init", "opening", "open", "close"}]
      /\ wire \in [Sessions -> {"none", "connecting", "up", "down"}]
  BY DEF Typed, TypeOK
<1>1. ws[c] + 1 \in Conns /\ ws[c] \in Nat
  BY <1>0 DEF Conns
<1>2. <<c, ws[c] + 1>> \in Sessions
  BY <1>1 DEF Sessions
<1>3. /\ ws' \in [Clients -> 0..MaxFaults + 1]
      /\ phase' \in [Clients -> {"init", "opening", "open", "close"}]
      /\ wire' \in [Sessions -> {"none", "connecting", "up", "down"}]
  BY <1>0, <1>1, <1>2 DEF Connect, Conns
<1>4. Counted'
  <2> SUFFICES ASSUME NEW d \in Clients PROVE
        /\ phase'[d] = "init" => ws'[d] = 0
        /\ ws'[d] <= faults' + 1
        /\ ws'[d] > 0 /\ wire'[<<d, ws'[d]>>] = "down" => ws'[d] <= faults'
        /\ phase'[d] = "close" => ws'[d] <= faults'
        /\ phase'[d] # "init" => ws'[d] > 0
    BY DEF Counted, Current
  <2>1. CASE d = c
    BY <2>1, <1>0, <1>1, <1>2 DEF Connect
  <2>2. CASE d # c
    <3>1. ws'[d] = ws[d] /\ phase'[d] = phase[d]
      BY <2>2, <1>0 DEF Connect
    <3>2. <<d, ws[d]>> # <<c, ws[c] + 1>>
      BY <2>2
    <3>3. ws[d] > 0 => <<d, ws[d]>> \in Sessions
      BY <1>0 DEF Sessions, Conns
    <3>4. ws[d] > 0 => wire'[<<d, ws[d]>>] = wire[<<d, ws[d]>>]
      BY <3>2, <3>3, <1>0 DEF Connect
    <3>5. QED BY <3>1, <3>4 DEF Typed, Counted, Current
  <2>3. QED BY <2>1, <2>2
<1>5. QED BY <1>3, <1>4

\* Appending to a queue keeps its type.
LEMMA AppendTyped ==
  ASSUME NEW S, NEW T, NEW f \in [S -> Seq(T)], NEW k \in S, NEW e \in T
  PROVE  [f EXCEPT ![k] = Append(@, e)] \in [S -> Seq(T)]
OBVIOUS

LEMMA TailTyped ==
  ASSUME NEW S, NEW T, NEW f \in [S -> Seq(T)], NEW k \in S, f[k] # <<>>
  PROVE  /\ [f EXCEPT ![k] = Tail(@)] \in [S -> Seq(T)]
         /\ Head(f[k]) \in T
OBVIOUS

LEMMA ClientStepTyped ==
  ASSUME Typed, NEW c \in Clients, ClientStep(c)
  PROVE  Typed'
<1> USE BoundsNat
<1>0. /\ ws \in [Clients -> 0..MaxFaults + 1] /\ faults \in 0..MaxFaults
      /\ phase \in [Clients -> {"init", "opening", "open", "close"}]
      /\ retries \in [Clients -> 0..MaxRetries] /\ mounted \in [Clients -> 0..Components]
      /\ wire \in [Sessions -> {"none", "connecting", "up", "down"}]
      /\ inbox \in [Sessions -> Seq(Commands)] /\ TypeOK /\ Counted
  BY DEF Typed, TypeOK
<1>1. CASE Open(c)
  <2>1. ws[c] <= faults /\ faults' = faults /\ Connect(c)
    BY <1>0, <1>1 DEF Open, Counted, counters
  <2>2. QED BY <1>0, <1>1, <2>1, ConnectTyped DEF Open, Typed, TypeOK, server, ghosts, counters
<1>2. CASE OnOpen(c)
  <2>1. Current(c) \in Sessions
    <3>1. ws[c] \in Conns
      <4>1. ws[c] > 0 /\ ws[c] \in 0..MaxFaults + 1
        BY <1>0, <1>2 DEF OnOpen, Counted
      <4>2. QED BY <4>1 DEF Conns
    <3>2. QED BY <3>1 DEF Current, Sessions
  <2>2. OpenCommands(c) \in Seq(Commands)
    <3>1. "auth" \in Commands /\ "subscribe" \in Commands
      BY DEF Commands
    <3>2. QED BY <3>1 DEF OpenCommands
  <2>3. inbox[Current(c)] \o OpenCommands(c) \in Seq(Commands)
    BY <1>0, <2>1, <2>2
  <2>4. inbox' \in [Sessions -> Seq(Commands)]
    BY <1>0, <1>2, <2>3 DEF OnOpen
  <2>5. /\ phase' \in [Clients -> {"init", "opening", "open", "close"}]
        /\ retries' \in [Clients -> 0..MaxRetries]
    BY <1>0, <1>2 DEF OnOpen
  <2>6. Counted'
    BY <1>0, <1>2 DEF OnOpen, Counted, Current, counters
  <2>7. QED BY <1>0, <1>2, <2>4, <2>5, <2>6 DEF OnOpen, Typed, TypeOK, server, ghosts, counters
<1>3. CASE OnClose(c)
  <2>1. phase' \in [Clients -> {"init", "opening", "open", "close"}]
    BY <1>0, <1>3 DEF OnClose
  <2>2. Counted'
    BY <1>0, <1>3 DEF OnClose, Counted, Current, counters
  <2>3. QED BY <1>0, <1>3, <2>1, <2>2 DEF OnClose, Typed, TypeOK, server, ghosts, counters
<1>4. CASE Reopen(c)
  <2>1. ws[c] <= faults /\ faults' = faults /\ Connect(c)
    BY <1>0, <1>4 DEF Reopen, Counted, counters
  <2>2. retries' \in [Clients -> 0..MaxRetries]
    BY <1>0, <1>4 DEF Reopen, MayRetry
  <2>3. QED BY <1>0, <1>4, <2>1, <2>2, ConnectTyped DEF Reopen, Typed, TypeOK, server, ghosts, counters
<1>5. QED BY <1>1, <1>2, <1>3, <1>4 DEF ClientStep

LEMMA SessionStepTyped ==
  ASSUME Typed, NEW s \in Sessions, SessionStep(s)
  PROVE  Typed'
<1> USE NoneAssumption
<1>0. /\ pc \in [Sessions -> {"none", "read", "subscribing", "unsubscribing", "removing", "removed"}]
      /\ user \in [Sessions -> Users \cup {None}] /\ teams \in [Sessions -> BOOLEAN]
      /\ listeners \subseteq Sessions /\ listenersByTeam \in [Sessions -> Nat]
      /\ mu \in Sessions \cup {None} /\ inbox \in [Sessions -> Seq(Commands)]
      /\ wire \in [Sessions -> {"none", "connecting", "up", "down"}]
      /\ TypeOK /\ Counted
  BY DEF Typed, TypeOK
<1>1. CASE Accept(s)
  <2>1. /\ wire' \in [Sessions -> {"none", "connecting", "up", "down"}]
        /\ pc' \in [Sessions -> {"none", "read", "subscribing", "unsubscribing", "removing", "removed"}]
    BY <1>0, <1>1 DEF Accept
  <2>2. Counted'
    BY <1>0, <1>1 DEF Accept, Counted, Current, client, counters
  <2>3. QED BY <1>0, <1>1, <2>1, <2>2 DEF Accept, Typed, TypeOK, client, ghosts, counters
<1>2. ASSUME NEW command \in Commands, Reads(s, command)
      PROVE  /\ inbox' \in [Sessions -> Seq(Commands)]
             /\ UNCHANGED <<members, changes, casts, wire, outbox, client, ghosts, counters>>
  <2>1. [inbox EXCEPT ![s] = Tail(@)] \in [Sessions -> Seq(Commands)]
    BY <1>0, <1>2, TailTyped DEF Reads
  <2>2. QED BY <1>2, <2>1 DEF Reads
<1>c. "auth" \in Commands /\ "subscribe" \in Commands /\ "unsubscribe" \in Commands
  BY DEF Commands
<1>3. CASE AuthenticateListener(s)
  <2>1. Reads(s, "auth")
    BY <1>3 DEF AuthenticateListener
  <2>2. user' \in [Sessions -> Users \cup {None}]
    <3>1. UserOf[ClientOf(s)] \in Users
      BY UserOfAssumption DEF ClientOf, Sessions
    <3>2. QED BY <1>0, <1>3, <3>1 DEF AuthenticateListener
  <2>3. Counted'
    BY <1>0, <1>2, <1>c, <2>1 DEF Counted, Current, client, counters
  <2>4. QED BY <1>0, <1>2, <1>c, <1>3, <2>1, <2>2, <2>3
             DEF AuthenticateListener, Typed, TypeOK, client, ghosts, counters
<1>4. CASE SubscribeListener(s) \/ UnsubscribeListener(s)
  <2>1. Reads(s, "subscribe") \/ Reads(s, "unsubscribe")
    BY <1>4 DEF SubscribeListener, UnsubscribeListener
  <2>2. /\ pc' \in [Sessions -> {"none", "read", "subscribing", "unsubscribing", "removing", "removed"}]
        /\ mu' \in Sessions \cup {None}
    BY <1>0, <1>4 DEF SubscribeListener, UnsubscribeListener, Lock
  <2>3. Counted'
    BY <1>0, <1>2, <1>c, <2>1 DEF Counted, Current, client, counters
  <2>4. QED BY <1>0, <1>2, <1>c, <1>4, <2>1, <2>2, <2>3, ZenonT(60)
             DEF SubscribeListener, UnsubscribeListener, Typed, TypeOK, client, ghosts, counters
<1>5. CASE ReadFails(s)
  <2>1. /\ pc' \in [Sessions -> {"none", "read", "subscribing", "unsubscribing", "removing", "removed"}]
        /\ mu' \in Sessions \cup {None}
    BY <1>0, <1>5 DEF ReadFails, Lock
  <2>2. Counted'
    BY <1>0, <1>5 DEF ReadFails, Counted, Current, client, counters
  <2>3. QED BY <1>0, <1>5, <2>1, <2>2 DEF ReadFails, Typed, TypeOK, client, ghosts, counters
<1>6. CASE EndCritical(s)
  <2>1. Others(s) \in [Sessions -> Nat]
    BY <1>0 DEF Others
  <2>2. /\ pc' \in [Sessions -> {"none", "read", "subscribing", "unsubscribing", "removing", "removed"}]
        /\ mu' \in Sessions \cup {None} /\ teams' \in [Sessions -> BOOLEAN]
        /\ listeners' \subseteq Sessions /\ listenersByTeam' \in [Sessions -> Nat]
    <3>1. listenersByTeam' \in [Sessions -> Nat]
      <4>1. [listenersByTeam EXCEPT ![s] = @ + 1] \in [Sessions -> Nat]
        BY <1>0
      <4>2. QED BY <1>0, <1>6, <2>1, <4>1 DEF EndCritical
    <3>2. teams' \in [Sessions -> BOOLEAN] /\ listeners' \subseteq Sessions
      BY <1>0, <1>6 DEF EndCritical
    <3>3. /\ mu' \in Sessions \cup {None}
          /\ pc' \in [Sessions -> {"none", "read", "subscribing", "unsubscribing", "removing", "removed"}]
      BY <1>0, <1>6 DEF EndCritical, Unlock
    <3>4. QED BY <3>1, <3>2, <3>3
  <2>3. Counted'
    BY <1>0, <1>6 DEF EndCritical, Counted, Current, client, counters
  <2>4. QED BY <1>0, <1>6, <2>2, <2>3 DEF EndCritical, Typed, TypeOK, client, ghosts, counters
<1>7. QED BY <1>1, <1>3, <1>4, <1>5, <1>6 DEF SessionStep

LEMMA MessageTyped ==
  ASSUME Typed, NEW s \in Sessions, OnMessage(s)
  PROVE  Typed'
<1>0. outbox \in [Sessions -> Seq(Changes)] /\ owed \in [Changes -> SUBSET Clients]
      /\ TypeOK /\ Counted
  BY DEF Typed, TypeOK
<1>1. outbox' \in [Sessions -> Seq(Changes)] /\ Head(outbox[s]) \in Changes
  BY <1>0, TailTyped DEF OnMessage
<1>2. owed' \in [Changes -> SUBSET Clients]
  BY <1>0, <1>1 DEF OnMessage
<1>3. Counted'
  BY <1>0 DEF OnMessage, Counted, Current, client, counters
<1>4. QED BY <1>0, <1>1, <1>2, <1>3 DEF OnMessage, Typed, TypeOK, server, client, counters

LEMMA CastStepTyped ==
  ASSUME Typed, NEW i \in Changes, CastStep(i)
  PROVE  Typed'
<1>0. /\ outbox \in [Sessions -> Seq(Changes)] /\ members \subseteq Users
      /\ casts \in [Changes -> [step : {"none", "queued", "listeners", "write"},
                              who : SUBSET Users, to : SUBSET Sessions]]
      /\ TypeOK /\ Counted
  BY DEF Typed, TypeOK
<1>1. CASE ReadMembers(i)
  <2>1. [casts[i] EXCEPT !.step = "listeners", !.who = members] \in
          [step : {"none", "queued", "listeners", "write"}, who : SUBSET Users, to : SUBSET Sessions]
    BY <1>0
  <2>2. casts' \in [Changes -> [step : {"none", "queued", "listeners", "write"},
                              who : SUBSET Users, to : SUBSET Sessions]]
    BY <1>0, <1>1, <2>1 DEF ReadMembers
  <2>3. Counted'
    BY <1>0, <1>1 DEF ReadMembers, Counted, Current, client, counters
  <2>4. QED BY <1>0, <1>1, <2>2, <2>3 DEF ReadMembers, Typed, TypeOK, server, client, ghosts, counters
<1>2. CASE ReadListeners(i)
  <2>1. ListenersOf(casts[i].who) \subseteq Sessions
    BY DEF ListenersOf, Subscribed
  <2>2. casts' \in [Changes -> [step : {"none", "queued", "listeners", "write"},
                              who : SUBSET Users, to : SUBSET Sessions]]
    BY <1>0, <1>2, <2>1 DEF ReadListeners
  <2>3. Counted'
    BY <1>0, <1>2 DEF ReadListeners, Counted, Current, client, counters
  <2>4. QED BY <1>0, <1>2, <2>2, <2>3 DEF ReadListeners, Typed, TypeOK, server, client, ghosts, counters
<1>3. ASSUME NEW s \in Sessions, Write(i, s) PROVE Typed'
  <2>1. casts' \in [Changes -> [step : {"none", "queued", "listeners", "write"},
                              who : SUBSET Users, to : SUBSET Sessions]]
    <3>1. [casts[i] EXCEPT !.to = @ \ {s}] \in
            [step : {"none", "queued", "listeners", "write"}, who : SUBSET Users, to : SUBSET Sessions]
      BY <1>0
    <3>2. QED BY <1>0, <1>3, <3>1 DEF Write
  <2>2. outbox' \in [Sessions -> Seq(Changes)]
    BY <1>0, <1>3, AppendTyped DEF Write
  <2>3. Counted'
    BY <1>0, <1>3 DEF Write, Counted, Current, client, counters
  <2>4. QED BY <1>0, <1>3, <2>1, <2>2, <2>3 DEF Write, Typed, TypeOK, server, client, ghosts, counters
<1>4. QED BY <1>1, <1>2, <1>3 DEF CastStep

LEMMA EnvironmentTyped ==
  ASSUME Typed, Environment
  PROVE  Typed'
<1> USE BoundsNat
<1>0. /\ mounted \in [Clients -> 0..Components] /\ mounts \in 0..MaxMounts
      /\ phase \in [Clients -> {"init", "opening", "open", "close"}]
      /\ ws \in [Clients -> 0..MaxFaults + 1] /\ faults \in 0..MaxFaults
      /\ memberChanges \in 0..MaxMembers /\ members \subseteq Users /\ changes \in 0..MaxChanges
      /\ wire \in [Sessions -> {"none", "connecting", "up", "down"}]
      /\ inbox \in [Sessions -> Seq(Commands)] /\ outbox \in [Sessions -> Seq(Changes)]
      /\ casts \in [Changes -> [step : {"none", "queued", "listeners", "write"},
                              who : SUBSET Users, to : SUBSET Sessions]]
      /\ entitled \in [Changes -> SUBSET Users] /\ owed \in [Changes -> SUBSET Clients]
      /\ TypeOK /\ Counted
  BY DEF Typed, TypeOK
<1>e. ASSUME NEW C, Excuse(C) PROVE owed' \in [Changes -> SUBSET Clients]
  BY <1>0, <1>e DEF Excuse
<1>s. ASSUME NEW c \in Clients, NEW command \in Commands, Send(c, command)
      PROVE  inbox' \in [Sessions -> Seq(Commands)]
  <2>1. CASE phase[c] = "open"
    <3>1. ws[c] \in Conns
      <4>1. ws[c] > 0 /\ ws[c] \in 0..MaxFaults + 1
        BY <1>0, <2>1 DEF Counted
      <4>2. QED BY <4>1 DEF Conns
    <3>2. Current(c) \in Sessions
      BY <3>1 DEF Current, Sessions
    <3>3. [inbox EXCEPT ![Current(c)] = Append(@, command)] \in [Sessions -> Seq(Commands)]
      BY <1>0, <3>2, AppendTyped
    <3>4. QED BY <1>0, <1>s, <3>3 DEF Send
  <2>2. CASE phase[c] # "open"
    BY <1>0, <1>s, <2>2 DEF Send
  <2>3. QED BY <2>1, <2>2
<1>c. "subscribe" \in Commands /\ "unsubscribe" \in Commands
  BY DEF Commands
<1>1. ASSUME NEW c \in Clients, Mount(c) PROVE Typed'
  <2>1. inbox' \in [Sessions -> Seq(Commands)]
    BY <1>0, <1>1, <1>s, <1>c DEF Mount
  <2>2. mounted' \in [Clients -> 0..Components] /\ mounts' \in 0..MaxMounts
    BY <1>0, <1>1 DEF Mount
  <2>3. Counted'
    BY <1>0, <1>1 DEF Mount, Counted, Current
  <2>4. QED BY <1>0, <1>1, <2>1, <2>2, <2>3 DEF Mount, Typed, TypeOK, server, ghosts
<1>2. ASSUME NEW c \in Clients, Unmount(c) PROVE Typed'
  <2>1. inbox' \in [Sessions -> Seq(Commands)] /\ owed' \in [Changes -> SUBSET Clients]
    BY <1>0, <1>2, <1>s, <1>c, <1>e DEF Unmount
  <2>2. mounted' \in [Clients -> 0..Components] /\ mounts' \in 0..MaxMounts
    BY <1>0, <1>2 DEF Unmount, MayUnsubscribe
  <2>3. Counted'
    BY <1>0, <1>2 DEF Unmount, Counted, Current
  <2>4. QED BY <1>0, <1>2, <2>1, <2>2, <2>3 DEF Unmount, Typed, TypeOK, server
<1>3. CASE Commit
  <2>1. changes + 1 \in Changes /\ changes' \in 0..MaxChanges
    BY <1>0, <1>3 DEF Commit, Changes
  <2>2. casts' \in [Changes -> [step : {"none", "queued", "listeners", "write"},
                              who : SUBSET Users, to : SUBSET Sessions]]
    <3>1. [casts[changes + 1] EXCEPT !.step = "queued"] \in
            [step : {"none", "queued", "listeners", "write"}, who : SUBSET Users, to : SUBSET Sessions]
      BY <1>0, <2>1, ZenonT(60)
    <3>2. QED BY <1>0, <1>3, <2>1, <3>1 DEF Commit
  <2>3. entitled' \in [Changes -> SUBSET Users] /\ owed' \in [Changes -> SUBSET Clients]
    BY <1>0, <1>3 DEF Commit
  <2>4. Counted'
    BY <1>0, <1>3 DEF Commit, Counted, Current, client, counters
  <2>5. QED BY <1>0, <1>3, <2>1, <2>2, <2>3, <2>4 DEF Commit, Typed, TypeOK, server, client, counters
<1>4. ASSUME NEW u \in Users, AddMember(u) \/ RemoveMember(u) PROVE Typed'
  <2>1. members' \subseteq Users /\ memberChanges' \in 0..MaxMembers
    BY <1>0, <1>4 DEF AddMember, RemoveMember
  <2>2. entitled' \in [Changes -> SUBSET Users] /\ owed' \in [Changes -> SUBSET Clients]
    BY <1>0, <1>4, <1>e DEF AddMember, RemoveMember
  <2>3. Counted'
    BY <1>0, <1>4 DEF AddMember, RemoveMember, Counted, Current, client
  <2>4. QED BY <1>0, <1>4, <2>1, <2>2, <2>3 DEF AddMember, RemoveMember, Typed, TypeOK, server, client
<1>5. ASSUME NEW s \in Sessions, LoseConnection(s) PROVE Typed'
  <2>1. faults' \in 0..MaxFaults /\ wire' \in [Sessions -> {"none", "connecting", "up", "down"}]
    BY <1>0, <1>5 DEF LoseConnection
  <2>2. owed' \in [Changes -> SUBSET Clients]
    BY <1>0, <1>5, <1>e DEF LoseConnection
  <2>3. Counted'
    BY <1>0, <1>5 DEF LoseConnection, Counted, Current, client
  <2>4. QED BY <1>0, <1>5, <2>1, <2>2, <2>3 DEF LoseConnection, Typed, TypeOK, server, client
<1>6. CASE Restart
  <2>1. faults' \in 0..MaxFaults /\ wire' \in [Sessions -> {"none", "connecting", "up", "down"}]
        /\ owed' \in [Changes -> SUBSET Clients] /\ inbox' \in [Sessions -> Seq(Commands)]
        /\ listeners' \subseteq Sessions /\ listenersByTeam' \in [Sessions -> Nat]
        /\ teams' \in [Sessions -> BOOLEAN] /\ mu' \in Sessions \cup {None}
    BY <1>0, <1>6, <1>e DEF Restart
  <2>2. pc' \in [Sessions -> {"none", "read", "subscribing", "unsubscribing", "removing", "removed"}]
    BY <1>6 DEF Restart
  <2>3. casts' \in [Changes -> [step : {"none", "queued", "listeners", "write"},
                              who : SUBSET Users, to : SUBSET Sessions]]
    BY <1>0, <1>6 DEF Restart
  <2>4. Counted'
    BY <1>0, <1>6 DEF Restart, Counted, Current, client
  <2>5. QED BY <1>0, <1>6, <2>1, <2>2, <2>3, <2>4 DEF Restart, Typed, TypeOK, client
<1>7. QED BY <1>1, <1>2, <1>3, <1>4, <1>5, <1>6 DEF Environment

LEMMA NextTyped == Typed /\ [Next]_vars => Typed'
<1>1. ASSUME Typed, UNCHANGED vars PROVE Typed'
  BY <1>1 DEF vars, server, client, ghosts, counters, Typed, TypeOK, Counted, Current
<1>2. QED BY <1>1, ClientStepTyped, SessionStepTyped, MessageTyped, CastStepTyped, EnvironmentTyped DEF Next

\* The state has its type: in particular no client opens more connections than
\* there are, which needs the count of the faults.
THEOREM TypeCorrect == Spec => []TypeOK
<1>1. Typed => TypeOK
  BY DEF Typed
<1>2. QED BY <1>1, InitTyped, NextTyped, PTL DEF Spec

-----------------------------------------------------------------------------
(* The index of listeners agrees with the sessions.                        *)

\* The goroutine of a session holds the lock exactly while it is in a critical
\* section, and what it checked before it took the lock is still so.
Locked ==
    \A s \in Sessions :
        /\ mu = s <=> pc[s] \in {"subscribing", "unsubscribing", "removing"}
        /\ pc[s] = "subscribing" => ~teams[s] /\ user[s] # None
        /\ s \in listeners <=> pc[s] \in {"read", "subscribing", "unsubscribing", "removing"}
        /\ wire[s] \in {"none", "connecting"} => pc[s] = "none"
        /\ pc[s] \in {"none", "removed"} => ~teams[s]

\* The index has each session once if it subscribed, by its own record.
Index ==
    \A s \in Sessions :
        /\ listenersByTeam[s] = IF teams[s] THEN 1 ELSE 0
        /\ teams[s] => user[s] # None

\* The connections a client has yet to open.
Fresh == \A s \in Sessions : s[2] > ws[s[1]] => wire[s] = "none"

IInv == Typed /\ Locked /\ Index /\ Fresh

LEMMA IndexConsistent == IInv => ListenersConsistent
<1> SUFFICES ASSUME IInv PROVE ListenersConsistent
  OBVIOUS
<1>1. \A s \in Sessions : listenersByTeam[s] <= 1 /\ (teams[s] <=> s \in Subscribed)
  BY DEF IInv, Index, Subscribed, Typed, TypeOK
<1>2. Subscribed \subseteq listeners
  <2> SUFFICES ASSUME NEW s \in Sessions, s \in Subscribed PROVE s \in listeners
    BY DEF Subscribed
  <2>1. teams[s] /\ pc[s] \in {"none", "read", "subscribing", "unsubscribing", "removing", "removed"}
    BY <1>1 DEF IInv, Typed, TypeOK
  <2>2. QED BY <2>1 DEF IInv, Locked
<1>3. \A s \in listeners : s \in Sessions /\ pc[s] \notin {"none", "removed"} /\ (teams[s] => user[s] # None)
  BY DEF IInv, Locked, Index, Typed, TypeOK
<1>4. QED BY <1>1, <1>2, <1>3 DEF ListenersConsistent

LEMMA InitLocked == Init => Locked /\ Index /\ Fresh
<1> SUFFICES ASSUME Init PROVE Locked /\ Index /\ Fresh
  OBVIOUS
<1>1. \A s \in Sessions : s # None
  BY NoneAssumption DEF Sessions, Conns
<1>2. QED BY <1>1 DEF Init, Locked, Index, Fresh

\* A step that leaves what the server knows of its sessions, and opens a
\* connection at most for a session not seen before, changes nothing of this.
LEMMA ServerUnchanged ==
  ASSUME IInv, UNCHANGED server,
         \A s \in Sessions : wire'[s] = wire[s] \/ wire'[s] = "down" \/ (wire'[s] = "connecting" /\ wire[s] = "none")
  PROVE  Locked' /\ Index'
BY DEF IInv, Locked, Index, server

LEMMA ClientStepLocked ==
  ASSUME IInv, NEW c \in Clients, ClientStep(c)
  PROVE  Locked' /\ Index' /\ Fresh'
<1> USE BoundsNat
<1>0. /\ ws \in [Clients -> 0..MaxFaults + 1]
      /\ wire \in [Sessions -> {"none", "connecting", "up", "down"}]
  BY DEF IInv, Typed, TypeOK
<1>1. CASE Open(c) \/ Reopen(c)
  <2>1. Connect(c) /\ UNCHANGED server
    BY <1>1 DEF Open, Reopen
  <2>2. \A s \in Sessions :
          wire'[s] = wire[s] \/ (wire'[s] = "connecting" /\ s = <<c, ws[c] + 1>>)
    BY <1>0, <2>1 DEF Connect
  <2>3. \A s \in Sessions : s = <<c, ws[c] + 1>> => wire[s] = "none"
    <3> SUFFICES ASSUME NEW s \in Sessions, s = <<c, ws[c] + 1>> PROVE wire[s] = "none"
      OBVIOUS
    <3>1. s[2] > ws[s[1]]
      BY <1>0
    <3>2. QED BY <3>1 DEF IInv, Fresh
  <2>4. Locked' /\ Index'
    BY <2>1, <2>2, <2>3, ServerUnchanged
  <2>5. ASSUME NEW s \in Sessions, s[2] > ws'[s[1]] PROVE wire'[s] = "none"
    <3>1. s[1] \in Clients /\ s[2] \in Nat
      BY DEF Sessions, Conns
    <3>2. CASE s[1] = c
      <4>1. ws'[c] = ws[c] + 1
        BY <1>0, <2>1 DEF Connect
      <4>2. s[2] > ws[c] /\ s # <<c, ws[c] + 1>>
        BY <1>0, <2>5, <3>1, <3>2, <4>1
      <4>3. QED BY <2>2, <3>2, <4>2 DEF IInv, Fresh
    <3>3. CASE s[1] # c
      <4>1. ws'[s[1]] = ws[s[1]] /\ s # <<c, ws[c] + 1>>
        BY <1>0, <2>1, <3>1, <3>3 DEF Connect
      <4>2. QED BY <2>2, <2>5, <4>1 DEF IInv, Fresh
    <3>4. QED BY <3>2, <3>3
  <2>6. QED BY <2>4, <2>5 DEF Fresh
<1>2. CASE OnOpen(c) \/ OnClose(c)
  <2>1. UNCHANGED <<server, wire, ws>>
    BY <1>2 DEF OnOpen, OnClose
  <2>2. QED BY <2>1, ServerUnchanged DEF IInv, Fresh
<1>3. QED BY <1>1, <1>2 DEF ClientStep

LEMMA SessionStepLocked ==
  ASSUME IInv, NEW s \in Sessions, SessionStep(s)
  PROVE  Locked' /\ Index' /\ Fresh'
<1>0. /\ pc \in [Sessions -> {"none", "read", "subscribing", "unsubscribing", "removing", "removed"}]
      /\ user \in [Sessions -> Users \cup {None}] /\ teams \in [Sessions -> BOOLEAN]
      /\ listeners \subseteq Sessions /\ listenersByTeam \in [Sessions -> Nat]
      /\ wire \in [Sessions -> {"none", "connecting", "up", "down"}]
      /\ Locked /\ Index /\ Fresh
  BY DEF IInv, Typed, TypeOK
<1>n. s # None /\ UserOf[ClientOf(s)] # None /\ \A t \in Sessions : t # None
  <2>1. s[1] \in Clients /\ UserOf[s[1]] \in Users
    BY UserOfAssumption DEF Sessions
  <2>2. \A t \in Sessions : t # None
    BY NoneAssumption DEF Sessions, Conns
  <2>3. QED BY <2>1, <2>2, NoneAssumption DEF ClientOf
<1>1. CASE Accept(s)
  <2>1. pc[s] = "none" /\ ~teams[s]
    BY <1>0, <1>1 DEF Accept, Locked
  <2>2. Locked'
    BY <1>0, <1>1, <1>n, <2>1 DEF Accept, Locked
  <2>3. Index' /\ Fresh'
    BY <1>0, <1>1 DEF Accept, Index, Fresh, client
  <2>4. QED BY <2>2, <2>3
<1>2. CASE AuthenticateListener(s)
  <2>1. UNCHANGED <<pc, teams, listeners, listenersByTeam, mu, wire, ws>>
    BY <1>2 DEF AuthenticateListener, Reads, client
  <2>2. \A t \in Sessions : user[t] # None => user'[t] # None
    BY <1>0, <1>2, <1>n DEF AuthenticateListener
  <2>3. QED BY <1>0, <2>1, <2>2 DEF Locked, Index, Fresh
<1>3. CASE SubscribeListener(s)
  <2>1. UNCHANGED <<user, teams, listeners, listenersByTeam, wire, ws>> /\ pc[s] = "read"
    BY <1>3 DEF SubscribeListener, Reads, client
  <2>2. UNCHANGED <<pc, mu>> \/ (user[s] # None /\ ~teams[s] /\ Lock(s, "subscribing"))
    BY <1>3 DEF SubscribeListener
  <2>3. Locked'
    BY <1>0, <1>n, <2>1, <2>2 DEF Locked, Lock
  <2>4. QED BY <1>0, <2>1, <2>3 DEF Index, Fresh
<1>4. CASE UnsubscribeListener(s)
  <2>1. UNCHANGED <<user, teams, listeners, listenersByTeam, wire, ws>> /\ pc[s] = "read"
    BY <1>4 DEF UnsubscribeListener, Reads, client
  <2>2. UNCHANGED <<pc, mu>> \/ Lock(s, "unsubscribing")
    BY <1>4 DEF UnsubscribeListener
  <2>3. Locked'
    BY <1>0, <1>n, <2>1, <2>2 DEF Locked, Lock
  <2>4. QED BY <1>0, <2>1, <2>3 DEF Index, Fresh
<1>5. CASE ReadFails(s)
  <2>1. UNCHANGED <<user, teams, listeners, listenersByTeam, wire, ws>>
        /\ pc[s] = "read" /\ Lock(s, "removing")
    BY <1>5 DEF ReadFails, client
  <2>2. Locked'
    BY <1>0, <1>n, <2>1 DEF Locked, Lock
  <2>3. QED BY <1>0, <2>1, <2>2 DEF Index, Fresh
<1>6. CASE EndCritical(s)
  <2>0. UNCHANGED <<user, wire, ws>> /\ mu = s
    BY <1>6 DEF EndCritical, client
  <2>1. CASE /\ pc[s] = "subscribing"
             /\ listenersByTeam' = [listenersByTeam EXCEPT ![s] = @ + 1]
             /\ teams' = [teams EXCEPT ![s] = TRUE]
             /\ Unlock(s, "read")
             /\ UNCHANGED listeners
    <3>1. ~teams[s] /\ user[s] # None /\ listenersByTeam[s] = 0
      BY <1>0, <2>1 DEF Locked, Index
    <3>2. Locked'
      BY <1>0, <1>n, <2>0, <2>1 DEF Locked, Unlock
    <3>3. Index'
      BY <1>0, <2>0, <2>1, <3>1 DEF Index
    <3>4. QED BY <1>0, <2>0, <3>2, <3>3 DEF Fresh
  <2>2. CASE /\ pc[s] = "unsubscribing"
             /\ listenersByTeam' = Others(s)
             /\ teams' = [teams EXCEPT ![s] = FALSE]
             /\ Unlock(s, "read")
             /\ UNCHANGED listeners
    <3>1. Locked'
      BY <1>0, <1>n, <2>0, <2>2 DEF Locked, Unlock
    <3>2. Index'
      BY <1>0, <2>0, <2>2 DEF Index, Others
    <3>3. QED BY <1>0, <2>0, <3>1, <3>2 DEF Fresh
  <2>3. CASE /\ pc[s] = "removing"
             /\ listenersByTeam' = IF teams[s] THEN Others(s) ELSE listenersByTeam
             /\ teams' = [teams EXCEPT ![s] = FALSE]
             /\ listeners' = listeners \ {s}
             /\ Unlock(s, "removed")
    <3>1. Locked'
      BY <1>0, <1>n, <2>0, <2>3 DEF Locked, Unlock
    <3>2. Index'
      BY <1>0, <2>0, <2>3 DEF Index, Others
    <3>3. QED BY <1>0, <2>0, <3>1, <3>2 DEF Fresh
  <2>4. QED BY <1>6, <2>1, <2>2, <2>3 DEF EndCritical
<1>7. QED BY <1>1, <1>2, <1>3, <1>4, <1>5, <1>6 DEF SessionStep

LEMMA OtherStepLocked ==
  ASSUME IInv,
         \/ \E s \in Sessions : OnMessage(s)
         \/ \E i \in Changes : CastStep(i)
         \/ Environment
         \/ UNCHANGED vars
  PROVE  Locked' /\ Index' /\ Fresh'
<1>0. wire \in [Sessions -> {"none", "connecting", "up", "down"}]
      /\ pc \in [Sessions -> {"none", "read", "subscribing", "unsubscribing", "removing", "removed"}]
      /\ Locked /\ Index /\ Fresh
  BY SMTT(40) DEF IInv, Typed, TypeOK
<1>1. CASE UNCHANGED <<server, wire, ws>>
  BY <1>1, ServerUnchanged DEF IInv, Fresh
<1>2. ASSUME NEW s \in Sessions, LoseConnection(s) PROVE Locked' /\ Index' /\ Fresh'
  <2>1. UNCHANGED <<server, ws>> /\ wire[s] \in {"connecting", "up"}
        /\ wire' = [wire EXCEPT ![s] = "down"]
    BY <1>2 DEF LoseConnection, client
  <2>2. QED BY <1>0, <2>1, ServerUnchanged DEF Fresh
<1>3. CASE Restart
  <2>1. \A s \in Sessions : s # None
    BY NoneAssumption DEF Sessions, Conns
  <2>2. Locked'
    BY <1>0, <1>3, <2>1 DEF Restart, Locked
  <2>3. QED BY <1>0, <1>3, <2>2 DEF Restart, Index, Fresh, client
<1>4. ASSUME \/ \E s \in Sessions : OnMessage(s)
             \/ \E i \in Changes : CastStep(i)
             \/ \E c \in Clients : Mount(c) \/ Unmount(c)
             \/ Commit
             \/ \E u \in Users : AddMember(u) \/ RemoveMember(u)
             \/ UNCHANGED vars
      PROVE  UNCHANGED <<server, wire, ws>>
  BY <1>4 DEF OnMessage, CastStep, ReadMembers, ReadListeners, Write, Mount, Unmount, Commit,
              AddMember, RemoveMember, vars, client
<1>5. QED BY <1>1, <1>2, <1>3, <1>4 DEF Environment

LEMMA InitIInv == Init => IInv
BY InitTyped, InitLocked DEF IInv

LEMMA NextIInv == IInv /\ [Next]_vars => IInv'
<1> SUFFICES ASSUME IInv, [Next]_vars PROVE IInv'
  OBVIOUS
<1>1. Typed'
  BY NextTyped DEF IInv
<1>2. Locked' /\ Index' /\ Fresh'
  BY ClientStepLocked, SessionStepLocked, OtherStepLocked DEF Next
<1>3. QED BY <1>1, <1>2 DEF IInv

\* The index by team agrees with what the sessions record, whatever sessions
\* subscribe, close or lose their connection meanwhile (ws/server.go:295-396).
THEOREM ListenersStayConsistent == Spec => []ListenersConsistent
BY InitIInv, NextIInv, IndexConsistent, PTL DEF Spec

-----------------------------------------------------------------------------
(* Whoever hears of a change has been a member since it was committed.     *)

\* A session knows no other user than its client's.
Identified == \A s \in Sessions : user[s] \in {None, UserOf[ClientOf(s)]}

\* The members are entitled to what is committed; a broadcast names users and
\* sessions that are entitled; what is not committed has no broadcast.
CastsEntitled ==
    \A i \in Changes :
        /\ i <= changes => members \subseteq entitled[i]
        /\ i > changes => casts[i].step = "none"
        /\ casts[i].step = "none" => casts[i].who = {} /\ casts[i].to = {}
        /\ casts[i].who \subseteq entitled[i]
        /\ \A s \in casts[i].to : UserOf[ClientOf(s)] \in entitled[i]

\* What was sent is committed.
SentCommitted ==
    \A s \in Sessions : \A n \in 1..Len(outbox[s]) : outbox[s][n] <= changes

EInv == Typed /\ Identified /\ CastsEntitled /\ SentCommitted /\ OnlyMembersHear

LEMMA EntitledTypes ==
  Typed => /\ outbox \in [Sessions -> Seq(Changes)] /\ members \subseteq Users
           /\ casts \in [Changes -> [step : {"none", "queued", "listeners", "write"},
                                     who : SUBSET Users, to : SUBSET Sessions]]
           /\ entitled \in [Changes -> SUBSET Users] /\ changes \in 0..MaxChanges
           /\ user \in [Sessions -> Users \cup {None}] /\ Changes \subseteq Nat
BY BoundsNat DEF Typed, TypeOK, Changes

LEMMA InitEntitled == Init => Identified /\ CastsEntitled /\ SentCommitted /\ OnlyMembersHear
<1> SUFFICES ASSUME Init PROVE Identified /\ CastsEntitled /\ SentCommitted /\ OnlyMembersHear
  OBVIOUS
<1>1. \A i \in Changes : i \in Nat /\ i > 0
  BY BoundsNat DEF Changes
<1>2. \A s \in Sessions : outbox[s] = <<>> /\ Len(outbox[s]) = 0
  BY DEF Init
<1>3. SentCommitted /\ OnlyMembersHear
  BY <1>2 DEF SentCommitted, OnlyMembersHear
<1>4. Identified /\ CastsEntitled
  BY <1>1 DEF Init, Identified, CastsEntitled
<1>5. QED BY <1>3, <1>4

\* Nothing of this is disturbed while the changes and what is sent stay, and the
\* users that are entitled stay so.
LEMMA EntitledKept ==
  ASSUME EInv, UNCHANGED <<changes, outbox>>,
         \A i \in Changes : entitled[i] \subseteq entitled'[i]
  PROVE  SentCommitted' /\ OnlyMembersHear'
<1>1. \A s \in Sessions : \A n \in 1..Len(outbox[s]) : outbox[s][n] \in Changes
  BY EntitledTypes DEF EInv
<1>2. QED BY <1>1 DEF EInv, SentCommitted, OnlyMembersHear

LEMMA SessionStepIdentified ==
  ASSUME EInv, NEW s \in Sessions, SessionStep(s)
  PROVE  Identified'
<1>1. user \in [Sessions -> Users \cup {None}] /\ Identified
  BY EntitledTypes DEF EInv
<1>2. CASE AuthenticateListener(s)
  BY <1>1, <1>2 DEF AuthenticateListener, Identified
<1>3. CASE UNCHANGED user
  BY <1>1, <1>3 DEF Identified
<1>4. QED BY <1>2, <1>3 DEF SessionStep, Accept, SubscribeListener, UnsubscribeListener, ReadFails, EndCritical

LEMMA CastStepEntitled ==
  ASSUME EInv, NEW i \in Changes, CastStep(i)
  PROVE  EInv'
<1>0. Typed'
  BY NextTyped DEF EInv, Next
<1>1. /\ outbox \in [Sessions -> Seq(Changes)] /\ members \subseteq Users
      /\ casts \in [Changes -> [step : {"none", "queued", "listeners", "write"},
                                who : SUBSET Users, to : SUBSET Sessions]]
      /\ entitled \in [Changes -> SUBSET Users] /\ changes \in 0..MaxChanges
      /\ Changes \subseteq Nat
  BY EntitledTypes DEF EInv
<1>2. CASE ReadMembers(i)
  <2>1. UNCHANGED <<changes, outbox, entitled, members, user>> /\ casts[i].step = "queued"
        /\ casts' = [casts EXCEPT ![i] = [@ EXCEPT !.step = "listeners", !.who = members]]
    BY <1>2 DEF ReadMembers, server, ghosts
  <2>2. i <= changes /\ members \subseteq entitled[i]
    BY <1>1, <2>1 DEF EInv, CastsEntitled
  <2>3. CastsEntitled'
    BY <1>1, <2>1, <2>2 DEF EInv, CastsEntitled
  <2>4. QED BY <1>0, <2>1, <2>3, EntitledKept DEF EInv, Identified
<1>3. CASE ReadListeners(i)
  <2>1. UNCHANGED <<changes, outbox, entitled, members, user>> /\ casts[i].step = "listeners"
        /\ casts' = [casts EXCEPT ![i] = [step |-> "write", who |-> {}, to |-> ListenersOf(casts[i].who)]]
    BY <1>3 DEF ReadListeners, server, ghosts
  <2>2. \A s \in ListenersOf(casts[i].who) : UserOf[ClientOf(s)] \in entitled[i]
    <3> SUFFICES ASSUME NEW s \in Sessions, user[s] \in casts[i].who
                 PROVE  UserOf[ClientOf(s)] \in entitled[i]
      BY DEF ListenersOf, Subscribed
    <3>1. casts[i].who \subseteq Users
      BY <1>1
    <3>2. user[s] = UserOf[ClientOf(s)]
      BY <3>1, NoneAssumption DEF EInv, Identified
    <3>3. QED BY <3>2 DEF EInv, CastsEntitled
  <2>3. i <= changes
    BY <1>1, <2>1 DEF EInv, CastsEntitled
  <2>4. CastsEntitled'
    BY <1>1, <2>1, <2>2, <2>3 DEF EInv, CastsEntitled
  <2>5. QED BY <1>0, <2>1, <2>4, EntitledKept DEF EInv, Identified
<1>4. ASSUME NEW s \in Sessions, Write(i, s) PROVE EInv'
  <2>1. UNCHANGED <<changes, entitled, members, user>> /\ casts[i].step = "write" /\ s \in casts[i].to
        /\ casts' = [casts EXCEPT ![i].to = @ \ {s}]
        /\ \/ outbox' = [outbox EXCEPT ![s] = Append(@, i)]
           \/ outbox' = outbox
    BY <1>4 DEF Write, server, ghosts
  <2>2. i <= changes /\ UserOf[ClientOf(s)] \in entitled[i]
    <3>1. /\ i > changes => casts[i].step = "none"
          /\ \A t \in casts[i].to : UserOf[ClientOf(t)] \in entitled[i]
      BY DEF EInv, CastsEntitled
    <3>2. ~(i > changes)
      BY <2>1, <3>1
    <3>3. QED BY <1>1, <2>1, <3>1, <3>2
  <2>3. CastsEntitled'
    BY <1>1, <2>1 DEF EInv, CastsEntitled
  <2>4. SentCommitted' /\ OnlyMembersHear'
    <3>1. CASE outbox' = outbox
      BY <2>1, <3>1, EntitledKept
    <3>2. CASE outbox' = [outbox EXCEPT ![s] = Append(@, i)]
      <4>1. \A t \in Sessions : \A n \in 1..Len(outbox'[t]) :
              (t = s /\ outbox'[t][n] = i) \/ (n \in 1..Len(outbox[t]) /\ outbox'[t][n] = outbox[t][n])
        BY <1>1, <3>2
      <4>2. QED BY <2>1, <2>2, <4>1 DEF EInv, SentCommitted, OnlyMembersHear
    <3>3. QED BY <2>1, <3>1, <3>2
  <2>5. QED BY <1>0, <2>1, <2>3, <2>4 DEF EInv, Identified
<1>5. QED BY <1>2, <1>3, <1>4 DEF CastStep

LEMMA CommitEntitled == EInv /\ Commit => EInv'
<1> SUFFICES ASSUME EInv, Commit PROVE EInv'
  OBVIOUS
<1>0. Typed'
  BY NextTyped DEF EInv, Next, Environment
<1>1. /\ outbox \in [Sessions -> Seq(Changes)] /\ members \subseteq Users
      /\ casts \in [Changes -> [step : {"none", "queued", "listeners", "write"},
                                who : SUBSET Users, to : SUBSET Sessions]]
      /\ entitled \in [Changes -> SUBSET Users] /\ changes \in 0..MaxChanges
      /\ Changes \subseteq Nat /\ changes + 1 \in Changes
  BY EntitledTypes, BoundsNat DEF EInv, Commit, Changes
<1>2. /\ UNCHANGED <<members, outbox, user>> /\ changes' = changes + 1
      /\ casts' = [casts EXCEPT ![changes + 1].step = "queued"]
      /\ entitled' = [entitled EXCEPT ![changes + 1] = members]
  BY DEF Commit, server
<1>3. \A i \in Changes : i = changes + 1 \/ (casts'[i] = casts[i] /\ entitled'[i] = entitled[i])
  BY <1>1, <1>2
<1>4. casts'[changes + 1].step = "queued" /\ casts'[changes + 1].who = {}
      /\ casts'[changes + 1].to = {} /\ entitled'[changes + 1] = members
  <2>1. casts[changes + 1].step = "none"
    BY <1>1 DEF EInv, CastsEntitled
  <2>2. casts[changes + 1].who = {} /\ casts[changes + 1].to = {}
    BY <1>1, <2>1 DEF EInv, CastsEntitled
  <2>3. QED BY <1>1, <1>2, <2>2
<1>5. CastsEntitled'
  BY <1>1, <1>2, <1>3, <1>4 DEF EInv, CastsEntitled
<1>6. SentCommitted' /\ OnlyMembersHear'
  <2>1. \A s \in Sessions : \A n \in 1..Len(outbox[s]) :
          outbox[s][n] \in Changes /\ outbox[s][n] <= changes
    BY <1>1 DEF EInv, SentCommitted
  <2>2. \A s \in Sessions : \A n \in 1..Len(outbox[s]) : entitled'[outbox[s][n]] = entitled[outbox[s][n]]
    <3> SUFFICES ASSUME NEW s \in Sessions, NEW n \in 1..Len(outbox[s])
                 PROVE  entitled'[outbox[s][n]] = entitled[outbox[s][n]]
      OBVIOUS
    <3> DEFINE i == outbox[s][n]
    <3>1. i \in Changes /\ i <= changes
      BY <2>1
    <3> HIDE DEF i
    <3>2. i # changes + 1
      BY <1>1, <3>1
    <3>3. entitled'[i] = entitled[i]
      BY <1>3, <3>1, <3>2
    <3>4. QED BY <3>3 DEF i
  <2>3. QED BY <1>1, <1>2, <2>1, <2>2, SMTT(40) DEF EInv, SentCommitted, OnlyMembersHear
<1>7. QED BY <1>0, <1>2, <1>5, <1>6 DEF EInv, Identified

LEMMA MembersEntitled ==
  ASSUME EInv, NEW u \in Users, AddMember(u) \/ RemoveMember(u)
  PROVE  EInv'
<1>0. Typed'
  BY NextTyped DEF EInv, Next, Environment
<1>1. UNCHANGED <<changes, casts, outbox, user>>
  BY DEF AddMember, RemoveMember, server
<1>2. \A i \in Changes : /\ entitled[i] \subseteq entitled'[i]
                         /\ i <= changes => members' \subseteq entitled'[i]
  BY EntitledTypes DEF EInv, CastsEntitled, AddMember, RemoveMember
<1>3. CastsEntitled'
  BY <1>1, <1>2 DEF EInv, CastsEntitled
<1>4. QED BY <1>0, <1>1, <1>2, <1>3, EntitledKept DEF EInv, Identified

LEMMA ReadEntitled ==
  ASSUME EInv, NEW s \in Sessions, OnMessage(s)
  PROVE  EInv'
<1>0. Typed'
  BY NextTyped DEF EInv, Next
<1>1. UNCHANGED <<changes, casts, members, entitled, user>> /\ outbox[s] # <<>>
      /\ outbox' = [outbox EXCEPT ![s] = Tail(@)]
  BY DEF OnMessage, server
<1>2. outbox \in [Sessions -> Seq(Changes)]
  BY EntitledTypes DEF EInv
<1>3. \A t \in Sessions : \A n \in 1..Len(outbox'[t]) :
        \E m \in 1..Len(outbox[t]) : outbox'[t][n] = outbox[t][m]
  BY <1>1, <1>2
<1>4. SentCommitted' /\ OnlyMembersHear'
  BY <1>1, <1>3 DEF EInv, SentCommitted, OnlyMembersHear
<1>5. QED BY <1>0, <1>1, <1>4 DEF EInv, Identified, CastsEntitled

LEMMA NextEntitled == EInv /\ [Next]_vars => EInv'
<1> SUFFICES ASSUME EInv, [Next]_vars PROVE EInv'
  OBVIOUS
<1>0. Typed'
  BY NextTyped DEF EInv
<1>1. CASE UNCHANGED <<changes, casts, members, entitled, user, outbox>>
  BY <1>0, <1>1, EntitledKept DEF EInv, Identified, CastsEntitled
<1>2. ASSUME NEW s \in Sessions, SessionStep(s) PROVE EInv'
  <2>1. UNCHANGED <<changes, casts, members, entitled, outbox>>
    BY <1>2 DEF SessionStep, Accept, AuthenticateListener, SubscribeListener, UnsubscribeListener,
                Reads, ReadFails, EndCritical, ghosts
  <2>2. QED BY <1>0, <1>2, <2>1, EntitledKept, SessionStepIdentified DEF EInv, CastsEntitled
<1>3. CASE Restart
  <2>1. UNCHANGED <<changes, members, entitled, user, outbox>>
    BY <1>3 DEF Restart
  <2>2. CastsEntitled'
    BY <1>3, EntitledTypes DEF EInv, CastsEntitled, Restart
  <2>3. QED BY <1>0, <2>1, <2>2, EntitledKept DEF EInv, Identified
<1>4. ASSUME \/ \E c \in Clients : ClientStep(c) \/ Mount(c) \/ Unmount(c)
             \/ \E s \in Sessions : LoseConnection(s)
             \/ UNCHANGED vars
      PROVE  UNCHANGED <<changes, casts, members, entitled, user, outbox>>
  BY <1>4 DEF ClientStep, Open, OnOpen, OnClose, Reopen, Mount, Unmount, LoseConnection, vars, server, ghosts
<1>5. QED BY <1>1, <1>2, <1>3, <1>4, CommitEntitled, MembersEntitled, ReadEntitled, CastStepEntitled
         DEF Next, Environment

\* Nobody hears of a change who has not been a member since it was committed,
\* whoever joins, leaves, subscribes or reconnects before the broadcast
\* (ws/server.go:481-565).
THEOREM MembersHear == Spec => []OnlyMembersHear
<1>1. Init => EInv
  BY InitTyped, InitEntitled DEF EInv
<1>2. EInv => OnlyMembersHear
  BY DEF EInv
<1>3. QED BY <1>1, <1>2, NextEntitled, PTL DEF Spec
=============================================================================

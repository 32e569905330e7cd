------------------------- MODULE BoardMembers_proof -------------------------
(* Proofs about BoardMembers, for any users, grants and bounds, about      *)
(* ShareBoard, for any people and bounds, and about the session kept in    *)
(* ClientCalls, for any tokens.                                            *)
EXTENDS BoardMembers, ShareBoard, ClientCalls, TLAPS

\* The state has its type.
THEOREM TypeCorrect == Spec => []TypeOK
<1> USE CreatorAssumption, GrantsAssumption, MinimumRoleAssumption
<1>0. NoRequest \in RequestType /\ {} \in SUBSET Schemes /\ JoinGrant \in SUBSET Schemes
  BY DEF NoRequest, RequestType, Ops, JoinGrant, Schemes
<1>1. Init => TypeOK
  <2>1. {"admin", "editor"} \in SUBSET Schemes
    BY DEF Schemes
  <2>2. <<"created">> \in Seq(Actions) /\ <<>> \in Seq(Actions)
    <3>1. "created" \in Actions
      BY DEF Actions
    <3>2. <<>> \in Seq(Actions) /\ <<"created">> = Append(<<>>, "created")
      OBVIOUS
    <3>3. QED BY <3>1, <3>2
  <2>3. ASSUME Init PROVE members \in [DOMAIN members -> SUBSET Schemes] /\ DOMAIN members \subseteq Users
    BY <2>1, <2>3 DEF Init
  <2>4. ASSUME Init PROVE history \in [Users -> Seq(Actions)]
    BY <2>2, <2>4 DEF Init
  <2>5. QED
    BY <1>0, <2>3, <2>4 DEF Init, TypeOK
<1>2. ASSUME TypeOK, [Next]_vars PROVE TypeOK'
  <2> USE <1>0, <1>2
  <2>a. DOMAIN members \subseteq Users /\ members \in [DOMAIN members -> SUBSET Schemes]
    BY DEF TypeOK
  <2>b. history \in [Users -> Seq(Actions)] /\ live \in BOOLEAN
    BY DEF TypeOK
  <2>c. /\ pc \in [Requests -> {"idle", "authorise", "load", "lastAdmin", "readRow",
                            "upsert", "recordCreated", "deleteRow", "recordDeleted"}]
        /\ req \in [Requests -> RequestType]
        /\ served \in Nat /\ crashes \in Nat
    BY DEF TypeOK
  <2>1. ASSUME NEW r \in Requests, NEW op \in Ops, NEW actor \in Users, NEW target \in Users,
               NEW grant \in Grants \cup {{}, JoinGrant}, Arrive(r, op, actor, target, grant)
        PROVE  TypeOK'
    <3>1. [op |-> op, actor |-> actor, target |-> target, grant |-> grant, existed |-> FALSE]
            \in RequestType
      BY DEF RequestType
    <3>2. req' \in [Requests -> RequestType]
      BY <2>1, <2>c, <3>1 DEF Arrive
    <3>3. /\ pc' \in [Requests -> {"idle", "authorise", "load", "lastAdmin", "readRow",
                            "upsert", "recordCreated", "deleteRow", "recordDeleted"}]
          /\ served' \in Nat /\ crashes' \in Nat
      BY <2>1, <2>c DEF Arrive
    <3>4. QED BY <2>1, <2>a, <2>b, <3>2, <3>3 DEF Arrive, tables, TypeOK
  <2>2. ASSUME NEW r \in Requests, Authorise(r) \/ Load(r) \/ CheckLastAdmin(r)
        PROVE  TypeOK'
    <3>1. UNCHANGED <<tables, counts>>
      BY <2>2 DEF Authorise, Load, CheckLastAdmin
    <3>2. /\ pc' \in [Requests -> {"idle", "authorise", "load", "lastAdmin", "readRow",
                            "upsert", "recordCreated", "deleteRow", "recordDeleted"}]
          /\ req' \in [Requests -> RequestType]
      BY <2>2, <2>c DEF Authorise, Load, CheckLastAdmin, Goto, AfterLoad
    <3>3. QED BY <2>a, <2>b, <2>c, <3>1, <3>2 DEF tables, counts, TypeOK
  <2>3. ASSUME NEW r \in Requests, ReadRow(r) PROVE TypeOK'
    <3>1. [req[r] EXCEPT !.existed = IsMember(req[r].target)] \in RequestType
      <4>1. req[r] \in RequestType /\ IsMember(req[r].target) \in BOOLEAN
        <5>1. req[r] \in RequestType
          BY <2>c
        <5>2. IsMember(req[r].target) \in BOOLEAN
          BY DEF IsMember
        <5>3. QED BY <5>1, <5>2
      <4>2. QED BY <4>1, Zenon DEF RequestType
    <3>2. QED BY <2>3, <2>a, <2>b, <2>c, <3>1 DEF ReadRow, tables, counts, TypeOK
  <2>4. ASSUME NEW r \in Requests, Upsert(r) PROVE TypeOK'
    <3>1. req[r].target \in Users /\ req[r].grant \in SUBSET Schemes
      BY <2>c DEF RequestType
    <3>2. DOMAIN members' \subseteq Users /\ members' \in [DOMAIN members' -> SUBSET Schemes]
      BY <2>4, <2>a, <3>1 DEF Upsert
    <3>3. QED BY <2>4, <2>b, <2>c, <3>2 DEF Upsert, Goto, AfterUpsert, counts, TypeOK
  <2>5. ASSUME NEW r \in Requests, RecordCreated(r) \/ RecordDeleted(r) PROVE TypeOK'
    <3>1. req[r].target \in Users
      BY <2>c DEF RequestType
    <3>2. history' \in [Users -> Seq(Actions)]
      <4>1. \A a \in Actions :
              Append(history[req[r].target], a) \in Seq(Actions)
        BY <2>b, <3>1
      <4>2. "created" \in Actions /\ "deleted" \in Actions
        BY DEF Actions
      <4>3. QED BY <2>5, <2>b, <3>1, <4>1, <4>2 DEF RecordCreated, RecordDeleted
    <3>3. QED
      BY <2>5, <2>a, <2>b, <2>c, <3>2 DEF RecordCreated, RecordDeleted, Goto, counts, TypeOK
  <2>6. ASSUME NEW r \in Requests, DeleteRow(r) PROVE TypeOK'
    <3>1. DOMAIN members' \subseteq Users /\ members' \in [DOMAIN members' -> SUBSET Schemes]
      BY <2>6, <2>a DEF DeleteRow
    <3>2. QED BY <2>6, <2>b, <2>c, <3>1 DEF DeleteRow, Goto, counts, TypeOK
  <2>7. CASE DeleteBoard \/ UndeleteBoard
    BY <2>7, <2>a, <2>b, <2>c DEF DeleteBoard, UndeleteBoard, counts, TypeOK
  <2>8. CASE Crash
    <3>1. req' \in [Requests -> RequestType]
      BY <2>8 DEF Crash
    <3>2. QED BY <2>8, <2>a, <2>b, <2>c, <3>1 DEF Crash, tables, TypeOK
  <2>9. CASE UNCHANGED vars
    BY <2>9, <2>a, <2>b, <2>c DEF vars, TypeOK
  <2>10. QED
    BY <2>1, <2>2, <2>3, <2>4, <2>5, <2>6, <2>7, <2>8, <2>9 DEF Next, Request
<1>3. QED BY <1>1, <1>2, PTL DEF Spec

-----------------------------------------------------------------------------
(* One request goroutine: what it has read is still so when it writes.     *)

AnotherAdmin(u) == \E a \in Admins : a # u

StillTrue ==
    /\ Admins # {}
    /\ \A r \in Requests :
        /\ pc[r] = "lastAdmin" => req[r].op \notin {"add", "join"}
        /\ pc[r] \in {"readRow", "upsert"} /\ req[r].op \in {"add", "join"}
              => ~IsMember(req[r].target)
        /\ pc[r] \in {"readRow", "upsert"} /\ req[r].op \notin {"add", "join"}
              => "admin" \in req[r].grant \/ AnotherAdmin(req[r].target)
        /\ pc[r] = "deleteRow" => AnotherAdmin(req[r].target)

\* Served one request at a time, whatever its kind and wherever the server
\* crashes, a board keeps an admin (boards.go:575-585, 600-612, 631-641).
THEOREM LastAdminKept ==
  ASSUME \A r, s \in Requests : r = s
  PROVE  Spec => []AdminRemains
<1> USE CreatorAssumption, GrantsAssumption, MinimumRoleAssumption
<1>0. \A r, s \in Requests : r = s
  OBVIOUS
<1>1. Init => StillTrue
  BY DEF Init, StillTrue, Admins
<1>2. ASSUME TypeOK, StillTrue, [Next]_vars PROVE StillTrue'
  <2> USE <1>0, <1>2 DEF TypeOK, StillTrue
  <2>0. \A r \in Requests : NoRequest.op = "add"
    BY DEF NoRequest
  <2>1. ASSUME NEW r \in Requests, NEW op \in Ops, NEW actor \in Users, NEW target \in Users,
               NEW grant \in Grants \cup {{}, JoinGrant}, Arrive(r, op, actor, target, grant)
        PROVE  StillTrue'
    BY <2>1 DEF Arrive, tables, Admins
  <2>2. ASSUME NEW r \in Requests, Authorise(r) PROVE StillTrue'
    BY <2>2 DEF Authorise, Goto, tables, Admins
  <2>3. ASSUME NEW r \in Requests, Load(r) PROVE StillTrue'
    <3>1. UNCHANGED members /\ Admins' = Admins
      BY <2>3 DEF Load, tables, Admins
    <3>2. pc' = [pc EXCEPT ![r] = AfterLoad(req[r])]
      BY <2>3 DEF Load, Goto
    <3>3. CASE AfterLoad(req[r]) = "idle"
      BY <2>3, <3>1, <3>2, <3>3
    <3>4. CASE AfterLoad(req[r]) # "idle"
      <4>1. req' = req
        BY <2>3, <3>4 DEF Load, Goto
      <4>2. CASE req[r].op \in {"add", "join"}
        BY <3>1, <3>2, <3>4, <4>1, <4>2 DEF AfterLoad, IsMember
      <4>3. CASE req[r].op \notin {"add", "join"} /\ LowersAdmin(req[r])
        BY <3>1, <3>2, <3>4, <4>1, <4>3 DEF AfterLoad
      <4>4. CASE req[r].op \notin {"add", "join"} /\ ~LowersAdmin(req[r])
        <5>1. IsMember(req[r].target) /\ AfterLoad(req[r]) = IF req[r].op = "update" THEN "readRow" ELSE "deleteRow"
          BY <3>4, <4>4 DEF AfterLoad
        <5>2. \/ req[r].op = "update" /\ "admin" \in req[r].grant
              \/ req[r].target \notin Admins
          BY <4>4, <5>1 DEF LowersAdmin, Admins, IsMember
        <5>3. \/ req[r].op = "update" /\ "admin" \in req[r].grant
              \/ AnotherAdmin(req[r].target)
          BY <5>2 DEF AnotherAdmin
        <5>4. QED
          BY <3>1, <3>2, <4>1, <4>4, <5>1, <5>3 DEF AnotherAdmin
      <4>5. QED BY <4>2, <4>3, <4>4
    <3>5. QED BY <3>3, <3>4
  <2>4. ASSUME NEW r \in Requests, CheckLastAdmin(r) PROVE StillTrue'
    <3>1. UNCHANGED members /\ Admins' = Admins
      BY <2>4 DEF CheckLastAdmin, tables, Admins
    <3>2. CASE IsLastAdmin(req[r].target)
      BY <2>4, <3>1, <3>2 DEF CheckLastAdmin, Goto
    <3>3. CASE ~IsLastAdmin(req[r].target)
      <4>1. AnotherAdmin(req[r].target)
        BY <3>3 DEF IsLastAdmin, AnotherAdmin
      <4>2. req' = req /\ pc' = [pc EXCEPT ![r] = IF req[r].op = "update" THEN "readRow" ELSE "deleteRow"]
        BY <2>4, <3>3 DEF CheckLastAdmin, Goto
      <4>3. req[r].op \notin {"add", "join"}
        BY <2>4 DEF CheckLastAdmin
      <4>4. QED BY <3>1, <4>1, <4>2, <4>3 DEF AnotherAdmin
    <3>4. QED BY <3>2, <3>3
  <2>5. ASSUME NEW r \in Requests, ReadRow(r) PROVE StillTrue'
    <3>1. UNCHANGED members /\ Admins' = Admins
      BY <2>5 DEF ReadRow, tables, Admins
    <3>2. /\ pc' = [pc EXCEPT ![r] = "upsert"] /\ pc[r] = "readRow"
          /\ req'[r].op = req[r].op /\ req'[r].grant = req[r].grant
          /\ req'[r].target = req[r].target
      BY <2>5 DEF ReadRow, RequestType
    <3>3. QED BY <3>1, <3>2 DEF AnotherAdmin, IsMember
  <2>6. ASSUME NEW r \in Requests, Upsert(r) PROVE StillTrue'
    <3>1. Admins' # {}
      <4>1. CASE req[r].op \in {"add", "join"}
        BY <2>6, <4>1, ZenonT(60) DEF Upsert, Admins, IsMember
      <4>2. CASE "admin" \in req[r].grant
        BY <2>6, <4>2 DEF Upsert, Admins
      <4>3. CASE AnotherAdmin(req[r].target)
        BY <2>6, <4>3 DEF Upsert, Admins, AnotherAdmin
      <4>4. QED BY <2>6, <4>1, <4>2, <4>3 DEF Upsert
    <3>2. QED BY <2>6, <3>1 DEF Upsert, Goto, AfterUpsert
  <2>7. ASSUME NEW r \in Requests, RecordCreated(r) \/ RecordDeleted(r) PROVE StillTrue'
    BY <2>7 DEF RecordCreated, RecordDeleted, Goto, Admins
  <2>8. ASSUME NEW r \in Requests, DeleteRow(r) PROVE StillTrue'
    <3>1. Admins' # {}
      BY <2>8 DEF DeleteRow, Admins, AnotherAdmin
    <3>2. QED BY <2>8, <3>1 DEF DeleteRow, Goto
  <2>9. CASE DeleteBoard \/ UndeleteBoard
    BY <2>9 DEF DeleteBoard, UndeleteBoard, Admins, AnotherAdmin, IsMember
  <2>10. CASE Crash
    BY <2>10 DEF Crash, tables, Admins
  <2>11. CASE UNCHANGED vars
    BY <2>11 DEF vars, Admins, AnotherAdmin, IsMember
  <2>12. QED
    BY <2>1, <2>2, <2>3, <2>4, <2>5, <2>6, <2>7, <2>8, <2>9, <2>10, <2>11 DEF Next, Request
<1>3. StillTrue => AdminRemains
  BY DEF StillTrue, AdminRemains
<1>4. QED BY <1>1, <1>2, <1>3, TypeCorrect, PTL DEF Spec

-----------------------------------------------------------------------------
(* Any number of overlapping requests.                                     *)

HasCreated(u) == \E i \in 1..Len(history[u]) : history[u][i] = "created"
Creating(u) == \E r \in Requests : pc[r] = "recordCreated" /\ req[r].target = u

Accounted ==
    crashes = 0 =>
        /\ \A u \in DOMAIN members : HasCreated(u) \/ Creating(u)
        /\ \A r \in Requests : pc[r] = "upsert" /\ req[r].existed
              => HasCreated(req[r].target) \/ Creating(req[r].target)

\* However requests overlap, a member nobody is writing has a "created" entry
\* in the history, as long as the server does not crash (board.go:502-580).
THEOREM CreationRecorded == Spec => []MemberWasCreated
<1> USE CreatorAssumption
<1>1. Init => Accounted
  BY DEF Init, Accounted, HasCreated, Creating
<1>2. ASSUME TypeOK, Accounted, [Next]_vars PROVE Accounted'
  <2> USE <1>2 DEF TypeOK
  <2>1. ASSUME UNCHANGED <<members, history, crashes>>,
               \A r \in Requests :
                 /\ pc[r] = "recordCreated" => pc'[r] = "recordCreated" /\ req'[r] = req[r]
                 /\ pc'[r] = "upsert" => pc[r] = "upsert" /\ req'[r] = req[r]
        PROVE  Accounted'
    <3>1. \A u : HasCreated(u) => HasCreated(u)'
      BY <2>1 DEF HasCreated
    <3>2. \A u : Creating(u) => Creating(u)'
      BY <2>1 DEF Creating
    <3>3. QED BY <2>1, <3>1, <3>2 DEF Accounted
  <2>2. ASSUME NEW r \in Requests, NEW op \in Ops, NEW actor \in Users, NEW target \in Users,
               NEW grant \in Grants \cup {{}, JoinGrant}, Arrive(r, op, actor, target, grant)
        PROVE  Accounted'
    BY <2>1, <2>2 DEF Arrive, tables
  <2>3. ASSUME NEW r \in Requests, Authorise(r) \/ Load(r) \/ CheckLastAdmin(r)
        PROVE  Accounted'
    BY <2>1, <2>3 DEF Authorise, Load, CheckLastAdmin, Goto, AfterLoad, tables, counts
  <2>4. ASSUME NEW r \in Requests, ReadRow(r) PROVE Accounted'
    <3>1. UNCHANGED <<members, history, crashes>> /\ pc[r] = "readRow"
      BY <2>4 DEF ReadRow, tables, counts
    <3>2. /\ pc' = [pc EXCEPT ![r] = "upsert"]
          /\ \A s \in Requests : s # r => req'[s] = req[s]
          /\ req'[r].existed = IsMember(req[r].target) /\ req'[r].target = req[r].target
      BY <2>4 DEF ReadRow, RequestType
    <3>3. \A u : HasCreated(u) => HasCreated(u)'
      BY <3>1 DEF HasCreated
    <3>4. \A u : Creating(u) => Creating(u)'
      BY <3>1, <3>2 DEF Creating
    <3>5. QED
      BY <3>1, <3>2, <3>3, <3>4 DEF Accounted, IsMember
  <2>5. ASSUME NEW r \in Requests, Upsert(r) PROVE Accounted'
    <3>0. PICK t : t = req[r].target
      OBVIOUS
    <3>1. UNCHANGED <<history, crashes>> /\ DOMAIN members' = DOMAIN members \cup {t}
      BY <2>5, <3>0 DEF Upsert, counts
    <3>2. ASSUME NEW u, Creating(u) PROVE Creating(u)'
      BY <2>5, <3>2 DEF Upsert, Creating, Goto
    <3>3. ASSUME crashes = 0 PROVE HasCreated(t) \/ Creating(t)'
      <4>1. CASE req[r].existed
        BY <2>5, <3>0, <3>2, <3>3, <4>1 DEF Upsert, Accounted
      <4>2. CASE ~req[r].existed
        BY <2>5, <3>0, <4>2 DEF Upsert, AfterUpsert, Goto, Creating
      <4>3. QED BY <4>1, <4>2
    <3>4. \A s \in Requests : pc'[s] = "upsert" => pc[s] = "upsert" /\ req'[s] = req[s]
      BY <2>5 DEF Upsert, AfterUpsert, Goto
    <3>5. \A u : HasCreated(u) => HasCreated(u)'
      BY <3>1 DEF HasCreated
    <3>6. QED
      BY <3>1, <3>2, <3>3, <3>4, <3>5 DEF Accounted
  <2>6. ASSUME NEW r \in Requests, RecordCreated(r) \/ RecordDeleted(r) PROVE Accounted'
    <3>1. UNCHANGED <<members, crashes>> /\ pc' = [pc EXCEPT ![r] = "idle"]
          /\ \A s \in Requests : s # r => req'[s] = req[s]
      BY <2>6 DEF RecordCreated, RecordDeleted, Goto, counts
    <3>2. req[r].target \in Users
      BY DEF RequestType
    <3>3. ASSUME NEW u \in Users, HasCreated(u) PROVE HasCreated(u)'
      <4>1. PICK i \in 1..Len(history[u]) : history[u][i] = "created"
        BY <3>3 DEF HasCreated
      <4>2. history[u] \in Seq(Actions) /\ Len(history[u]) \in Nat
        OBVIOUS
      <4>3. \/ history'[u] = history[u]
            \/ \E a : history'[u] = Append(history[u], a)
        BY <2>6, <3>2, ZenonT(60) DEF RecordCreated, RecordDeleted
      <4>4. i \in 1..Len(history'[u]) /\ history'[u][i] = "created"
        BY <4>1, <4>2, <4>3
      <4>5. QED BY <4>4 DEF HasCreated
    <3>4. ASSUME NEW u \in Users, Creating(u) PROVE HasCreated(u)' \/ Creating(u)'
      <4>1. PICK s \in Requests : pc[s] = "recordCreated" /\ req[s].target = u
        BY <3>4 DEF Creating
      <4>2. CASE s # r
        BY <3>1, <4>1, <4>2 DEF Creating
      <4>3. CASE s = r
        <5>1. history'[u] = Append(history[u], "created")
          BY <2>6, <4>1, <4>3 DEF RecordCreated, RecordDeleted
        <5>2. history[u] \in Seq(Actions)
          OBVIOUS
        <5>3. Len(history'[u]) \in 1..Len(history'[u]) /\ history'[u][Len(history'[u])] = "created"
          BY <5>1, <5>2
        <5>4. QED BY <5>3 DEF HasCreated
      <4>4. QED BY <4>2, <4>3
    <3>5. \A s \in Requests : req[s].target \in Users
      BY DEF RequestType
    <3>6. QED
      BY <3>1, <3>3, <3>4, <3>5 DEF Accounted
  <2>7. ASSUME NEW r \in Requests, DeleteRow(r) PROVE Accounted'
    <3>1. UNCHANGED <<history, crashes>> /\ DOMAIN members' \subseteq DOMAIN members
      BY <2>7 DEF DeleteRow, counts
    <3>2. \A u : Creating(u) => Creating(u)'
      BY <2>7 DEF DeleteRow, Goto, Creating
    <3>3. \A s \in Requests : pc'[s] = "upsert" => pc[s] = "upsert" /\ req'[s] = req[s]
      BY <2>7 DEF DeleteRow, Goto
    <3>4. \A u : HasCreated(u) => HasCreated(u)'
      BY <3>1 DEF HasCreated
    <3>5. QED
      BY <3>1, <3>2, <3>3, <3>4 DEF Accounted
  <2>8. CASE DeleteBoard \/ UndeleteBoard
    BY <2>1, <2>8 DEF DeleteBoard, UndeleteBoard, counts
  <2>9. CASE Crash
    BY <2>9 DEF Crash, Accounted
  <2>10. CASE UNCHANGED vars
    BY <2>1, <2>10 DEF vars
  <2>11. QED
    BY <2>2, <2>3, <2>4, <2>5, <2>6, <2>7, <2>8, <2>9, <2>10 DEF Next, Request
<1>3. Accounted => MemberWasCreated
  BY DEF Accounted, MemberWasCreated, IsMember, Writing, HasCreated, Creating
<1>4. QED BY <1>1, <1>2, <1>3, TypeCorrect, PTL DEF Spec

-----------------------------------------------------------------------------
(* One request goroutine and no crash: the history, and the entry a        *)
(* request is about to add, tell the table.                                *)

Odd(u) == Len(history[u]) % 2 = 1
Alternates(h) == \A i \in 1..Len(h) : h[i] = IF i % 2 = 1 THEN "created" ELSE "deleted"
Recording(u) ==
    \E r \in Requests : pc[r] \in {"recordCreated", "recordDeleted"} /\ req[r].target = u

InTurn ==
    crashes = 0 =>
        /\ \A u \in Users : Alternates(history[u]) /\ (~Recording(u) => (IsMember(u) <=> Odd(u)))
        /\ \A r \in Requests :
              LET t == req[r].target IN
              /\ pc[r] = "upsert" => (req[r].existed <=> IsMember(t))
              /\ pc[r] = "recordCreated" => IsMember(t) /\ ~Odd(t)
              /\ pc[r] = "recordDeleted" => ~IsMember(t) /\ Odd(t)

\* The entry that comes next keeps a history in turn.
LEMMA NextInTurn ==
  ASSUME NEW h \in Seq(Actions), Alternates(h), NEW a,
         a = IF Len(h) % 2 = 0 THEN "created" ELSE "deleted"
  PROVE  /\ Alternates(Append(h, a))
         /\ Len(Append(h, a)) % 2 = 1 <=> Len(h) % 2 # 1
<1>1. /\ Len(h) \in Nat /\ Len(Append(h, a)) = Len(h) + 1
      /\ Append(h, a)[Len(h) + 1] = a
      /\ \A i \in 1..Len(h) : Append(h, a)[i] = h[i]
  OBVIOUS
<1>2. \A n \in Nat : n % 2 \in {0, 1} /\ ((n + 1) % 2 = 1 <=> n % 2 = 0)
  OBVIOUS
<1>3. ASSUME NEW i \in 1..Len(h) + 1
      PROVE  Append(h, a)[i] = IF i % 2 = 1 THEN "created" ELSE "deleted"
  <2>1. CASE i \in 1..Len(h)
    BY <1>1, <2>1 DEF Alternates
  <2>2. CASE i = Len(h) + 1
    BY <1>1, <1>2, <2>2
  <2>3. QED BY <1>1, <2>1, <2>2
<1>4. Alternates(Append(h, a))
  BY <1>1, <1>3 DEF Alternates
<1>5. Len(Append(h, a)) % 2 = 1 <=> Len(h) % 2 # 1
  BY <1>1, <1>2
<1>6. QED BY <1>4, <1>5

\* Served one request at a time and as long as the server does not crash, the
\* history of each user says created and deleted in turn, and its last entry
\* whether he is a member (board.go:502-580).
THEOREM HistoryInTurn ==
  ASSUME \A r, s \in Requests : r = s
  PROVE  Spec => []HistoryAgrees
<1> USE CreatorAssumption
<1>0. \A r, s \in Requests : r = s
  OBVIOUS
<1>1. Init => InTurn
  <2> SUFFICES ASSUME Init PROVE InTurn
    OBVIOUS
  <2>1. ASSUME NEW u \in Users PROVE Alternates(history[u]) /\ (IsMember(u) <=> Odd(u))
    <3>1. CASE u = Creator
      <4>1. history[u] = <<"created">> /\ IsMember(u)
        BY <3>1 DEF Init, IsMember
      <4>2. Len(<<"created">>) = 1 /\ <<"created">>[1] = "created" /\ 1 % 2 = 1
        OBVIOUS
      <4>3. QED BY <4>1, <4>2 DEF Alternates, Odd
    <3>2. CASE u # Creator
      <4>1. history[u] = <<>> /\ ~IsMember(u)
        BY <3>2 DEF Init, IsMember
      <4>2. Len(<<>>) = 0 /\ 0 % 2 = 0
        OBVIOUS
      <4>3. QED BY <4>1, <4>2 DEF Alternates, Odd
    <3>3. QED BY <3>1, <3>2
  <2>2. \A r \in Requests : pc[r] = "idle"
    BY DEF Init
  <2>3. QED BY <2>1, <2>2 DEF InTurn
<1>2. ASSUME TypeOK, InTurn, [Next]_vars PROVE InTurn'
  <2> USE <1>0, <1>2
  <2>0. /\ history \in [Users -> Seq(Actions)] /\ crashes \in Nat
        /\ \A r \in Requests : req[r] \in RequestType /\ req[r].target \in Users
        /\ pc \in [Requests -> {"idle", "authorise", "load", "lastAdmin", "readRow",
                            "upsert", "recordCreated", "deleteRow", "recordDeleted"}]
        /\ req \in [Requests -> RequestType]
    BY DEF TypeOK, RequestType
  \* Steps that leave the tables alone and are not about to write.
  <2>1. ASSUME NEW r \in Requests, UNCHANGED <<members, history, crashes>>,
               pc[r] \notin {"recordCreated", "recordDeleted"},
               pc'[r] \notin {"upsert", "recordCreated", "recordDeleted"}
        PROVE  InTurn'
    <3>1. \A u : ~Recording(u) /\ ~Recording(u)'
      BY <2>1 DEF Recording
    <3>2. \A u : Odd(u)' = Odd(u) /\ IsMember(u)' = IsMember(u)
      BY <2>1 DEF Odd, IsMember
    <3>3. QED BY <2>1, <3>1, <3>2 DEF InTurn
  <2>2. ASSUME NEW r \in Requests, NEW op \in Ops, NEW actor \in Users, NEW target \in Users,
               NEW grant \in Grants \cup {{}, JoinGrant}, Arrive(r, op, actor, target, grant)
        PROVE  InTurn'
    BY <2>0, <2>1, <2>2 DEF Arrive, tables
  <2>3. ASSUME NEW r \in Requests, Authorise(r) \/ Load(r) \/ CheckLastAdmin(r)
        PROVE  InTurn'
    BY <2>0, <2>1, <2>3 DEF Authorise, Load, CheckLastAdmin, Goto, AfterLoad, tables, counts
  <2>4. ASSUME NEW r \in Requests, ReadRow(r) PROVE InTurn'
    <3>1. UNCHANGED <<members, history, crashes>> /\ pc[r] = "readRow" /\ pc'[r] = "upsert"
      BY <2>0, <2>4 DEF ReadRow, tables, counts
    <3>2. req'[r].existed = IsMember(req[r].target) /\ req'[r].target = req[r].target
      BY <2>0, <2>4 DEF ReadRow, RequestType
    <3>3. \A u : ~Recording(u) /\ ~Recording(u)'
      BY <3>1 DEF Recording
    <3>4. \A u : Odd(u)' = Odd(u) /\ IsMember(u)' = IsMember(u)
      BY <3>1 DEF Odd, IsMember
    <3>5. QED BY <3>1, <3>2, <3>3, <3>4 DEF InTurn
  <2>5. ASSUME NEW r \in Requests, Upsert(r), crashes = 0 PROVE InTurn'
    <3>1. PICK t \in Users : t = req[r].target
      BY <2>0
    <3>2. UNCHANGED <<history, crashes>> /\ DOMAIN members' = DOMAIN members \cup {t}
      BY <2>5, <3>1 DEF Upsert, counts
    <3>3. pc[r] = "upsert" /\ pc'[r] = AfterUpsert(req[r])
      BY <2>0, <2>5 DEF Upsert, Goto
    <3>4. \A u \in Users : ~Recording(u)
      BY <3>3 DEF Recording
    <3>5. \A u \in Users : Odd(u)' = Odd(u) /\ Alternates(history'[u]) /\ (IsMember(u) <=> Odd(u))
      BY <2>5, <3>2, <3>4 DEF Odd, InTurn
    <3>6. \A u \in Users : u # t => IsMember(u)' = IsMember(u)
      BY <3>2 DEF IsMember
    <3>7. IsMember(t)'
      BY <3>2 DEF IsMember
    <3>8. CASE req[r].existed
      <4>1. pc'[r] = "idle" /\ IsMember(t)
        BY <2>5, <3>1, <3>3, <3>8 DEF AfterUpsert, InTurn
      <4>2. QED BY <3>5, <3>6, <3>7, <4>1 DEF InTurn
    <3>9. CASE ~req[r].existed
      <4>1. pc'[r] = "recordCreated" /\ ~IsMember(t)
        BY <2>5, <3>1, <3>3, <3>9 DEF AfterUpsert, InTurn
      <4>2. req' = req
        BY <2>5, <3>9 DEF Upsert, Goto, AfterUpsert
      <4>3. Recording(t)' /\ ~Odd(t)'
        BY <3>1, <3>5, <4>1, <4>2 DEF Recording
      <4>4. QED BY <3>1, <3>5, <3>6, <3>7, <4>1, <4>2, <4>3 DEF InTurn
    <3>10. QED BY <3>8, <3>9
  <2>6. ASSUME NEW r \in Requests, NEW a \in Actions, crashes = 0,
               \/ RecordCreated(r) /\ a = "created"
               \/ RecordDeleted(r) /\ a = "deleted"
        PROVE  InTurn'
    <3>1. PICK t \in Users : t = req[r].target
      BY <2>0
    <3>2. /\ UNCHANGED <<members, crashes>> /\ pc'[r] = "idle"
          /\ history' = [history EXCEPT ![t] = Append(@, a)]
      BY <2>0, <2>6, <3>1 DEF RecordCreated, RecordDeleted, Goto, counts
    <3>3. /\ a = IF Len(history[t]) % 2 = 0 THEN "created" ELSE "deleted"
          /\ IsMember(t) <=> ~Odd(t)
          /\ Alternates(history[t]) /\ history[t] \in Seq(Actions)
      <4>1. \A n \in Nat : n % 2 = 0 <=> n % 2 # 1
        OBVIOUS
      <4>2. Len(history[t]) \in Nat
        BY <2>0
      <4>3. QED
        BY <2>0, <2>6, <3>1, <4>1, <4>2 DEF RecordCreated, RecordDeleted, InTurn, Odd
    <3>4. history'[t] = Append(history[t], a) /\ \A u \in Users : u # t => history'[u] = history[u]
      BY <2>0, <3>2
    <3>5. Alternates(history'[t]) /\ (Odd(t)' <=> ~Odd(t))
      BY <3>3, <3>4, NextInTurn, ZenonT(60) DEF Odd
    <3>6. \A u \in Users : IsMember(u)' = IsMember(u)
      BY <3>2 DEF IsMember
    <3>7. \A u \in Users : u # t => ~Recording(u)
      BY <3>1, <2>6 DEF Recording
    <3>8. \A u \in Users : u # t => Alternates(history'[u]) /\ (IsMember(u)' <=> Odd(u)')
      BY <2>6, <3>4, <3>6, <3>7, ZenonT(60) DEF InTurn, Odd
    <3>9. QED BY <3>2, <3>3, <3>5, <3>6, <3>8 DEF InTurn
  <2>7. ASSUME NEW r \in Requests, DeleteRow(r), crashes = 0 PROVE InTurn'
    <3>1. PICK t \in Users : t = req[r].target
      BY <2>0
    <3>2. /\ UNCHANGED <<history, crashes>> /\ DOMAIN members' = DOMAIN members \ {t}
          /\ pc[r] = "deleteRow"
          /\ pc'[r] = IF IsMember(t) THEN "recordDeleted" ELSE "idle"
      BY <2>0, <2>7, <3>1 DEF DeleteRow, Goto, counts
    <3>3. \A u \in Users : ~Recording(u)
      BY <3>2 DEF Recording
    <3>4. \A u \in Users : Odd(u)' = Odd(u) /\ Alternates(history'[u]) /\ (IsMember(u) <=> Odd(u))
      BY <2>7, <3>2, <3>3 DEF Odd, InTurn
    <3>5. (\A u \in Users : u # t => IsMember(u)' = IsMember(u)) /\ ~IsMember(t)'
      BY <3>2 DEF IsMember
    <3>6. CASE IsMember(t)
      <4>1. req' = req /\ pc'[r] = "recordDeleted"
        BY <2>7, <3>1, <3>2, <3>6 DEF DeleteRow, Goto
      <4>2. Recording(t)'
        BY <3>1, <4>1 DEF Recording
      <4>3. QED BY <3>1, <3>4, <3>5, <3>6, <4>1, <4>2 DEF InTurn
    <3>7. CASE ~IsMember(t)
      BY <3>2, <3>4, <3>5, <3>7 DEF InTurn
    <3>8. QED BY <3>6, <3>7
  <2>8. CASE DeleteBoard \/ UndeleteBoard \/ UNCHANGED vars
    <3>1. UNCHANGED <<members, history, pc, req, crashes>>
      BY <2>8 DEF DeleteBoard, UndeleteBoard, counts, vars
    <3>2. QED BY <3>1 DEF InTurn, Recording, Odd, IsMember
  <2>9. CASE Crash
    BY <2>0, <2>9 DEF Crash, InTurn
  <2>10. ASSUME NEW r \in Requests, crashes # 0,
                Upsert(r) \/ RecordCreated(r) \/ RecordDeleted(r) \/ DeleteRow(r)
         PROVE  InTurn'
    BY <2>10 DEF Upsert, RecordCreated, RecordDeleted, DeleteRow, counts, InTurn
  <2>11. "created" \in Actions /\ "deleted" \in Actions
    BY DEF Actions
  <2>12. QED
    BY <2>2, <2>3, <2>4, <2>5, <2>6, <2>7, <2>8, <2>9, <2>10, <2>11 DEF Next, Request
<1>3. InTurn => HistoryAgrees
  BY DEF InTurn, HistoryAgrees, Alternates, Odd, Recording, Writing
<1>4. QED BY <1>1, <1>2, <1>3, TypeCorrect, PTL DEF Spec

-----------------------------------------------------------------------------
(***************************************************************************)
(* ShareBoard: the members, roles, persons and link as the client shows    *)
(* them.  The invariant says, of every state between two acts and two      *)
(* broadcasts, what the client shows of a person no broadcast is under way *)
(* about (Told), and that the last broadcast about any other tells what    *)
(* the table has.                                                          *)
(***************************************************************************)
(* What the state consists of.                                           *)

\* The flags a user may have, and the members as the client keeps them.
FlagsFor(u) == SUBSET (IF u \in Guests THEN Flags \ {"admin"} ELSE Flags)
Given(u) == FlagsFor(u) \ {{}}
Memberships == [flags : SUBSET Flags, min : Minimums]
Known(m) == IF m = None THEN {} ELSE m.flags
ListOK(l) == /\ l \in [People -> Memberships \cup {None}]
             /\ \A u \in People : l[u] # None => l[u].flags \in Given(u)
SharingOrNone == Links \cup {None}

\* The broadcasts and the calls under way.
Messages == [kind : {"member"}, who : People, what : SUBSET Flags]
            \cup [kind : {"board"}, who : People, what : Minimums]
            \cup [kind : {"card"}, who : People, what : SUBSET People]
Payload == (SUBSET Flags) \cup Minimums \cup (SUBSET People) \cup SharingOrNone \cup [People -> Memberships \cup {None}]
Trips == [do : {"create", "update", "delete", "board", "share", "sharing", "persons", "members", "user"},
          who : People, what : Payload, then : {"show", "record", "assign", "undo", "undoDeletion"},
          had : Payload, min : Minimums, answer : {"none", "ok", "refused"}]
Lower(flags, min) == Highest(With(flags, min)) # Highest(flags)


\* What a call carries: who is given flags gets some he may have and, unless by an
\* undo, not less than the minimum the user saw.
CallOK(c) ==
    /\ c \in Trips
    /\ c.do \in {"create", "update"} => c.what \in Given(c.who)
    /\ c.do = "board" => c.what \in Minimums
    /\ c.do = "share" => c.what \in Links
    /\ c.do = "persons" => c.what \in SUBSET People
    /\ c.do = "sharing" /\ c.answer = "ok" => c.what \in SharingOrNone
    /\ c.do = "members" /\ c.answer = "ok" => ListOK(c.what)
    /\ c.then = "assign" => c.do = "create" /\ c.had \in SUBSET People
    /\ c.then = "record" => /\ c.do \in {"create", "update", "delete", "board"}
                            /\ c.do \in {"update", "delete"} => c.had \in Given(c.who)
                            /\ c.do = "board" => c.had \in Minimums
    /\ c.do \in {"create", "update"} /\ c.then \notin {"undo", "undoDeletion"} => ~Lower(c.what, c.min)

\* The elements of a sequence, the calls under way and the broadcasts to be heard.
Elems(s) == {s[i] : i \in DOMAIN s}
Under == Elems(calls)
Heard == Elems(news)

\* The type of the state, with what every call and broadcast carries.
ShareTyped ==
    /\ rows \in [People -> SUBSET Flags] /\ \A u \in People : rows[u] \in FlagsFor(u)
    /\ minimum \in Minimums /\ link \in SharingOrNone
    /\ persons \in SUBSET People /\ ever \in SUBSET People
    /\ client \in [members : [People -> Memberships \cup {None}], users : SUBSET People,
                   mine : SUBSET Flags, min : Minimums, persons : SUBSET People]
    /\ ListOK(client.members)
    /\ dialog \in [shown : BOOLEAN, sharing : SharingOrNone, confirm : People \cup {None}]
    /\ calls \in Seq(Trips) /\ \A c \in Under : CallOK(c)
    /\ news \in Seq(Messages) /\ \A m \in Heard : m.kind = "member" => m.what \in FlagsFor(m.who)
    /\ done # None => CallOK(done) /\ done.then \in {"record", "assign"}
    /\ tokens \in Nat

-----------------------------------------------------------------------------
\* Whoever the client, a call or a broadcast names as a person was a member once.
PersonsKnown ==
    "refused" \notin slips =>
        /\ persons \subseteq ever /\ client.persons \subseteq ever /\ client.users \subseteq ever
        /\ \A u \in People : rows[u] # {} => u \in ever
        /\ \A m \in Heard : /\ m.kind = "member" /\ m.what # {} => m.who \in ever
                            /\ m.kind = "card" => m.what \subseteq ever
        /\ \A c \in Under :
              /\ c.do = "user" => c.who \in ever
              /\ c.do = "persons" => c.what \subseteq ever
              /\ c.then = "assign" => c.had \subseteq ever
              /\ c.do = "create" /\ c.answer # "none" => c.who \in ever
              /\ c.do = "members" /\ c.answer = "ok" => \A u \in People : c.what[u] # None => u \in ever

-----------------------------------------------------------------------------
\* One call about the link is under way at a time; without one the dialog has the
\* link of the table, and an answer brings it.
LinkSlips == {"failed", "refused", "others", "twice"}
LinkKnown ==
    slips \cap LinkSlips = {} =>
        /\ \A i, j \in DOMAIN calls :
              calls[i].do \in {"share", "sharing"} /\ calls[j].do \in {"share", "sharing"} => i = j
        /\ (\A c \in Under : c.do \notin {"share", "sharing"}) => dialog.sharing = link
        /\ \A c \in Under : c.do \in {"share", "sharing"} /\ c.answer # "none" => c.answer = "ok" /\ c.what = link
        /\ slips \cap {"renewed", "blind"} = {} =>
              /\ link # None => link.token = 1
              /\ dialog.sharing # None => dialog.sharing.token = 1
              /\ \A c \in Under : c.do = "share" => c.what.token = 1

-----------------------------------------------------------------------------
\* Members and roles: the user may have lost the page (Gone); the last broadcast
\* about a user is the one that counts.
RoleSlips == {"failed", "overtaken", "below", "hidden"}
Gone == ~dialog.shown \/ \E m \in Heard : m.kind = "member" /\ m.who = Me /\ m.what = {}
About(u, k) == news[k].kind = "member" /\ news[k].who = u
LastAbout(u, k) == About(u, k) /\ \A j \in DOMAIN news : j > k => ~About(u, j)
Told(u) == \A k \in DOMAIN news : ~About(u, k)
BoardTold(k) == \A j \in DOMAIN news : j > k => news[j].kind # "board"
Loading == \E c \in Under : c.do = "members"
Answers == {c \in Under : c.do = "members" /\ c.answer = "ok"}

\* While the page is there the user is a member, and is refused no list.
Presence ==
    ~Gone => /\ rows[Me] # {}
             /\ \A c \in Under : c.do \in {"members", "user"} => c.answer # "refused"
\* The last broadcast under way about a user tells what the table has.
NewsTell == \A u \in People : \A k \in DOMAIN news : LastAbout(u, k) => news[k].what = rows[u]

\* A member heard of and not yet told the minimum.
Shows(u, m) == m = None \/ m.min = minimum \/ (m.min = "none" /\ ~Lower(m.flags, minimum))
\* Of whom no broadcast is under way the client has the flags of the table, in the
\* state store and in a list to be received, and knows or asks for the user; and once
\* the last minimum is heard it shows the role the server grants.
RolesKnown ==
    ~Gone /\ slips \cap RoleSlips = {} =>
        /\ \A u \in People : Told(u) =>
              /\ Known(client.members[u]) = rows[u]
              /\ \A c \in Answers : Known(c.what[u]) = rows[u]
              /\ rows[u] # {} => u \in client.users \/ \E c \in Under : c.do = "user" /\ c.who = u
        /\ \A u \in People : \A k \in DOMAIN news :
              LastAbout(u, k) /\ BoardTold(k) /\ rows[u] # {} => ~Lower(rows[u], minimum)
        /\ BoardTold(0) =>
              /\ \A c \in Answers : \A u \in People : c.what[u] # None => c.what[u].min = minimum
              /\ ~Loading => \A u \in People : Told(u) => Shows(u, client.members[u])
-----------------------------------------------------------------------------
(* Sequences.                                                              *)

LEMMA Appended ==
    ASSUME NEW S, NEW s \in Seq(S), NEW e \in S
    PROVE  /\ Append(s, e) \in Seq(S) /\ DOMAIN Append(s, e) = 1 .. Len(s) + 1
           /\ \A i \in DOMAIN s : Append(s, e)[i] = s[i]
           /\ Append(s, e)[Len(s) + 1] = e
           /\ Elems(Append(s, e)) = Elems(s) \cup {e}
<1>1. /\ Append(s, e) \in Seq(S) /\ DOMAIN Append(s, e) = 1 .. Len(s) + 1
      /\ \A i \in 1 .. Len(s) : Append(s, e)[i] = s[i]
      /\ Append(s, e)[Len(s) + 1] = e
  OBVIOUS
<1>2. DOMAIN s = 1 .. Len(s) /\ Len(s) \in Nat
  OBVIOUS
<1>3. 1 .. Len(s) + 1 = (1 .. Len(s)) \cup {Len(s) + 1}
  BY <1>2
<1> DEFINE t == Append(s, e)
<1> HIDE DEF t
<1>4. Elems(t) = Elems(s) \cup {e}
  BY <1>1, <1>2, <1>3 DEF Elems, t
<1>5. QED BY <1>1, <1>2, <1>4 DEF t

LEMMA Removed ==
    ASSUME NEW S, NEW s \in Seq(S), NEW i \in DOMAIN s
    PROVE  /\ RemoveAt(s, i) \in Seq(S) /\ DOMAIN RemoveAt(s, i) = 1 .. Len(s) - 1
           /\ \A j \in DOMAIN RemoveAt(s, i) : RemoveAt(s, i)[j] = s[IF j < i THEN j ELSE j + 1]
           /\ Elems(RemoveAt(s, i)) \subseteq Elems(s)
           /\ \A x \in Elems(s) : x = s[i] \/ x \in Elems(RemoveAt(s, i))
<1>1. DOMAIN s = 1 .. Len(s) /\ Len(s) \in Nat /\ i \in 1 .. Len(s)
  OBVIOUS
<1> DEFINE a == SubSeq(s, 1, i - 1)
           b == SubSeq(s, i + 1, Len(s))
           t == RemoveAt(s, i)
<1>2. a \in Seq(S) /\ Len(a) = i - 1 /\ \A j \in 1 .. i - 1 : a[j] = s[j]
  BY <1>1
<1>3. b \in Seq(S) /\ Len(b) = Len(s) - i /\ \A j \in 1 .. Len(s) - i : b[j] = s[i + j]
  BY <1>1, SMTT(40)
<1>4. t = a \o b
  BY DEF RemoveAt
<1> HIDE DEF a, b, t
<1>5. t \in Seq(S) /\ Len(t) = Len(s) - 1 /\ DOMAIN t = 1 .. Len(s) - 1
  <2>1. t \in Seq(S) /\ Len(t) = Len(a) + Len(b)
    <3>1. a \in Seq(S) /\ b \in Seq(S)
      BY <1>2, <1>3
    <3>2. a \o b \in Seq(S) /\ Len(a \o b) = Len(a) + Len(b)
      BY <3>1
    <3>3. QED BY <1>4, <3>2
  <2>2. (i - 1) + (Len(s) - i) = Len(s) - 1
    BY <1>1
  <2>3. Len(t) = Len(s) - 1
    BY <1>2, <1>3, <2>1, <2>2
  <2>4. DOMAIN t = 1 .. Len(t)
    BY <2>1
  <2>5. QED BY <2>1, <2>3, <2>4
<1>6. ASSUME NEW j \in 1 .. Len(s) - 1 PROVE t[j] = s[IF j < i THEN j ELSE j + 1]
  <2>1. CASE j < i
    BY <1>1, <1>2, <1>3, <1>4, <2>1
  <2>2. CASE ~(j < i)
    <3>1. t[j] = b[j - (i - 1)] /\ j - (i - 1) \in 1 .. Len(s) - i
      BY <1>1, <1>2, <1>3, <1>4, <2>2, SMTT(40)
    <3>2. i + (j - (i - 1)) = j + 1
      BY <1>1
    <3>3. QED BY <1>1, <1>3, <2>2, <3>1, <3>2
  <2>3. QED BY <2>1, <2>2
<1>7. Elems(t) \subseteq Elems(s)
  <2>1. \A j \in 1 .. Len(s) - 1 : (IF j < i THEN j ELSE j + 1) \in DOMAIN s
    BY <1>1
  <2>2. QED BY <1>5, <1>6, <2>1 DEF Elems
<1>8. ASSUME NEW k \in DOMAIN s PROVE s[k] = s[i] \/ s[k] \in Elems(t)
  <2>1. CASE k = i
    BY <2>1
  <2>2. CASE k < i
    <3>1. k \in 1 .. Len(s) - 1 /\ t[k] = s[k]
      BY <1>1, <1>6, <2>2
    <3>2. QED BY <1>5, <3>1 DEF Elems
  <2>3. CASE k > i
    <3>1. k - 1 \in 1 .. Len(s) - 1 /\ ~(k - 1 < i) /\ (k - 1) + 1 = k
      BY <1>1, <2>3
    <3>2. t[k - 1] = s[k]
      BY <1>6, <3>1
    <3>3. QED BY <1>5, <3>1, <3>2 DEF Elems
  <2>4. QED BY <1>1, <2>1, <2>2, <2>3
<1>9. QED BY <1>5, <1>6, <1>7, <1>8 DEF t, Elems

LEMMA Replaced ==
    ASSUME NEW S, NEW s \in Seq(S), NEW i \in DOMAIN s, NEW e \in S
    PROVE  /\ [s EXCEPT ![i] = e] \in Seq(S) /\ DOMAIN [s EXCEPT ![i] = e] = DOMAIN s
           /\ \A j \in DOMAIN s : [s EXCEPT ![i] = e][j] = IF j = i THEN e ELSE s[j]
           /\ Elems([s EXCEPT ![i] = e]) \subseteq Elems(s) \cup {e}
           /\ e \in Elems([s EXCEPT ![i] = e])
           /\ \A x \in Elems(s) : x = s[i] \/ x \in Elems([s EXCEPT ![i] = e])
<1> DEFINE t == [s EXCEPT ![i] = e]
<1>1. t \in Seq(S) /\ DOMAIN t = DOMAIN s /\ \A j \in DOMAIN s : t[j] = IF j = i THEN e ELSE s[j]
  OBVIOUS
<1> HIDE DEF t
<1>2. Elems(t) \subseteq Elems(s) \cup {e} /\ e \in Elems(t)
  BY <1>1 DEF Elems
<1>3. \A x \in Elems(s) : x = s[i] \/ x \in Elems(t)
  BY <1>1 DEF Elems
<1>4. QED BY <1>1, <1>2, <1>3 DEF t

LEMMA Taken ==
    ASSUME NEW S, NEW s \in Seq(S), s # <<>>
    PROVE  /\ Tail(s) \in Seq(S) /\ DOMAIN Tail(s) = 1 .. Len(s) - 1
           /\ Head(s) = s[1] /\ 1 \in DOMAIN s /\ Head(s) \in Elems(s) /\ Head(s) \in S
           /\ \A j \in DOMAIN Tail(s) : Tail(s)[j] = s[j + 1]
           /\ Elems(Tail(s)) \subseteq Elems(s)
           /\ \A x \in Elems(s) : x = s[1] \/ x \in Elems(Tail(s))
<1>1. DOMAIN s = 1 .. Len(s) /\ Len(s) \in Nat /\ Len(s) >= 1
  OBVIOUS
<1> DEFINE t == Tail(s)
<1>2. t \in Seq(S) /\ DOMAIN t = 1 .. Len(s) - 1 /\ Head(s) = s[1]
  BY <1>1
<1>3. \A j \in 1 .. Len(s) - 1 : t[j] = s[j + 1]
  BY <1>1
<1> HIDE DEF t
<1>4. 1 \in DOMAIN s /\ s[1] \in S /\ s[1] \in Elems(s)
  BY <1>1 DEF Elems
<1>5. \A j \in 1 .. Len(s) - 1 : j + 1 \in DOMAIN s
  BY <1>1
<1>6. Elems(t) \subseteq Elems(s)
  BY <1>2, <1>3, <1>5 DEF Elems
<1>7. \A k \in DOMAIN s : k = 1 \/ (k - 1 \in DOMAIN t /\ t[k - 1] = s[k])
  BY <1>1, <1>2, <1>3
<1>8. \A x \in Elems(s) : x = s[1] \/ x \in Elems(t)
  BY <1>7 DEF Elems
<1>9. QED BY <1>2, <1>3, <1>4, <1>6, <1>8 DEF t

-----------------------------------------------------------------------------
(* The roles.                                                              *)

LEMMA FlagsAre == Flags = {"admin", "editor", "commenter", "viewer"}
<1>1. DOMAIN Order = 1 .. 4
  BY DEF Order
<1>2. Flags = {Order[i] : i \in 1 .. 4}
  BY <1>1 DEF Flags, ToSet
<1>3. Order[1] = "admin" /\ Order[2] = "editor" /\ Order[3] = "commenter" /\ Order[4] = "viewer"
  BY DEF Order
<1>4. ASSUME NEW x PROVE x \in Flags <=> x \in {"admin", "editor", "commenter", "viewer"}
  <2>1. \A i \in 1 .. 4 : i = 1 \/ i = 2 \/ i = 3 \/ i = 4
    OBVIOUS
  <2>2. QED BY <1>2, <1>3, <2>1
<1>5. QED BY <1>4

LEMMA RanksAre == Rank("admin") = 1 /\ Rank("editor") = 2 /\ Rank("commenter") = 3 /\ Rank("viewer") = 4
<1> DEFINE all == Append(Order, "none")
<1>1. /\ Order \in Seq({"admin", "editor", "commenter", "viewer", "none"}) /\ Len(Order) = 4
      /\ Order[1] = "admin" /\ Order[2] = "editor" /\ Order[3] = "commenter" /\ Order[4] = "viewer"
  BY DEF Order
<1>2. /\ \A i \in 1 .. 4 : all[i] = Order[i]
      /\ all[5] = "none"
  <2>1. ASSUME NEW S, Order \in Seq(S), "none" \in S
        PROVE  /\ \A i \in DOMAIN Order : Append(Order, "none")[i] = Order[i]
               /\ Append(Order, "none")[Len(Order) + 1] = "none"
    BY <2>1, Appended
  <2>2. DOMAIN Order = 1 .. 4 /\ Len(Order) + 1 = 5
    BY <1>1
  <2>3. "none" \in {"admin", "editor", "commenter", "viewer", "none"}
    OBVIOUS
  <2>4. QED BY <1>1, <2>1, <2>2, <2>3
<1>3. \A i \in 1 .. 5 : i = 1 \/ i = 2 \/ i = 3 \/ i = 4 \/ i = 5
  OBVIOUS
<1> HIDE DEF all
<1>4. \A role : Rank(role) = CHOOSE i \in 1 .. 5 : all[i] = role
  BY DEF Rank, all
<1>5. /\ 1 \in 1 .. 4 /\ 2 \in 1 .. 4 /\ 3 \in 1 .. 4 /\ 4 \in 1 .. 4
      /\ all[1] = "admin" /\ all[2] = "editor" /\ all[3] = "commenter" /\ all[4] = "viewer"
  BY <1>1, <1>2
<1>6. \A i \in 1 .. 5 : /\ all[i] = "admin" <=> i = 1
                        /\ all[i] = "editor" <=> i = 2
                        /\ all[i] = "commenter" <=> i = 3
                        /\ all[i] = "viewer" <=> i = 4
  BY <1>2, <1>3, <1>5
<1>7. Rank("admin") = 1
  BY <1>4, <1>6
<1>8. Rank("editor") = 2
  BY <1>4, <1>6
<1>9. Rank("commenter") = 3
  BY <1>4, <1>6
<1>10. Rank("viewer") = 4
  BY <1>4, <1>6
<1>11. QED BY <1>7, <1>8, <1>9, <1>10

LEMMA HighestIs ==
    ASSUME NEW f \in SUBSET Flags, f # {}
    PROVE  Highest(f) = IF "admin" \in f THEN "admin" ELSE IF "editor" \in f THEN "editor"
                        ELSE IF "commenter" \in f THEN "commenter" ELSE "viewer"
<1> DEFINE h == IF "admin" \in f THEN "admin" ELSE IF "editor" \in f THEN "editor"
                ELSE IF "commenter" \in f THEN "commenter" ELSE "viewer"
<1>1. f \subseteq {"admin", "editor", "commenter", "viewer"}
  BY FlagsAre
<1>2. h \in f /\ \A g \in f : Rank(h) <= Rank(g)
  <2>1. h \in f
    BY <1>1
  <2>2. ASSUME NEW g \in f PROVE Rank(h) <= Rank(g)
    <3>1. g \in {"admin", "editor", "commenter", "viewer"}
      BY <1>1
    <3>2. CASE h = "admin"
      BY <3>1, <3>2, RanksAre
    <3>3. CASE h # "admin"
      BY <3>1, <3>3, <2>2, RanksAre
    <3>4. QED BY <3>2, <3>3
  <2>3. QED BY <2>1, <2>2
<1>3. \A r \in f : (\A g \in f : Rank(r) <= Rank(g)) => r = h
  BY <1>1, <1>2, RanksAre
<1> HIDE DEF h
<1>4. Highest(f) = h
  BY <1>2, <1>3 DEF Highest
<1>5. QED BY <1>4 DEF h

LEMMA WithIsFlags ==
    ASSUME NEW f \in SUBSET Flags, NEW min \in Minimums
    PROVE  With(f, min) \in SUBSET Flags /\ With(f, min) = IF min = "none" THEN f ELSE f \cup {min}
BY FlagsAre DEF With, Minimums

\* A member shown with the minimum, or without it and not below it, is shown as
\* what the server grants him.
LEMMA ShownIsGranted ==
    ASSUME NEW f \in SUBSET Flags, f # {}, NEW min \in Minimums, NEW m \in Memberships, m.flags = f,
           m.min = min \/ (m.min = "none" /\ ~Lower(f, min))
    PROVE  ShownRole(m) = Highest(With(f, min))
<1>1. /\ With(f, min) \in SUBSET Flags /\ With(f, min) # {}
      /\ With(f, min) = IF min = "none" THEN f ELSE f \cup {min}
  BY WithIsFlags
<1>2. min \in {"editor", "commenter", "viewer", "none"} /\ f \subseteq {"admin", "editor", "commenter", "viewer"}
  BY FlagsAre DEF Minimums
<1>3. CASE m.min = min
  BY <1>1, <1>2, <1>3, HighestIs DEF ShownRole
<1>4. CASE m.min = "none" /\ ~Lower(f, min)
  <2>1. Highest(With(f, min)) = Highest(f)
    BY <1>4 DEF Lower
  <2>2. QED BY <1>2, <1>4, <2>1, HighestIs DEF ShownRole
<1>5. QED BY <1>3, <1>4

\* What the client gives a member is not less than the minimum.
LEMMA FlagsUpToAre ==
    /\ FlagsUpTo("admin") = {"admin", "editor", "commenter", "viewer"}
    /\ FlagsUpTo("editor") = {"editor", "commenter", "viewer"}
    /\ FlagsUpTo("commenter") = {"commenter", "viewer"} /\ FlagsUpTo("viewer") = {"viewer"}
BY FlagsAre, RanksAre DEF FlagsUpTo

LEMMA OfferedAre ==
    ASSUME NEW min \in Minimums, NEW u \in People, NEW role \in OfferedRoles(min, u)
    PROVE  /\ UpdatedFlags(role) \in Given(u) /\ ~Lower(UpdatedFlags(role), min)
           /\ FlagsUpTo(role) \in Given(u) /\ ~Lower(FlagsUpTo(role), min)
<1>1. /\ role \in {"admin", "editor", "commenter", "viewer"} /\ (u \in Guests => role # "admin")
      /\ (min = "editor" => role \in {"admin", "editor"})
      /\ (min = "commenter" => role \in {"admin", "editor", "commenter"})
  BY DEF OfferedRoles
<1>2. UpdatedFlags(role) \in Given(u) /\ FlagsUpTo(role) \in Given(u)
  BY <1>1, FlagsAre, FlagsUpToAre DEF UpdatedFlags, Given, FlagsFor
<1>3. min \in {"editor", "commenter", "viewer", "none"}
  BY DEF Minimums
<1>4. ASSUME NEW f \in {UpdatedFlags(role), FlagsUpTo(role)} PROVE ~Lower(f, min)
  <2>1. f \in SUBSET Flags /\ f # {}
    BY <1>2 DEF Given, FlagsFor
  <2>2. /\ With(f, min) \in SUBSET Flags /\ With(f, min) # {}
        /\ With(f, min) = IF min = "none" THEN f ELSE f \cup {min}
    BY <2>1, WithIsFlags
  <2>3. /\ role = "admin" => "admin" \in f
        /\ role = "editor" => "editor" \in f /\ "admin" \notin f
        /\ role = "commenter" => "commenter" \in f /\ "admin" \notin f /\ "editor" \notin f
        /\ role = "viewer" => f = {"viewer"}
    BY <1>4, FlagsUpToAre DEF UpdatedFlags
  <2>4. Highest(f) = role
    BY <1>1, <2>1, <2>3, HighestIs
  <2>5. Highest(With(f, min)) = role
    BY <1>1, <1>3, <2>2, <2>3, HighestIs
  <2>6. QED BY <2>4, <2>5 DEF Lower
<1>5. QED BY <1>2, <1>4

LEMMA AddedAre ==
    ASSUME NEW min \in Minimums, NEW u \in People
    PROVE  AddedFlags(min) \in Given(u) /\ ~Lower(AddedFlags(min), min)
<1> DEFINE role == IF min = "none" THEN "viewer" ELSE min
<1>1. role \in OfferedRoles(min, u)
  BY DEF OfferedRoles, Minimums
<1>2. AddedFlags(min) = FlagsUpTo(role)
  BY DEF AddedFlags
<1>3. QED BY <1>1, <1>2, OfferedAre

-----------------------------------------------------------------------------
(* What a step does.                                                       *)

LEMMA AskedIs ==
    ASSUME NEW do, NEW who, NEW what, NEW then, NEW had
    PROVE  LET c == Asked(do, who, what, then, had)
           IN /\ c.do = do /\ c.who = who /\ c.what = what /\ c.then = then /\ c.had = had
              /\ c.min = client.min /\ c.answer = "none"
              /\ do \in {"create", "update", "delete", "board", "share", "sharing", "persons", "members", "user"}
                 /\ who \in People /\ what \in Payload
                 /\ then \in {"show", "record", "assign", "undo", "undoDeletion"}
                 /\ had \in Payload /\ client.min \in Minimums
                 => c \in Trips
BY DEF Asked, Trips

\* What is asked for in the dialog: never the link, the list of members or a user.
NewCall(c) ==
    /\ CallOK(c) /\ c.answer = "none" /\ c.do \in {"create", "update", "delete", "board", "persons"}
    /\ c.do = "persons" => c.what \subseteq client.persons \cup client.users
    /\ c.then = "assign" => c.had \subseteq client.persons

Clicked ==
    /\ \E c : NewCall(c) /\ calls' = Append(calls, c)
    /\ UNCHANGED <<serverRows, client, news, others, tokens, slips>>
    /\ done' = done \/ done' = None
    /\ dialog'.shown = dialog.shown /\ dialog'.sharing = dialog.sharing
    /\ dialog' \in [shown : BOOLEAN, sharing : SharingOrNone, confirm : People \cup {None}]

LEMMA GivenIs == ASSUME NEW u, NEW f \in Given(u) PROVE f \in SUBSET Flags /\ f # {} /\ f \in Payload
BY DEF Given, FlagsFor, Payload

LEMMA NewCallOfMember ==
    ASSUME ShareTyped, NEW do \in {"create", "update"}, NEW u \in People, NEW f \in Given(u), ~Lower(f, client.min),
           NEW then \in {"record", "assign"}, NEW had,
           then = "record" /\ do = "create" => had = {},
           then = "record" /\ do = "update" => had \in Given(u),
           then = "assign" => do = "create" /\ had = client.persons
    PROVE  NewCall(Asked(do, u, f, then, had))
<1> DEFINE c == Asked(do, u, f, then, had)
<1>1. client.min \in Minimums /\ client.persons \in SUBSET People
  BY DEF ShareTyped
<1>2. had \in Payload
  <2>1. had \in SUBSET People \/ had \in Given(u)
    BY <1>1
  <2>2. QED BY <2>1, GivenIs DEF Payload
<1>3. /\ c \in Trips /\ c.do = do /\ c.who = u /\ c.what = f /\ c.then = then /\ c.had = had
      /\ c.min = client.min /\ c.answer = "none"
  BY <1>1, <1>2, GivenIs, AskedIs
<1> HIDE DEF c
<1>4. CallOK(c)
  BY <1>1, <1>3 DEF CallOK
<1>5. QED BY <1>3, <1>4 DEF NewCall, c

LEMMA NewCallOther ==
    ASSUME ShareTyped,
           NEW do \in {"delete", "board", "persons", "create", "update"}, NEW u \in People, NEW what, NEW then \in {"show", "record", "undo", "undoDeletion"},
           NEW had \in Payload,
           do = "persons" => what \subseteq client.persons \cup client.users,
           do = "board" => what \in Minimums,
           do = "delete" => what = {},
           do \in {"create", "update"} => what \in Given(u) /\ then \in {"undo", "undoDeletion"},
           then = "record" => do \in {"delete", "board"} /\ (do = "delete" => had \in Given(u)) /\ (do = "board" => had \in Minimums)
    PROVE  NewCall(Asked(do, u, what, then, had))
<1> DEFINE c == Asked(do, u, what, then, had)
<1>1. client.min \in Minimums /\ client.persons \in SUBSET People /\ client.users \in SUBSET People
  BY DEF ShareTyped
<1>2. what \in Payload
  <2>1. do = "persons" => what \in SUBSET People
    BY <1>1
  <2>2. do = "delete" => what \in SUBSET People
    OBVIOUS
  <2>3. QED BY <2>1, <2>2, GivenIs DEF Payload
<1>3. /\ c \in Trips /\ c.do = do /\ c.who = u /\ c.what = what /\ c.then = then /\ c.had = had
      /\ c.min = client.min /\ c.answer = "none"
  BY <1>1, <1>2, AskedIs
<1> HIDE DEF c
<1>4. do = "persons" => what \in SUBSET People
  BY <1>1
<1>5. CallOK(c)
  BY <1>1, <1>3, <1>4 DEF CallOK
<1>6. QED BY <1>3, <1>5 DEF NewCall, c

LEMMA ClicksAre ==
    ASSUME ShareTyped,
           AddUser \/ OnUpdateBoardMember \/ OnDeleteBoardMember \/ OnChangeRole
           \/ SelectPerson \/ ClearPersons \/ ConfirmPerson \/ Undo
    PROVE  Clicked
<1>0. /\ client.min \in Minimums /\ client.persons \in SUBSET People /\ client.users \in SUBSET People
      /\ client.members \in [People -> Memberships \cup {None}] /\ ListOK(client.members)
      /\ dialog \in [shown : BOOLEAN, sharing : SharingOrNone, confirm : People \cup {None}]
      /\ Me \in People /\ {} \in Payload /\ None \in Payload /\ calls \in Seq(Trips)
      /\ \A min \in Minimums : min \in Payload
  BY MeAssumption DEF ShareTyped, Payload, SharingOrNone
<1>1. \A u \in ListedMembers : u \in People /\ Had(u) \in Given(u)
  BY <1>0 DEF ListedMembers, ClientMembers, Had, ListOK
<1>a. ASSUME NEW asked, calls' = calls \o <<asked>> PROVE calls' = Append(calls, asked)
  BY <1>0, <1>a
<1>2. CASE AddUser
  <2>1. PICK u \in AddableUsers : Record("create", u, AddedFlags(client.min), {})
    BY <1>2 DEF AddUser
  <2>2. NewCall(Asked("create", u, AddedFlags(client.min), "record", {}))
    BY <1>0, <2>1, AddedAre, NewCallOfMember DEF AddableUsers
  <2>3. QED BY <1>0, <1>2, <1>a, <2>1, <2>2 DEF AddUser, Click, Record, Start, Clicked
<1>3. CASE OnUpdateBoardMember
  <2>1. PICK u \in ListedMembers : \E role \in OfferedRoles(client.min, u) :
            Record("update", u, UpdatedFlags(role), Had(u))
    BY <1>3 DEF OnUpdateBoardMember
  <2>2. PICK role \in OfferedRoles(client.min, u) : Record("update", u, UpdatedFlags(role), Had(u))
    BY <2>1
  <2>3. UpdatedFlags(role) \in Given(u) /\ ~Lower(UpdatedFlags(role), client.min)
    BY <1>0, <1>1, OfferedAre
  <2>4. NewCall(Asked("update", u, UpdatedFlags(role), "record", Had(u)))
    BY <1>1, <2>3, NewCallOfMember
  <2>5. QED BY <1>0, <1>3, <1>a, <2>2, <2>4 DEF OnUpdateBoardMember, Click, Record, Start, Clicked
<1>4. CASE OnDeleteBoardMember
  <2>1. PICK u \in ListedMembers : Record("delete", u, {}, Had(u))
    BY <1>4 DEF OnDeleteBoardMember
  <2>2. NewCall(Asked("delete", u, {}, "record", Had(u)))
    BY <1>1, GivenIs, NewCallOther
  <2>3. QED BY <1>0, <1>4, <1>a, <2>1, <2>2 DEF OnDeleteBoardMember, Click, Record, Start, Clicked
<1>5. CASE OnChangeRole
  <2>1. PICK min \in OfferedMinimums : Record("board", Me, min, client.min)
    BY <1>5 DEF OnChangeRole
  <2>2. NewCall(Asked("board", Me, min, "record", client.min))
    BY <1>0, NewCallOther DEF OfferedMinimums
  <2>3. QED BY <1>0, <1>5, <1>a, <2>1, <2>2 DEF OnChangeRole, Click, Record, Start, Clicked
<1>b. ASSUME NEW set, set \subseteq client.persons \cup client.users PROVE NewCall(Asked("persons", Me, set, "show", None))
  BY <1>0, <1>b, NewCallOther
<1>6. CASE SelectPerson
  <2>1. PICK u \in SelectablePersons :
           /\ SetPersons(ShownPersons \cup ({u} \cap client.users))
           /\ dialog' = [dialog EXCEPT !.confirm = IF u \in client.users THEN @ ELSE u]
    BY <1>6 DEF SelectPerson
  <2>2. NewCall(Asked("persons", Me, ShownPersons \cup ({u} \cap client.users), "show", None))
    BY <1>b DEF ShownPersons
  <2>3. u \in People
    BY <1>0, <2>1 DEF SelectablePersons
  <2>4. /\ dialog'.shown = dialog.shown /\ dialog'.sharing = dialog.sharing
        /\ dialog' \in [shown : BOOLEAN, sharing : SharingOrNone, confirm : People \cup {None}]
    BY <1>0, <2>1, <2>3
  <2>5. QED BY <1>0, <1>6, <1>a, <2>1, <2>2, <2>4 DEF SelectPerson, Click, SetPersons, Start, Clicked
<1>7. CASE ClearPersons
  <2>1. PICK set \in {{}} \cup {ShownPersons \ {u} : u \in ShownPersons} : SetPersons(set)
    BY <1>7 DEF ClearPersons
  <2>2. NewCall(Asked("persons", Me, set, "show", None))
    BY <1>b DEF ShownPersons
  <2>3. QED BY <1>0, <1>7, <1>a, <2>1, <2>2 DEF ClearPersons, Click, SetPersons, Start, Clicked
<1>8. CASE ConfirmPerson
  <2>1. PICK role \in ConfirmRoles(dialog.confirm) :
           Start(AddPerson(Asked("create", dialog.confirm, FlagsUpTo(role), "assign", client.persons),
                           Asked("persons", Me, client.persons \cup {dialog.confirm}, "show", None)))
    BY <1>8 DEF ConfirmPerson
  <2>2. dialog.confirm \in People
    BY <1>0, <1>8 DEF ConfirmPerson
  <2>3. FlagsUpTo(role) \in Given(dialog.confirm) /\ ~Lower(FlagsUpTo(role), client.min)
    <3>1. CASE MayManage
      BY <1>0, <2>1, <2>2, <3>1, OfferedAre DEF ConfirmRoles
    <3>2. CASE ~MayManage
      <4>1. FlagsUpTo(role) = AddedFlags(client.min)
        BY <2>1, <3>2 DEF ConfirmRoles, AddedFlags
      <4>2. QED BY <1>0, <2>2, <4>1, AddedAre
    <3>3. QED BY <3>1, <3>2
  <2>4. NewCall(Asked("create", dialog.confirm, FlagsUpTo(role), "assign", client.persons))
    BY <2>2, <2>3, NewCallOfMember
  <2>5. /\ dialog'.shown = dialog.shown /\ dialog'.sharing = dialog.sharing
        /\ dialog' \in [shown : BOOLEAN, sharing : SharingOrNone, confirm : People \cup {None}]
    BY <1>0, <1>8 DEF ConfirmPerson
  <2>6. QED BY <1>0, <1>8, <1>a, <2>1, <2>4, <2>5 DEF ConfirmPerson, AddPerson, Click, Start, Clicked
<1>9. CASE Undo
  <2>1. CallOK(done) /\ done.then \in {"record", "assign"}
    BY <1>9 DEF Undo, ShareTyped
  <2>2. /\ done.who \in People /\ done.do \in {"create", "update", "delete", "board"}
        /\ done.do \in {"update", "delete"} => done.had \in Given(done.who)
        /\ done.do = "board" => done.had \in Minimums
    BY <2>1 DEF CallOK, Trips
  <2>3. CASE done.do = "create"
    <3>1. NewCall(Asked("delete", done.who, {}, "undo", None))
      BY <1>0, <2>2, NewCallOther
    <3>2. calls' = Append(calls, Asked("delete", done.who, {}, "undo", None))
      BY <1>9, <2>3 DEF Undo
    <3>3. QED BY <1>0, <1>9, <3>1, <3>2 DEF Undo, Click, Clicked
  <2>4. CASE done.do = "delete"
    <3>1. NewCall(Asked("create", done.who, done.had, "undoDeletion", None))
      BY <1>0, <2>2, <2>4, NewCallOther
    <3>2. calls' = Append(calls, Asked("create", done.who, done.had, "undoDeletion", None))
      BY <1>9, <2>4 DEF Undo
    <3>3. QED BY <1>0, <1>9, <3>1, <3>2 DEF Undo, Click, Clicked
  <2>5. CASE done.do \in {"update", "board"}
    <3>1. NewCall(Asked(done.do, done.who, done.had, "undo", None))
      BY <1>0, <2>2, <2>5, NewCallOther
    <3>2. calls' = Append(calls, Asked(done.do, done.who, done.had, "undo", None))
      BY <1>9, <2>5 DEF Undo
    <3>3. QED BY <1>0, <1>9, <3>1, <3>2 DEF Undo, Click, Clicked
  <2>6. QED BY <2>2, <2>3, <2>4, <2>5
<1>10. QED BY <1>2, <1>3, <1>4, <1>5, <1>6, <1>7, <1>8, <1>9

\* Flags are given that are not below the minimum, or the slip is noted.
GivenEnough(f) == f # {} => ~Lower(f, minimum) \/ "below" \in slips'
\* What a step may do to the tables of the server and send, the link apart.
ServerStep ==
    \/ \E u \in People : \E f \in FlagsFor(u) : PutMember(u, f) /\ GivenEnough(f)
    \/ \E min \in Minimums : PatchMinimum(min)
    \/ \E c \in Under : c.do = "persons" /\ PatchPersons(c.what)
    \/ UNCHANGED <<rows, minimum, persons, ever, news>>

\* A call as it was asked, with its answer.
AnswerTo(c, a) ==
    /\ CallOK(a)
    /\ a.do = c.do /\ a.who = c.who /\ a.then = c.then /\ a.had = c.had /\ a.min = c.min
    /\ \/ a.answer = "ok"
       \/ /\ a.answer = "refused" /\ "refused" \in slips' /\ UNCHANGED <<serverRows, news>>
          /\ c.do \in {"members", "user"} => rows[Me] = {}
    /\ c.do = "sharing" => a.what = link
    /\ c.do = "members" => a.what = MembersNow
    /\ c.do \notin {"sharing", "members"} => a.what = c.what
    /\ c.do = "create" /\ a.answer = "ok" => c.who \in ever' \/ rows[c.who] # {}
    /\ link' = IF c.do = "share" /\ a.answer = "ok" THEN c.what ELSE link
    /\ c.do \in {"members", "user", "sharing"} => UNCHANGED <<serverRows, news>>

LEMMA GivenIsBelow ==
    ASSUME NEW u, NEW f \in Given(u) PROVE Below(u, f) <=> Lower(f, minimum)
BY GivenIs DEF Below, Lower

LEMMA MembersNowOK == ASSUME ShareTyped PROVE ListOK(MembersNow) /\ \A u \in People : Known(MembersNow[u]) = rows[u]
<1>1. /\ rows \in [People -> SUBSET Flags] /\ minimum \in Minimums
      /\ \A u \in People : rows[u] \in FlagsFor(u)
  BY DEF ShareTyped
<1>2. ASSUME NEW u \in People, rows[u] # {}
      PROVE  /\ Membership(rows[u], minimum) \in Memberships
             /\ Membership(rows[u], minimum).flags = rows[u] /\ rows[u] \in Given(u)
  BY <1>1, <1>2 DEF Membership, Memberships, Given
<1>3. ASSUME NEW u \in People
      PROVE  MembersNow[u] = IF rows[u] = {} THEN None ELSE Membership(rows[u], minimum)
  BY DEF MembersNow
<1>4. MembersNow \in [People -> Memberships \cup {None}]
  BY <1>2 DEF MembersNow
<1>5. \A u \in People : MembersNow[u] # None => MembersNow[u].flags \in Given(u)
  BY <1>2, <1>3
<1>6. \A u \in People : Known(MembersNow[u]) = rows[u]
  <2>1. \A m \in Memberships : m # None
    BY NoneAssumption DEF Memberships
  <2>2. QED BY <1>2, <1>3, <2>1 DEF Known
<1>7. QED BY <1>4, <1>5, <1>6 DEF ListOK

LEMMA DoneIs ==
    ASSUME ShareTyped, NEW do, NEW u \in People, NEW what, Do(do, u, what),
           do \in {"create", "update"} => what \in Given(u)
    PROVE  /\ \/ do \in {"create", "update"} /\ PutMember(u, what)
              \/ do = "delete" /\ PutMember(u, {})
              \/ do = "board" /\ PatchMinimum(what)
              \/ do = "share" /\ PostSharing(what)
              \/ do = "persons" /\ PatchPersons(what)
              \/ do \notin {"board", "share", "persons"} /\ UNCHANGED <<serverRows, news>>
           /\ do = "create" => rows[u] # {} \/ PutMember(u, what)
<1>1. CASE do = "create"
  BY <1>1 DEF Do, AddMember
<1>2. CASE do = "update"
  <2>1. u \in Guests => what \ {"admin"} = what
    BY <1>2 DEF Given, FlagsFor
  <2>2. UpdateMember(u, what)
    BY <1>2 DEF Do
  <2>3. QED BY <1>2, <2>1, <2>2 DEF UpdateMember
<1>3. CASE do = "delete"
  BY <1>3 DEF Do, DeleteMember
<1>4. CASE do = "board"
  BY <1>4 DEF Do
<1>5. CASE do = "share"
  BY <1>5 DEF Do
<1>6. CASE do = "persons"
  BY <1>6 DEF Do
<1>7. CASE do \notin {"create", "update", "delete", "board", "share", "persons"}
  BY <1>7 DEF Do
<1>8. QED BY <1>1, <1>2, <1>3, <1>4, <1>5, <1>6, <1>7

LEMMA ServedIs ==
    ASSUME ShareTyped, NEW i \in DOMAIN calls, ServeShare(i)
    PROVE  /\ calls[i] \in Trips /\ CallOK(calls[i]) /\ calls[i] \in Under /\ calls[i].answer = "none"
           /\ \E a \in Trips : AnswerTo(calls[i], a) /\ calls' = [calls EXCEPT ![i] = a]
           /\ ServerStep /\ slips \subseteq slips'
           /\ UNCHANGED <<client, dialog, done, clicks, others, tokens>>
<1> DEFINE c == calls[i]
           granted == May(Me, c.do, c.who, c.what)
           body == CASE c.do = "sharing" -> link [] c.do = "members" -> MembersNow [] OTHER -> c.what
           a == [c EXCEPT !.answer = IF granted THEN "ok" ELSE "refused", !.what = body]
<1>1. c \in Trips /\ CallOK(c) /\ c \in Under
  BY DEF ShareTyped, Under, Elems
<1>2. /\ c.answer = "none"
      /\ IF granted THEN Do(c.do, c.who, c.what) ELSE UNCHANGED <<serverRows, news>>
      /\ calls' = [calls EXCEPT ![i] = [@ EXCEPT !.answer = IF granted THEN "ok" ELSE "refused", !.what = body]]
      /\ slips' = slips
              \cup (IF granted THEN {} ELSE {"refused"})
              \cup (IF granted /\ c.do \in {"create", "update"} /\ Below(c.who, c.what)
                       /\ (c.min # minimum \/ c.then \in {"undo", "undoDeletion"})
                    THEN {"below"} ELSE {})
      /\ UNCHANGED <<client, dialog, done, clicks, others, tokens>>
  BY DEF ServeShare
<1>3. calls' = [calls EXCEPT ![i] = a]
  BY <1>2
<1>4. /\ c.do = "sharing" => body = link
      /\ c.do = "members" => body = MembersNow
      /\ c.do \notin {"sharing", "members"} => body = c.what
  OBVIOUS
<1>5. body \in Payload
  <2>1. link \in Payload /\ c.what \in Payload
    BY <1>1 DEF ShareTyped, Payload, Trips
  <2>2. MembersNow \in Payload
    BY MembersNowOK DEF ListOK, Payload
  <2>3. QED BY <1>4, <2>1, <2>2
<1> DEFINE g == granted
           b == body
<1> HIDE DEF g, b
<1>6. /\ a \in Trips /\ a.do = c.do /\ a.who = c.who /\ a.then = c.then /\ a.had = c.had /\ a.min = c.min
      /\ a.what = body /\ a.answer = IF granted THEN "ok" ELSE "refused"
  <2>1. b \in Payload
    BY <1>5 DEF b
  <2>2. (IF g THEN "ok" ELSE "refused") \in {"none", "ok", "refused"}
    OBVIOUS
  <2>3. a = [c EXCEPT !.answer = IF g THEN "ok" ELSE "refused", !.what = b]
    BY DEF g, b
  <2> DEFINE w == IF g THEN "ok" ELSE "refused"
             r == [c EXCEPT !.answer = w, !.what = b]
  <2> HIDE DEF w
  <2>4. /\ r \in Trips /\ r.do = c.do /\ r.who = c.who /\ r.then = c.then /\ r.had = c.had /\ r.min = c.min
        /\ r.what = b /\ r.answer = w
    BY <1>1, <2>1, <2>2 DEF Trips, w
  <2>5. w = IF granted THEN "ok" ELSE "refused"
    BY DEF w, g
  <2>6. a = r
    BY <2>3 DEF w
  <2> HIDE DEF r, a
  <2>7. QED BY <2>4, <2>5, <2>6 DEF b
<1> HIDE DEF body, granted, a
<1>7. CallOK(a)
  <2>1. link \in SharingOrNone /\ ListOK(MembersNow)
    BY MembersNowOK DEF ShareTyped
  <2>2. QED BY <1>1, <1>4, <1>6, <2>1 DEF CallOK
<1>8. c.who \in People /\ (c.do \in {"create", "update"} => c.what \in Given(c.who))
  BY <1>1 DEF CallOK, Trips
<1>9. ASSUME granted
      PROVE  /\ \/ c.do \in {"create", "update"} /\ PutMember(c.who, c.what)
                \/ c.do = "delete" /\ PutMember(c.who, {})
                \/ c.do = "board" /\ PatchMinimum(c.what)
                \/ c.do = "share" /\ PostSharing(c.what)
                \/ c.do = "persons" /\ PatchPersons(c.what)
                \/ c.do \notin {"board", "share", "persons"} /\ UNCHANGED <<serverRows, news>>
             /\ c.do = "create" => rows[c.who] # {} \/ PutMember(c.who, c.what)
  BY <1>2, <1>8, <1>9, DoneIs
<1>10. ASSUME granted, c.do \in {"create", "update"} PROVE GivenEnough(c.what)
  <2>1. CASE c.min = minimum /\ c.then \notin {"undo", "undoDeletion"}
    BY <1>1, <1>10, <2>1 DEF CallOK, GivenEnough
  <2>2. CASE ~Below(c.who, c.what)
    BY <1>8, <1>10, <2>2, GivenIsBelow DEF GivenEnough
  <2>3. CASE Below(c.who, c.what) /\ (c.min # minimum \/ c.then \in {"undo", "undoDeletion"})
    BY <1>2, <1>10, <2>3 DEF GivenEnough
  <2>4. QED BY <2>1, <2>2, <2>3
<1>11. ServerStep
  <2>1. CASE ~granted
    BY <1>2, <2>1 DEF ServerStep, serverRows
  <2>2. CASE granted /\ c.do \in {"create", "update"} /\ PutMember(c.who, c.what)
    <3>1. c.what \in FlagsFor(c.who)
      BY <1>8, <2>2 DEF Given
    <3>2. QED BY <1>8, <1>10, <2>2, <3>1 DEF ServerStep
  <2>3. CASE granted /\ c.do = "delete" /\ PutMember(c.who, {})
    <3>1. {} \in FlagsFor(c.who) /\ GivenEnough({})
      BY DEF FlagsFor, GivenEnough
    <3>2. QED BY <1>8, <2>3, <3>1 DEF ServerStep
  <2>4. CASE granted /\ c.do = "board" /\ PatchMinimum(c.what)
    BY <1>1, <2>4 DEF ServerStep, CallOK
  <2>5. CASE granted /\ c.do = "share" /\ PostSharing(c.what)
    BY <2>5 DEF ServerStep, PostSharing
  <2>6. CASE granted /\ c.do = "persons" /\ PatchPersons(c.what)
    BY <1>1, <2>6 DEF ServerStep
  <2>7. CASE granted /\ UNCHANGED <<serverRows, news>>
    BY <2>7 DEF ServerStep, serverRows
  <2>8. QED BY <1>9, <2>1, <2>2, <2>3, <2>4, <2>5, <2>6, <2>7
<1>12. AnswerTo(c, a)
  <2>1. link' = IF c.do = "share" /\ a.answer = "ok" THEN c.what ELSE link
    <3>1. CASE ~granted
      BY <1>2, <1>6, <3>1 DEF serverRows
    <3>2. CASE granted
      BY <1>6, <1>9, <3>2 DEF serverRows, PutMember, PatchMinimum, PostSharing, PatchPersons
    <3>3. QED BY <3>1, <3>2
  <2>2. c.do \in {"members", "user", "sharing"} => UNCHANGED <<serverRows, news>>
    BY <1>2, <1>9
  <2>3. ~granted /\ c.do \in {"members", "user"} => rows[Me] = {}
    BY DEF granted, May
  <2>4. ~granted => "refused" \in slips'
    BY <1>2
  <2>5. c.do = "create" /\ a.answer = "ok" => c.who \in ever' \/ rows[c.who] # {}
    <3>1. ASSUME c.do = "create", PutMember(c.who, c.what) PROVE c.who \in ever'
      <4>1. c.what # {}
        BY <1>8, <3>1 DEF Given
      <4>2. QED BY <3>1, <4>1 DEF PutMember
    <3>2. QED BY <1>6, <1>9, <3>1
  <2>6. QED BY <1>2, <1>4, <1>6, <1>7, <2>1, <2>2, <2>3, <2>4, <2>5 DEF AnswerTo
<1>13. slips \subseteq slips'
  BY <1>2
<1>14. QED BY <1>1, <1>2, <1>3, <1>6, <1>11, <1>12, <1>13

\* What somebody else does.
LEMMA OthersAre ==
    ASSUME ShareTyped, Other \/ OtherBoard
    PROVE  /\ ServerStep /\ slips \subseteq slips' /\ UNCHANGED <<client, dialog, calls, done>>
           /\ link' = link \/ ("others" \in slips' /\ link' \in SharingOrNone)
           /\ tokens' \in Nat
<1>0. tokens \in Nat /\ link \in SharingOrNone /\ minimum \in Minimums
  BY DEF ShareTyped
<1>1. CASE Other
  <2>1. PICK u \in People :
       \E act \in {<<"create", AddedFlags(minimum)>>, <<"delete", {}>>}
                  \cup {<<"update", UpdatedFlags(role)>> : role \in OfferedRoles(minimum, u)} :
           Do(act[1], u, act[2])
    BY <1>1 DEF Other
  <2>2. \/ Do("create", u, AddedFlags(minimum)) \/ Do("delete", u, {})
        \/ \E role \in OfferedRoles(minimum, u) : Do("update", u, UpdatedFlags(role))
    BY <2>1
  <2>a. ASSUME NEW f \in Given(u), ~Lower(f, minimum), NEW do \in {"create", "update"}, Do(do, u, f)
        PROVE  ServerStep /\ link' = link
    <3>1. PutMember(u, f) \/ UNCHANGED <<serverRows, news>>
      BY <2>a, DoneIs
    <3>2. f \in FlagsFor(u) /\ GivenEnough(f)
      BY <2>a DEF Given, GivenEnough
    <3>3. QED BY <3>1, <3>2 DEF ServerStep, serverRows, PutMember
  <2>3. ASSUME Do("create", u, AddedFlags(minimum)) PROVE ServerStep /\ link' = link
    <3>1. AddedFlags(minimum) \in Given(u) /\ ~Lower(AddedFlags(minimum), minimum)
      BY <1>0, AddedAre
    <3>2. QED BY <2>3, <2>a, <3>1
  <2>4. ASSUME Do("delete", u, {}) PROVE ServerStep /\ link' = link
    <3>1. PutMember(u, {}) \/ UNCHANGED <<serverRows, news>>
      BY <2>4, DoneIs
    <3>2. {} \in FlagsFor(u) /\ GivenEnough({})
      BY DEF FlagsFor, GivenEnough
    <3>3. QED BY <3>1, <3>2 DEF ServerStep, serverRows, PutMember
  <2>5. ASSUME NEW role \in OfferedRoles(minimum, u), Do("update", u, UpdatedFlags(role))
        PROVE  ServerStep /\ link' = link
    <3>1. UpdatedFlags(role) \in Given(u) /\ ~Lower(UpdatedFlags(role), minimum)
      BY <1>0, OfferedAre
    <3>2. QED BY <2>5, <2>a, <3>1
  <2>6. ServerStep /\ link' = link
    BY <2>2, <2>3, <2>4, <2>5
  <2>7. QED BY <1>0, <1>1, <2>6 DEF Other
<1>2. CASE OtherBoard
  <2>1. CASE \E min \in Minimums : PatchMinimum(min) /\ UNCHANGED <<tokens, slips>>
    BY <1>0, <1>2, <2>1 DEF OtherBoard, ServerStep, PatchMinimum
  <2>2. CASE /\ PostSharing(IF link = None THEN [token |-> tokens + 1, on |-> TRUE] ELSE [link EXCEPT !.on = ~@])
             /\ tokens' = (IF link = None THEN tokens + 1 ELSE tokens)
             /\ slips' = slips \cup {"others"}
    <3>1. link' \in SharingOrNone
      <4>1. [token |-> tokens + 1, on |-> TRUE] \in Links
        BY <1>0 DEF Links
      <4>2. link # None => [link EXCEPT !.on = ~@] \in Links
        BY <1>0 DEF SharingOrNone, Links
      <4>3. QED BY <2>2, <4>1, <4>2 DEF PostSharing, SharingOrNone
    <3>2. tokens' \in Nat
      BY <1>0, <2>2
    <3>3. QED BY <1>2, <2>2, <3>1, <3>2 DEF OtherBoard, ServerStep, PostSharing
  <2>3. QED BY <1>2, <2>1, <2>2 DEF OtherBoard
<1>3. QED BY <1>1, <1>2

\* What an answer leads to.
Follows(c, x) ==
    /\ CallOK(x) /\ x.answer = "none" /\ x.then = "show"
    /\ \/ c.do = "create" /\ c.then = "assign" /\ x.do = "persons" /\ x.what = c.had \cup {c.who}
       \/ c.do = "create" /\ x.do = "user" /\ x.who = c.who
       \/ c.do = "share" /\ x.do = "sharing"

LEMMA ReceivedIs ==
    ASSUME ShareTyped, NEW i \in DOMAIN calls, ReceiveShare(i)
    PROVE  LET c == calls[i] IN
           /\ c \in Trips /\ CallOK(c) /\ c \in Under /\ c.answer \in {"ok", "refused"}
           /\ UNCHANGED <<serverRows, news, tokens>>
           /\ \/ calls' = RemoveAt(calls, i) /\ c.do # "share"
              \/ \E x \in Trips : Follows(c, x) /\ calls' = Append(RemoveAt(calls, i), x)
           /\ done' = done \/ done' = None \/ (done' = c /\ c.then \in {"record", "assign"})
           /\ \/ c.do \in {"create", "update", "board", "persons", "share", "delete"} /\ UNCHANGED <<client, dialog, slips>>
              \/ /\ c.do = "delete" /\ client' = WithUsers(client.users \ {c.who}) /\ dialog' = dialog
                 /\ slips' = slips \cup IF rows[c.who] # {} THEN {"hidden"} ELSE {}
              \/ /\ c.do = "sharing" /\ UNCHANGED <<client, slips>>
                 /\ dialog' = [dialog EXCEPT !.sharing = IF c.answer = "ok" THEN c.what ELSE None]
              \/ /\ c.do = "members" /\ UNCHANGED <<dialog, slips>>
                 /\ client' = IF c.answer = "ok" THEN [client EXCEPT !.members = c.what, !.users = {u \in People : c.what[u] # None}]
                              ELSE WithUsers({})
              \/ /\ c.do = "user" /\ UNCHANGED <<dialog, slips>>
                 /\ client' = IF c.answer = "ok" THEN WithUsers(client.users \cup {c.who}) ELSE client
<1> DEFINE c == calls[i]
           rest == RemoveAt(calls, i)
<1>1. c \in Trips /\ CallOK(c) /\ c \in Under /\ client.min \in Minimums /\ rest \in Seq(Trips)
  BY Removed DEF ShareTyped, Under, Elems
<1>2. c.answer # "none" /\ UNCHANGED <<serverRows, news, clicks, others, tokens>>
  BY DEF ReceiveShare
<1>3. c.answer \in {"ok", "refused"} /\ c.who \in People
  BY <1>1, <1>2 DEF Trips
<1>4. done' = IF c.then \in {"record", "assign"} THEN c ELSE IF c.do = "persons" THEN None ELSE done
  BY DEF ReceiveShare
<1>5. /\ rest \o <<>> = rest
      /\ \A x : rest \o <<x>> = Append(rest, x)
  BY <1>1
<1>6. Me \in People /\ None \in Payload
  BY MeAssumption DEF Payload, SharingOrNone
<1>a. ASSUME NEW do \in {"user", "sharing"}, NEW u \in People
      PROVE  /\ Asked(do, u, None, "show", None) \in Trips /\ CallOK(Asked(do, u, None, "show", None))
             /\ Asked(do, u, None, "show", None).do = do /\ Asked(do, u, None, "show", None).who = u
             /\ Asked(do, u, None, "show", None).answer = "none" /\ Asked(do, u, None, "show", None).then = "show"
  <2> DEFINE x == Asked(do, u, None, "show", None)
  <2>1. /\ x \in Trips /\ x.do = do /\ x.who = u /\ x.then = "show" /\ x.answer = "none"
    BY <1>1, <1>6, AskedIs
  <2> HIDE DEF x
  <2>2. CallOK(x)
    BY <2>1 DEF CallOK
  <2>3. QED BY <2>1, <2>2 DEF x
<1>b. ASSUME NEW set \in SUBSET People
      PROVE  /\ Asked("persons", Me, set, "show", None) \in Trips /\ CallOK(Asked("persons", Me, set, "show", None))
             /\ Asked("persons", Me, set, "show", None).do = "persons"
             /\ Asked("persons", Me, set, "show", None).what = set
             /\ Asked("persons", Me, set, "show", None).answer = "none"
             /\ Asked("persons", Me, set, "show", None).then = "show"
  <2> DEFINE x == Asked("persons", Me, set, "show", None)
  <2>0. set \in Payload
    BY DEF Payload
  <2>1. /\ x \in Trips /\ x.do = "persons" /\ x.what = set /\ x.then = "show" /\ x.answer = "none"
    BY <1>1, <1>6, <2>0, AskedIs
  <2> HIDE DEF x
  <2>2. CallOK(x)
    BY <2>1 DEF CallOK
  <2>3. QED BY <2>1, <2>2 DEF x
<1> DEFINE P == /\ \/ calls' = rest /\ c.do # "share"
                   \/ \E x \in Trips : Follows(c, x) /\ calls' = Append(rest, x)
                /\ \/ c.do \in {"create", "update", "board", "persons", "share", "delete"} /\ UNCHANGED <<client, dialog, slips>>
                   \/ /\ c.do = "delete" /\ client' = WithUsers(client.users \ {c.who}) /\ dialog' = dialog
                      /\ slips' = slips \cup IF rows[c.who] # {} THEN {"hidden"} ELSE {}
                   \/ /\ c.do = "sharing" /\ UNCHANGED <<client, slips>>
                      /\ dialog' = [dialog EXCEPT !.sharing = IF c.answer = "ok" THEN c.what ELSE None]
                   \/ /\ c.do = "members" /\ UNCHANGED <<dialog, slips>>
                      /\ client' = IF c.answer = "ok" THEN [client EXCEPT !.members = c.what, !.users = {u \in People : c.what[u] # None}]
                                   ELSE WithUsers({})
                   \/ /\ c.do = "user" /\ UNCHANGED <<dialog, slips>>
                      /\ client' = IF c.answer = "ok" THEN WithUsers(client.users \cup {c.who}) ELSE client
<1>7. ASSUME c.do = "create" PROVE P
  <2>1. /\ UNCHANGED <<client, dialog, slips>>
        /\ calls' = rest \o (CASE c.then = "assign" ->
                             <<Asked("persons", Me, c.had \cup {c.who}, "show", None)>>
                        [] c.then = "undoDeletion" -> <<Asked("user", c.who, None, "show", None)>>
                        [] OTHER -> <<>>)
    BY <1>7 DEF ReceiveShare
  <2>2. CASE c.then = "assign"
    <3>1. c.had \cup {c.who} \in SUBSET People
      BY <1>1, <1>3, <2>2 DEF CallOK
    <3>2. calls' = Append(rest, Asked("persons", Me, c.had \cup {c.who}, "show", None))
      BY <1>5, <2>1, <2>2
    <3>3. Follows(c, Asked("persons", Me, c.had \cup {c.who}, "show", None))
      BY <1>7, <1>b, <2>2, <3>1 DEF Follows
    <3>4. QED BY <1>7, <1>b, <2>1, <3>1, <3>2, <3>3
  <2>3. CASE c.then = "undoDeletion"
    <3>1. calls' = Append(rest, Asked("user", c.who, None, "show", None))
      BY <1>5, <2>1, <2>3
    <3>2. Follows(c, Asked("user", c.who, None, "show", None))
      BY <1>7, <1>3, <1>a DEF Follows
    <3>3. QED BY <1>3, <1>7, <1>a, <2>1, <3>1, <3>2
  <2>4. CASE c.then \notin {"assign", "undoDeletion"}
    <3>1. calls' = rest
      BY <1>5, <2>1, <2>4
    <3>2. QED BY <1>7, <2>1, <3>1
  <2>5. QED BY <2>2, <2>3, <2>4
<1>8. ASSUME c.do \in {"update", "board", "persons"} PROVE P
  <2>1. UNCHANGED <<client, dialog, slips>> /\ calls' = rest \o <<>>
    BY <1>8 DEF ReceiveShare
  <2>2. QED BY <1>5, <1>8, <2>1
<1>9. ASSUME c.do = "delete" PROVE P
  <2>1. /\ UNCHANGED dialog /\ calls' = rest \o <<>>
        /\ IF c.then = "undo" THEN UNCHANGED <<client, slips>>
           ELSE /\ client' = WithUsers(client.users \ {c.who})
                /\ slips' = slips \cup IF rows[c.who] # {} THEN {"hidden"} ELSE {}
    BY <1>9 DEF ReceiveShare
  <2>2. QED BY <1>5, <1>9, <2>1
<1>10. ASSUME c.do = "share" PROVE P
  <2>1. UNCHANGED <<client, dialog, slips>> /\ calls' = rest \o <<Asked("sharing", Me, None, "show", None)>>
    BY <1>10 DEF ReceiveShare, AfterSharing, Reload
  <2>2. Follows(c, Asked("sharing", Me, None, "show", None))
    BY <1>10, <1>6, <1>a DEF Follows
  <2>3. QED BY <1>5, <1>6, <1>10, <1>a, <2>1, <2>2
<1>11. ASSUME c.do = "sharing" PROVE P
  <2>1. /\ UNCHANGED <<client, slips>> /\ calls' = rest \o <<>>
        /\ dialog' = [dialog EXCEPT !.sharing = IF c.answer = "ok" THEN c.what ELSE None]
    BY <1>11 DEF ReceiveShare
  <2>2. QED BY <1>5, <1>11, <2>1
<1>12. ASSUME c.do = "members" PROVE P
  <2>1. /\ UNCHANGED <<dialog, slips>> /\ calls' = rest \o <<>>
        /\ IF c.answer = "ok" THEN client' = [client EXCEPT !.members = c.what, !.users = {u \in People : c.what[u] # None}]
           ELSE client' = WithUsers({})
    BY <1>12 DEF ReceiveShare
  <2>2. QED BY <1>5, <1>12, <2>1
<1>13. ASSUME c.do = "user" PROVE P
  <2>1. /\ UNCHANGED <<dialog, slips>> /\ calls' = rest \o <<>>
        /\ IF c.answer = "ok" THEN client' = WithUsers(client.users \cup {c.who}) ELSE UNCHANGED client
    BY <1>13 DEF ReceiveShare
  <2>2. QED BY <1>5, <1>13, <2>1
<1>14. P
  BY <1>1, <1>7, <1>8, <1>9, <1>10, <1>11, <1>12, <1>13 DEF Trips
<1> HIDE DEF P
<1>15. QED BY <1>1, <1>2, <1>3, <1>4, <1>14 DEF P

-----------------------------------------------------------------------------
(* The type.                                                               *)

LEMMA MessagesAre ==
    ASSUME NEW u \in People
    PROVE  /\ \A f \in SUBSET Flags : MemberNews(u, f) \in Messages /\ MemberNews(u, f).kind = "member"
                                      /\ MemberNews(u, f).who = u /\ MemberNews(u, f).what = f
           /\ \A min \in Minimums : [kind |-> "board", who |-> u, what |-> min] \in Messages
           /\ \A set \in SUBSET People : [kind |-> "card", who |-> u, what |-> set] \in Messages
BY DEF MemberNews, Messages

LEMMA NewsAppended ==
    ASSUME ShareTyped, NEW m \in Messages, news' = Append(news, m), m.kind = "member" => m.what \in FlagsFor(m.who)
    PROVE  news' \in Seq(Messages) /\ \A n \in Heard' : n.kind = "member" => n.what \in FlagsFor(n.who)
<1>1. news \in Seq(Messages) /\ \A n \in Heard : n.kind = "member" => n.what \in FlagsFor(n.who)
  BY DEF ShareTyped
<1>2. news' \in Seq(Messages) /\ Heard' = Heard \cup {m}
  BY <1>1, Appended DEF Heard
<1>3. QED BY <1>1, <1>2

LEMMA ServerStepTyped ==
    ASSUME ShareTyped, ServerStep
    PROVE  /\ rows' \in [People -> SUBSET Flags] /\ \A u \in People : rows'[u] \in FlagsFor(u)
           /\ minimum' \in Minimums /\ persons' \in SUBSET People /\ ever' \in SUBSET People
           /\ news' \in Seq(Messages) /\ \A m \in Heard' : m.kind = "member" => m.what \in FlagsFor(m.who)
<1>1. /\ rows \in [People -> SUBSET Flags] /\ \A u \in People : rows[u] \in FlagsFor(u)
      /\ minimum \in Minimums /\ persons \in SUBSET People /\ ever \in SUBSET People
      /\ news \in Seq(Messages) /\ \A m \in Heard : m.kind = "member" => m.what \in FlagsFor(m.who)
  BY DEF ShareTyped
<1>2. ASSUME NEW u \in People, NEW f \in FlagsFor(u), PutMember(u, f)
      PROVE  /\ rows' \in [People -> SUBSET Flags] /\ \A v \in People : rows'[v] \in FlagsFor(v)
             /\ minimum' \in Minimums /\ persons' \in SUBSET People /\ ever' \in SUBSET People
             /\ news' \in Seq(Messages) /\ \A m \in Heard' : m.kind = "member" => m.what \in FlagsFor(m.who)
  <2>1. f \in SUBSET Flags
    BY DEF FlagsFor
  <2>2. /\ rows' = [rows EXCEPT ![u] = f] /\ ever' = ever \cup (IF f = {} THEN {} ELSE {u})
        /\ news' = Append(news, MemberNews(u, f)) /\ UNCHANGED <<minimum, persons>>
    BY <1>2 DEF PutMember, Broadcast
  <2>3. news' \in Seq(Messages) /\ \A m \in Heard' : m.kind = "member" => m.what \in FlagsFor(m.who)
    BY <2>1, <2>2, MessagesAre, NewsAppended
  <2>4. QED BY <1>1, <2>1, <2>2, <2>3
<1>3. ASSUME NEW min \in Minimums, PatchMinimum(min)
      PROVE  news' \in Seq(Messages) /\ \A m \in Heard' : m.kind = "member" => m.what \in FlagsFor(m.who)
  <2>1. news' = Append(news, [kind |-> "board", who |-> Me, what |-> min])
    BY <1>3 DEF PatchMinimum, Broadcast
  <2>2. [kind |-> "board", who |-> Me, what |-> min] \in Messages
    BY MeAssumption, MessagesAre
  <2>3. QED BY <2>1, <2>2, NewsAppended
<1>4. ASSUME NEW c \in Under, c.do = "persons", PatchPersons(c.what)
      PROVE  /\ news' \in Seq(Messages) /\ \A m \in Heard' : m.kind = "member" => m.what \in FlagsFor(m.who)
             /\ persons' \in SUBSET People
  <2>1. news' = Append(news, [kind |-> "card", who |-> Me, what |-> c.what]) /\ persons' = c.what
    BY <1>4 DEF PatchPersons, Broadcast
  <2>2. c.what \in SUBSET People
    BY <1>4 DEF ShareTyped, CallOK
  <2>3. [kind |-> "card", who |-> Me, what |-> c.what] \in Messages
    BY <2>2, MeAssumption, MessagesAre
  <2>4. QED BY <2>1, <2>2, <2>3, NewsAppended
<1>5. CASE \E u \in People : \E f \in FlagsFor(u) : PutMember(u, f) /\ GivenEnough(f)
  BY <1>2, <1>5
<1>6. CASE \E min \in Minimums : PatchMinimum(min)
  BY <1>1, <1>3, <1>6 DEF PatchMinimum
<1>7. CASE \E c \in Under : c.do = "persons" /\ PatchPersons(c.what)
  BY <1>1, <1>4, <1>7 DEF PatchPersons
<1>8. CASE UNCHANGED <<rows, minimum, persons, ever, news>>
  BY <1>1, <1>8 DEF Heard
<1>9. QED BY <1>5, <1>6, <1>7, <1>8 DEF ServerStep

LEMMA CallAppended ==
    ASSUME ShareTyped, NEW c, CallOK(c), calls' = Append(calls, c)
    PROVE  calls' \in Seq(Trips) /\ Under' = Under \cup {c} /\ \A d \in Under' : CallOK(d)
<1>1. c \in Trips /\ calls \in Seq(Trips) /\ \A d \in Under : CallOK(d)
  BY DEF ShareTyped, CallOK
<1>2. calls' \in Seq(Trips) /\ Under' = Under \cup {c}
  BY <1>1, Appended DEF Under
<1>3. QED BY <1>1, <1>2

LEMMA CallAnswered ==
    ASSUME ShareTyped, NEW i \in DOMAIN calls, NEW a, CallOK(a), calls' = [calls EXCEPT ![i] = a]
    PROVE  /\ calls' \in Seq(Trips) /\ Under' \subseteq Under \cup {a} /\ a \in Under'
           /\ \A c \in Under : c = calls[i] \/ c \in Under'
           /\ \A d \in Under' : CallOK(d)
           /\ DOMAIN calls' = DOMAIN calls /\ \A j \in DOMAIN calls : calls'[j] = IF j = i THEN a ELSE calls[j]
<1>1. a \in Trips /\ calls \in Seq(Trips) /\ \A d \in Under : CallOK(d)
  BY DEF ShareTyped, CallOK
<1>2. /\ calls' \in Seq(Trips) /\ Under' \subseteq Under \cup {a} /\ a \in Under'
      /\ \A c \in Under : c = calls[i] \/ c \in Under'
      /\ DOMAIN calls' = DOMAIN calls /\ \A j \in DOMAIN calls : calls'[j] = IF j = i THEN a ELSE calls[j]
  BY <1>1, Replaced DEF Under
<1>3. QED BY <1>1, <1>2

LEMMA CallRemoved ==
    ASSUME ShareTyped, NEW i \in DOMAIN calls, calls' = RemoveAt(calls, i)
    PROVE  /\ calls' \in Seq(Trips) /\ Under' \subseteq Under
           /\ \A c \in Under : c = calls[i] \/ c \in Under'
           /\ \A d \in Under' : CallOK(d)
<1>1. calls \in Seq(Trips) /\ \A d \in Under : CallOK(d)
  BY DEF ShareTyped
<1>2. calls' \in Seq(Trips) /\ Under' \subseteq Under /\ \A c \in Under : c = calls[i] \/ c \in Under'
  BY <1>1, Removed DEF Under
<1>3. QED BY <1>1, <1>2

LEMMA CallFollowed ==
    ASSUME ShareTyped, NEW i \in DOMAIN calls, NEW x, CallOK(x), calls' = Append(RemoveAt(calls, i), x)
    PROVE  /\ calls' \in Seq(Trips) /\ Under' \subseteq Under \cup {x} /\ x \in Under'
           /\ \A c \in Under : c = calls[i] \/ c \in Under'
           /\ \A d \in Under' : CallOK(d)
<1>1. x \in Trips /\ calls \in Seq(Trips) /\ \A d \in Under : CallOK(d)
  BY DEF ShareTyped, CallOK
<1> DEFINE r == RemoveAt(calls, i)
<1>2. r \in Seq(Trips) /\ Elems(r) \subseteq Under /\ \A c \in Under : c = calls[i] \/ c \in Elems(r)
  BY <1>1, Removed DEF Under
<1> HIDE DEF r
<1>3. calls' = Append(r, x)
  BY DEF r
<1>4. calls' \in Seq(Trips) /\ Under' = Elems(r) \cup {x}
  BY <1>1, <1>2, <1>3, Appended DEF Under
<1>5. QED BY <1>1, <1>2, <1>4

LEMMA InitTyped == ASSUME ShareInit PROVE ShareTyped
<1>1. PICK r \in [People -> {{}} \cup {UpdatedFlags(role) : role \in Flags}], min \in Minimums,
       sharing \in {None} \cup [token : {1}, on : BOOLEAN], loaded \in BOOLEAN, set \in SUBSET People :
        /\ "admin" \in r[Me] /\ \A u \in Guests : "admin" \notin r[u]
        /\ \A u \in set : r[u] # {}
        /\ StartOf(r, min, sharing, loaded, set)
  BY DEF ShareInit
<1>2. /\ rows = r /\ minimum = min /\ link = sharing /\ persons = set
      /\ ever = {u \in People : r[u] # {}}
      /\ client = [members |-> MembersNow, users |-> ever, mine |-> r[Me], min |-> min, persons |-> set]
      /\ dialog = [shown |-> TRUE, sharing |-> IF loaded THEN sharing ELSE None, confirm |-> None]
      /\ calls = IF loaded THEN <<>> ELSE <<Reload("sharing")>>
      /\ news = <<>> /\ done = None /\ clicks = 0 /\ others = 0 /\ tokens = 1 /\ slips = {}
  BY <1>1 DEF StartOf
<1>3. /\ rows \in [People -> SUBSET Flags] /\ \A u \in People : rows[u] \in FlagsFor(u)
  <2>1. \A role \in Flags : UpdatedFlags(role) \in SUBSET Flags
    BY FlagsAre DEF UpdatedFlags
  <2>2. rows \in [People -> SUBSET Flags]
    BY <1>2, <2>1
  <2>3. QED BY <1>1, <1>2, <2>2 DEF FlagsFor
<1>4. sharing \in SharingOrNone /\ set \in SUBSET People
  BY DEF SharingOrNone, Links
<1>5. ListOK(MembersNow)
  <2>1. ASSUME NEW u \in People, rows[u] # {}
        PROVE  /\ Membership(rows[u], minimum) \in Memberships
               /\ Membership(rows[u], minimum).flags = rows[u] /\ rows[u] \in Given(u)
    BY <1>2, <1>3, <2>1 DEF Membership, Memberships, Given
  <2>2. MembersNow \in [People -> Memberships \cup {None}]
    BY <2>1 DEF MembersNow
  <2>3. \A u \in People : MembersNow[u] # None => MembersNow[u].flags \in Given(u)
    BY <2>1 DEF MembersNow
  <2>4. QED BY <2>2, <2>3 DEF ListOK
<1>6. /\ client \in [members : [People -> Memberships \cup {None}], users : SUBSET People,
                     mine : SUBSET Flags, min : Minimums, persons : SUBSET People]
      /\ ListOK(client.members)
  <2>1. MembersNow \in [People -> Memberships \cup {None}] /\ ever \in SUBSET People /\ r[Me] \in SUBSET Flags
    BY <1>2, <1>3, <1>5, MeAssumption DEF ListOK
  <2>2. QED BY <1>2, <1>4, <1>5, <2>1
<1>7. dialog \in [shown : BOOLEAN, sharing : SharingOrNone, confirm : People \cup {None}]
  <2>1. TRUE \in BOOLEAN /\ (IF loaded THEN sharing ELSE None) \in SharingOrNone /\ None \in People \cup {None}
    BY <1>4 DEF SharingOrNone
  <2>2. QED BY <1>2, <2>1
<1>8. calls \in Seq(Trips) /\ \A c \in Under : CallOK(c)
  <2> DEFINE x == Asked("sharing", Me, None, "show", None)
  <2>1. None \in Payload /\ client.min \in Minimums
    BY <1>2 DEF Payload, SharingOrNone
  <2>2. x \in Trips /\ x.do = "sharing" /\ x.answer = "none" /\ x.then = "show"
    BY <2>1, AskedIs, MeAssumption
  <2> HIDE DEF x
  <2>3. CallOK(x)
    BY <2>2 DEF CallOK
  <2>4. calls = <<>> \/ calls = <<x>>
    BY <1>2 DEF Reload, x
  <2>5. /\ <<>> \in Seq(Trips) /\ <<x>> \in Seq(Trips)
        /\ Elems(<<>>) = {} /\ Elems(<<x>>) = {x}
    BY <2>2 DEF Elems
  <2>6. QED BY <2>3, <2>4, <2>5 DEF Under
<1>9. news \in Seq(Messages) /\ Heard = {}
  BY <1>2 DEF Heard, Elems
<1>10. QED BY <1>2, <1>3, <1>4, <1>6, <1>7, <1>8, <1>9 DEF ShareTyped

LEMMA ClickedTyped == ASSUME ShareTyped, Clicked PROVE ShareTyped'
<1>1. PICK c : NewCall(c) /\ calls' = Append(calls, c)
  BY DEF Clicked
<1>2. calls' \in Seq(Trips) /\ \A d \in Under' : CallOK(d)
  BY <1>1, CallAppended DEF NewCall
<1>3. QED BY <1>2 DEF ShareTyped, Clicked, serverRows, Heard, ListOK

LEMMA ServeTyped == ASSUME ShareTyped, NEW i \in DOMAIN calls, ServeShare(i) PROVE ShareTyped'
<1>1. PICK a \in Trips : AnswerTo(calls[i], a) /\ calls' = [calls EXCEPT ![i] = a]
  BY ServedIs
<1>2. calls' \in Seq(Trips) /\ \A d \in Under' : CallOK(d)
  BY <1>1, CallAnswered DEF AnswerTo
<1>3. ServerStep /\ UNCHANGED <<client, dialog, done, tokens>> /\ CallOK(calls[i])
  BY ServedIs
<1>4. link' \in SharingOrNone
  <2>1. calls[i].do = "share" => calls[i].what \in SharingOrNone
    BY <1>3 DEF CallOK, SharingOrNone
  <2>2. (link' = calls[i].what /\ calls[i].do = "share") \/ link' = link
    BY <1>1 DEF AnswerTo
  <2>3. QED BY <2>1, <2>2 DEF ShareTyped
<1>5. QED BY <1>2, <1>3, <1>4, ServerStepTyped DEF ShareTyped, ListOK

LEMMA OthersTyped == ASSUME ShareTyped, Other \/ OtherBoard PROVE ShareTyped'
<1>1. ServerStep /\ UNCHANGED <<client, dialog, calls, done>> /\ link' \in SharingOrNone /\ tokens' \in Nat
  <2>1. link \in SharingOrNone
    BY DEF ShareTyped
  <2>2. QED BY <2>1, OthersAre
<1>2. QED BY <1>1, ServerStepTyped DEF ShareTyped, ListOK, Under

\* The switch and the new token of the link.
LEMMA SharingPut ==
    ASSUME ShareTyped, OnShareChanged \/ OnRegenerateToken
    PROVE  /\ \E s \in Links :
               LET x == Asked("share", Me, s, "show", None)
               IN /\ CallOK(x) /\ x.do = "share" /\ x.what = s /\ x.answer = "none" /\ x.then = "show"
                  /\ calls' = Append(calls, x)
                  /\ dialog' = [dialog EXCEPT !.sharing = IF dialog.sharing = None THEN None ELSE s]
                  /\ dialog.sharing # None /\ "renewed" \notin slips' => s.token = dialog.sharing.token
           /\ dialog.sharing = None => "blind" \in slips'
           /\ (\E c \in Under : c.do \in {"share", "sharing"}) => "twice" \in slips'
           /\ slips \subseteq slips' /\ tokens' \in Nat /\ UNCHANGED <<serverRows, client, news, others, done>>
<1>0. /\ tokens \in Nat /\ dialog.sharing \in SharingOrNone /\ Me \in People /\ client.min \in Minimums
      /\ dialog \in [shown : BOOLEAN, sharing : SharingOrNone, confirm : People \cup {None}]
      /\ None \notin Links
  BY MeAssumption, NoneAssumption DEF ShareTyped
<1>a. ASSUME NEW s \in Links, NEW more, PutSharing(s, more), UNCHANGED <<serverRows, client, news, others>>,
             dialog.sharing # None /\ "renewed" \notin more => s.token = dialog.sharing.token
      PROVE  /\ CallOK(Asked("share", Me, s, "show", None)) /\ Asked("share", Me, s, "show", None).do = "share"
             /\ Asked("share", Me, s, "show", None).what = s
             /\ Asked("share", Me, s, "show", None).answer = "none" /\ Asked("share", Me, s, "show", None).then = "show"
             /\ calls' = Append(calls, Asked("share", Me, s, "show", None))
             /\ dialog' = [dialog EXCEPT !.sharing = IF dialog.sharing = None THEN None ELSE s]
             /\ dialog.sharing # None /\ "renewed" \notin slips' => s.token = dialog.sharing.token
             /\ dialog.sharing = None => "blind" \in slips'
             /\ (\E c \in Under : c.do \in {"share", "sharing"}) => "twice" \in slips'
             /\ slips \subseteq slips' /\ tokens' \in Nat /\ UNCHANGED <<serverRows, client, news, others, done>>
  <2>1. s \in Payload /\ None \in Payload /\ s.token \in Nat
    BY DEF Payload, SharingOrNone, Links
  <2> DEFINE x == Asked("share", Me, s, "show", None)
  <2>2. x \in Trips /\ x.do = "share" /\ x.what = s /\ x.answer = "none" /\ x.then = "show"
    BY <1>0, <2>1, AskedIs
  <2>3. calls' = Append(calls, x) /\ done' = done
    BY <1>a DEF PutSharing
  <2>4. dialog' = [dialog EXCEPT !.sharing = IF dialog.sharing = None THEN None ELSE s]
    BY <1>0, <1>a DEF PutSharing
  <2>5. tokens' \in Nat
    BY <1>0, <1>a, <2>1 DEF PutSharing
  <2>6. /\ slips \subseteq slips' /\ more \subseteq slips'
        /\ dialog.sharing = None => "blind" \in slips'
        /\ (\E i \in DOMAIN calls : calls[i].do \in {"share", "sharing"}) => "twice" \in slips'
    BY <1>a DEF PutSharing
  <2>7. (\E c \in Under : c.do \in {"share", "sharing"}) => "twice" \in slips'
    BY <2>6 DEF Under, Elems
  <2> HIDE DEF x
  <2>8. CallOK(x)
    BY <2>2 DEF CallOK
  <2>9. QED BY <1>a, <2>2, <2>3, <2>4, <2>5, <2>6, <2>7, <2>8 DEF x
<1>1. CASE OnShareChanged
  <2> DEFINE s == [Sharing EXCEPT !.on = ~isSharing]
  <2>1. Sharing \in Links /\ (dialog.sharing # None => Sharing = dialog.sharing)
    BY <1>0 DEF Sharing, SharingOrNone, Links
  <2>2. (~isSharing) \in BOOLEAN
    OBVIOUS
  <2>3. s \in Links /\ s.token = Sharing.token
    BY <2>1, <2>2 DEF Links
  <2>4. PutSharing(s, {}) /\ UNCHANGED <<serverRows, client, news, others>>
    BY <1>1 DEF OnShareChanged, Click
  <2> HIDE DEF s
  <2>5. dialog.sharing # None => s.token = dialog.sharing.token
    BY <2>1, <2>3
  <2>6. QED BY <1>a, <2>3, <2>4, <2>5
<1>2. CASE OnRegenerateToken
  <2> DEFINE s == [dialog.sharing EXCEPT !.token = tokens + 1]
  <2>1. dialog.sharing \in Links
    BY <1>0, <1>2 DEF OnRegenerateToken, isSharing, SharingOrNone
  <2>2. s \in Links
    BY <1>0, <2>1 DEF Links
  <2>3. PutSharing(s, {"renewed"}) /\ UNCHANGED <<serverRows, client, news, others>>
    BY <1>2 DEF OnRegenerateToken, Click
  <2> HIDE DEF s
  <2>4. QED BY <1>a, <2>2, <2>3
<1>3. QED BY <1>1, <1>2

LEMMA PutTyped == ASSUME ShareTyped, OnShareChanged \/ OnRegenerateToken PROVE ShareTyped'
<1>1. PICK s \in Links :
           /\ CallOK(Asked("share", Me, s, "show", None))
           /\ calls' = Append(calls, Asked("share", Me, s, "show", None))
           /\ dialog' = [dialog EXCEPT !.sharing = IF dialog.sharing = None THEN None ELSE s]
  BY SharingPut
<1>2. tokens' \in Nat /\ UNCHANGED <<serverRows, client, news, others, done>>
  BY SharingPut
<1>3. calls' \in Seq(Trips) /\ \A d \in Under' : CallOK(d)
  BY <1>1, CallAppended
<1>4. dialog' \in [shown : BOOLEAN, sharing : SharingOrNone, confirm : People \cup {None}]
  <2>1. dialog \in [shown : BOOLEAN, sharing : SharingOrNone, confirm : People \cup {None}]
    BY DEF ShareTyped
  <2> DEFINE t == IF dialog.sharing = None THEN None ELSE s
  <2>2. t \in SharingOrNone
    BY DEF SharingOrNone
  <2> HIDE DEF t
  <2>3. dialog' = [dialog EXCEPT !.sharing = t]
    BY <1>1 DEF t
  <2>4. QED BY <2>1, <2>2, <2>3
<1>5. QED BY <1>2, <1>3, <1>4 DEF ShareTyped, serverRows, Heard, ListOK

LEMMA ClientIs ==
    ASSUME ShareTyped
    PROVE  /\ client \in [members : [People -> Memberships \cup {None}], users : SUBSET People,
                          mine : SUBSET Flags, min : Minimums, persons : SUBSET People]
           /\ ListOK(client.members)
           /\ dialog \in [shown : BOOLEAN, sharing : SharingOrNone, confirm : People \cup {None}]
           /\ client.users \in SUBSET People /\ client.members \in [People -> Memberships \cup {None}]
BY DEF ShareTyped

LEMMA UsersAre ==
    ASSUME ShareTyped, NEW set \in SUBSET People, client' = WithUsers(set)
    PROVE  /\ client' \in [members : [People -> Memberships \cup {None}], users : SUBSET People,
                           mine : SUBSET Flags, min : Minimums, persons : SUBSET People]
           /\ client'.members = client.members /\ client'.users = set /\ client'.persons = client.persons
           /\ ListOK(client'.members)
BY ClientIs DEF WithUsers

LEMMA ReceivedClient ==
    ASSUME ShareTyped, NEW i \in DOMAIN calls, ReceiveShare(i)
    PROVE  /\ client' \in [members : [People -> Memberships \cup {None}], users : SUBSET People,
                           mine : SUBSET Flags, min : Minimums, persons : SUBSET People]
           /\ ListOK(client'.members) /\ client'.persons = client.persons
           /\ \/ calls[i].do \in {"create", "update", "board", "persons", "share", "sharing", "delete"}
                 /\ client'.members = client.members /\ client'.users = client.users /\ slips' = slips
              \/ calls[i].do = "delete" /\ client'.members = client.members
                 /\ client'.users = client.users \ {calls[i].who}
                 /\ slips' = slips \cup IF rows[calls[i].who] # {} THEN {"hidden"} ELSE {}
              \/ calls[i].do = "members" /\ calls[i].answer = "ok" /\ client'.members = calls[i].what
                 /\ client'.users = {u \in People : calls[i].what[u] # None} /\ slips' = slips
              \/ calls[i].do \in {"members", "user"} /\ calls[i].answer = "refused" /\ client'.members = client.members
                 /\ client'.users \in SUBSET client.users /\ slips' = slips
              \/ calls[i].do = "user" /\ calls[i].answer = "ok" /\ client'.members = client.members
                 /\ client'.users = client.users \cup {calls[i].who} /\ slips' = slips
           /\ dialog' \in [shown : BOOLEAN, sharing : SharingOrNone, confirm : People \cup {None}]
           /\ dialog'.shown = dialog.shown
           /\ IF calls[i].do = "sharing"
              THEN dialog'.sharing = IF calls[i].answer = "ok" THEN calls[i].what ELSE None
              ELSE dialog'.sharing = dialog.sharing
<1> DEFINE c == calls[i]
<1>1. /\ CallOK(c) /\ c.answer \in {"ok", "refused"}
      /\ \/ c.do \in {"create", "update", "board", "persons", "share", "delete"} /\ UNCHANGED <<client, dialog, slips>>
         \/ /\ c.do = "delete" /\ client' = WithUsers(client.users \ {c.who}) /\ dialog' = dialog
            /\ slips' = slips \cup IF rows[c.who] # {} THEN {"hidden"} ELSE {}
         \/ /\ c.do = "sharing" /\ UNCHANGED <<client, slips>>
            /\ dialog' = [dialog EXCEPT !.sharing = IF c.answer = "ok" THEN c.what ELSE None]
         \/ /\ c.do = "members" /\ UNCHANGED <<dialog, slips>>
            /\ client' = IF c.answer = "ok" THEN [client EXCEPT !.members = c.what, !.users = {u \in People : c.what[u] # None}]
                         ELSE WithUsers({})
         \/ /\ c.do = "user" /\ UNCHANGED <<dialog, slips>>
            /\ client' = IF c.answer = "ok" THEN WithUsers(client.users \cup {c.who}) ELSE client
  BY ReceivedIs
<1>2. c.who \in People
  BY <1>1 DEF CallOK, Trips
<1>3. CASE c.do \in {"create", "update", "board", "persons", "share", "delete"} /\ UNCHANGED <<client, dialog, slips>>
  BY <1>3, ClientIs DEF ListOK
<1>4. CASE /\ c.do = "delete" /\ client' = WithUsers(client.users \ {c.who}) /\ dialog' = dialog
           /\ slips' = slips \cup IF rows[c.who] # {} THEN {"hidden"} ELSE {}
  <2>1. client.users \ {c.who} \in SUBSET People
    BY ClientIs
  <2>2. QED BY <1>4, <2>1, UsersAre, ClientIs
<1>5. CASE /\ c.do = "sharing" /\ UNCHANGED <<client, slips>>
           /\ dialog' = [dialog EXCEPT !.sharing = IF c.answer = "ok" THEN c.what ELSE None]
  <2> DEFINE t == IF c.answer = "ok" THEN c.what ELSE None
  <2>1. t \in SharingOrNone
    BY <1>1, <1>5 DEF CallOK, SharingOrNone
  <2>2. dialog' = [dialog EXCEPT !.sharing = t]
    BY <1>5
  <2> HIDE DEF t
  <2>3. /\ dialog' \in [shown : BOOLEAN, sharing : SharingOrNone, confirm : People \cup {None}]
        /\ dialog'.sharing = t /\ dialog'.shown = dialog.shown
    BY <2>1, <2>2, ClientIs
  <2>4. QED BY <1>5, <2>3, ClientIs DEF ListOK, t
<1>6. CASE /\ c.do = "members" /\ UNCHANGED <<dialog, slips>>
           /\ client' = IF c.answer = "ok" THEN [client EXCEPT !.members = c.what, !.users = {u \in People : c.what[u] # None}]
                        ELSE WithUsers({})
  <2>1. CASE c.answer = "ok"
    <3>1. ListOK(c.what)
      BY <1>1, <1>6, <2>1 DEF CallOK
    <3> DEFINE l == c.what
               s == {u \in People : c.what[u] # None}
    <3>2. l \in [People -> Memberships \cup {None}] /\ s \in SUBSET People
      BY <3>1 DEF ListOK
    <3>3. client' = [client EXCEPT !.members = l, !.users = s]
      BY <1>6, <2>1
    <3> HIDE DEF l, s
    <3>4. /\ client' \in [members : [People -> Memberships \cup {None}], users : SUBSET People,
                          mine : SUBSET Flags, min : Minimums, persons : SUBSET People]
          /\ client'.members = l /\ client'.users = s /\ client'.persons = client.persons
      BY <3>2, <3>3, ClientIs
    <3>5. QED BY <1>6, <2>1, <3>1, <3>4, ClientIs DEF l, s
  <2>2. CASE c.answer = "refused"
    <3>1. {} \in SUBSET People /\ {} \in SUBSET client.users /\ client' = WithUsers({})
      BY <1>6, <2>2
    <3>2. QED BY <1>6, <2>2, <3>1, UsersAre, ClientIs
  <2>3. QED BY <1>1, <2>1, <2>2, SMTT(40)
<1>7. CASE /\ c.do = "user" /\ UNCHANGED <<dialog, slips>>
           /\ client' = IF c.answer = "ok" THEN WithUsers(client.users \cup {c.who}) ELSE client
  <2>1. client.users \cup {c.who} \in SUBSET People
    BY <1>2, ClientIs
  <2>2. CASE c.answer = "ok"
    BY <1>7, <2>1, <2>2, UsersAre, ClientIs
  <2>3. CASE c.answer = "refused"
    BY <1>7, <2>3, ClientIs DEF ListOK
  <2>4. QED BY <1>1, <2>2, <2>3
<1>8. QED BY <1>1, <1>3, <1>4, <1>5, <1>6, <1>7, SMTT(40)

LEMMA ReceiveTyped == ASSUME ShareTyped, NEW i \in DOMAIN calls, ReceiveShare(i) PROVE ShareTyped'
<1>1. /\ CallOK(calls[i]) /\ UNCHANGED <<serverRows, news, tokens>>
      /\ \/ calls' = RemoveAt(calls, i)
         \/ \E x \in Trips : Follows(calls[i], x) /\ calls' = Append(RemoveAt(calls, i), x)
      /\ done' = done \/ done' = None \/ (done' = calls[i] /\ calls[i].then \in {"record", "assign"})
  BY ReceivedIs
<1>2. calls' \in Seq(Trips) /\ \A d \in Under' : CallOK(d)
  BY <1>1, CallRemoved, CallFollowed DEF Follows
<1>3. done' # None => CallOK(done') /\ done'.then \in {"record", "assign"}
  BY <1>1 DEF ShareTyped
<1>4. QED BY <1>1, <1>2, <1>3, ReceivedClient DEF ShareTyped, serverRows, Heard

LEMMA LoseTyped == ASSUME ShareTyped, NEW i \in DOMAIN calls, LoseShare(i) PROVE ShareTyped'
<1>1. calls' \in Seq(Trips) /\ \A d \in Under' : CallOK(d)
  BY CallRemoved DEF LoseShare
<1>2. QED BY <1>1 DEF LoseShare, ShareTyped, serverRows, Heard, ListOK

\* A broadcast that is heard.
HeardMember(m) ==
    /\ m.what \in FlagsFor(m.who) /\ m.who \in People
    /\ client'.members = [client.members EXCEPT ![m.who] = IF m.what = {} THEN None ELSE Membership(m.what, "none")]
    /\ client'.users = IF m.what = {} THEN client.users \ {m.who} ELSE client.users
    /\ client'.persons = client.persons
    /\ dialog'.sharing = dialog.sharing /\ (dialog'.shown <=> dialog.shown /\ ~(m.who = Me /\ m.what = {}))
    /\ \/ calls' = calls /\ (m.what = {} \/ m.who \in client.users)
       \/ \E x \in Trips : /\ CallOK(x) /\ x.do = "user" /\ x.who = m.who /\ x.answer = "none" /\ x.then = "show"
                           /\ calls' = Append(calls, x) /\ m.what # {}
    /\ Answers # {} => "overtaken" \in slips'
HeardBoard ==
    /\ client'.members = client.members /\ client'.users = client.users /\ client'.persons = client.persons
    /\ dialog' = dialog
    /\ \E x \in Trips : /\ CallOK(x) /\ x.do = "members" /\ x.answer = "none" /\ x.then = "show"
                        /\ calls' = Append(calls, x)
    /\ Answers # {} => "overtaken" \in slips'
HeardCard(m) ==
    /\ client'.members = client.members /\ client'.users = client.users /\ client'.persons = m.what
    /\ dialog' = dialog /\ calls' = calls /\ slips' = slips

LEMMA HearIs ==
    ASSUME ShareTyped, Hear
    PROVE  LET m == Head(news)
           IN /\ m \in Messages /\ m \in Heard /\ news' = Tail(news) /\ news # <<>> /\ slips \subseteq slips'
              /\ Heard' \subseteq Heard /\ (\A n \in Heard : n = m \/ n \in Heard') /\ news' \in Seq(Messages)
              /\ UNCHANGED <<serverRows, done, tokens>>
              /\ client' \in [members : [People -> Memberships \cup {None}], users : SUBSET People,
                              mine : SUBSET Flags, min : Minimums, persons : SUBSET People]
              /\ dialog' \in [shown : BOOLEAN, sharing : SharingOrNone, confirm : People \cup {None}]
              /\ ListOK(client'.members)
              /\ (m.kind = "member" /\ HeardMember(m)) \/ (m.kind = "board" /\ HeardBoard) \/ (m.kind = "card" /\ HeardCard(m))
<1> DEFINE m == Head(news)
           loading(states) == \E i \in DOMAIN calls : calls[i].do = "members" /\ calls[i].answer \in states
<1>1. news \in Seq(Messages) /\ news # <<>> /\ news' = Tail(news) /\ (\A n \in Heard : n.kind = "member" => n.what \in FlagsFor(n.who))
  BY DEF Hear, ShareTyped
<1>2. /\ m \in Messages /\ m \in Heard /\ Heard' \subseteq Heard /\ (\A n \in Heard : n = m \/ n \in Heard')
      /\ news' \in Seq(Messages)
  <2>1. m = news[1]
    BY <1>1, Taken
  <2>2. QED BY <1>1, <2>1, Taken DEF Heard
<1>3. UNCHANGED <<serverRows, done, clicks, others, tokens>>
  BY DEF Hear
<1>4. Answers # {} => loading({"ok"}) /\ loading({"none", "ok"})
  BY DEF Answers, Under, Elems
<1>5. client.min \in Minimums /\ Me \in People /\ None \in Payload /\ calls \in Seq(Trips)
  BY MeAssumption DEF ShareTyped, Payload, SharingOrNone
<1>6. /\ \A do \in {"user", "members"} : \A u \in People :
           LET x == Asked(do, u, None, "show", None)
           IN CallOK(x) /\ x \in Trips /\ x.do = do /\ x.who = u /\ x.answer = "none" /\ x.then = "show"
  <2> SUFFICES ASSUME NEW do \in {"user", "members"}, NEW u \in People
               PROVE  LET x == Asked(do, u, None, "show", None)
                      IN CallOK(x) /\ x \in Trips /\ x.do = do /\ x.who = u /\ x.answer = "none" /\ x.then = "show"
    OBVIOUS
  <2> DEFINE x == Asked(do, u, None, "show", None)
  <2>1. x \in Trips /\ x.do = do /\ x.who = u /\ x.answer = "none" /\ x.then = "show"
    BY <1>5, AskedIs
  <2> HIDE DEF x
  <2>2. CallOK(x)
    BY <2>1 DEF CallOK
  <2>3. QED BY <2>1, <2>2 DEF x
<1>7. /\ client \in [members : [People -> Memberships \cup {None}], users : SUBSET People,
                     mine : SUBSET Flags, min : Minimums, persons : SUBSET People]
      /\ dialog \in [shown : BOOLEAN, sharing : SharingOrNone, confirm : People \cup {None}]
      /\ ListOK(client.members)
  BY ClientIs
<1>8. CASE m.kind = "member"
  <2>1. /\ client' = [client EXCEPT
              !.members[m.who] = IF m.what = {} THEN None ELSE Membership(m.what, "none"),
              !.users = IF m.what = {} THEN @ \ {m.who} ELSE @,
              !.mine = IF m.who = Me THEN m.what ELSE @]
        /\ dialog' = [dialog EXCEPT !.shown = @ /\ ~(m.who = Me /\ m.what = {})]
        /\ calls' = IF m.what = {} \/ m.who \in client.users THEN calls
                    ELSE Append(calls, Asked("user", m.who, None, "show", None))
        /\ slips' = slips \cup IF loading({"ok"}) THEN {"overtaken"} ELSE {}
    BY <1>8 DEF Hear
  <2>2. m.who \in People /\ m.what \in SUBSET Flags /\ m.what \in FlagsFor(m.who)
    BY <1>1, <1>2, <1>8 DEF Messages
  <2> DEFINE e == IF m.what = {} THEN None ELSE Membership(m.what, "none")
             l == [client.members EXCEPT ![m.who] = e]
             s == IF m.what = {} THEN client.users \ {m.who} ELSE client.users
             f == IF m.who = Me THEN m.what ELSE client.mine
             sh == dialog.shown /\ ~(m.who = Me /\ m.what = {})
  <2>3. e \in Memberships \cup {None} /\ (e # None => e.flags \in Given(m.who))
    <3>1. m.what # {} => /\ Membership(m.what, "none") \in Memberships /\ Membership(m.what, "none").flags = m.what
                         /\ m.what \in Given(m.who)
      BY <2>2 DEF Membership, Memberships, Minimums, Given
    <3>2. QED BY <3>1
  <2> HIDE DEF e
  <2>4. ListOK(l)
    <3>1. l \in [People -> Memberships \cup {None}] /\ \A u \in People : l[u] = IF u = m.who THEN e ELSE client.members[u]
      BY <1>7, <2>2, <2>3
    <3> HIDE DEF l
    <3>2. QED BY <1>7, <2>3, <3>1 DEF ListOK
  <2>5. s \in SUBSET People /\ f \in SUBSET Flags
    BY <1>7, <2>2
  <2>6. client' = [client EXCEPT !.members = l, !.users = s, !.mine = f]
    BY <1>7, <2>1 DEF e
  <2>7. dialog' = [dialog EXCEPT !.shown = sh]
    BY <2>1
  <2>8. sh \in BOOLEAN
    OBVIOUS
  <2> HIDE DEF l, s, f, sh
  <2>9. /\ client' \in [members : [People -> Memberships \cup {None}], users : SUBSET People,
                        mine : SUBSET Flags, min : Minimums, persons : SUBSET People]
        /\ client'.members = l /\ client'.users = s /\ client'.persons = client.persons
    <3>1. l \in [People -> Memberships \cup {None}]
      BY <2>4 DEF ListOK
    <3>2. QED BY <1>7, <2>5, <2>6, <3>1
  <2>10. /\ dialog' \in [shown : BOOLEAN, sharing : SharingOrNone, confirm : People \cup {None}]
         /\ dialog'.sharing = dialog.sharing
    BY <1>7, <2>7, <2>8
  <2>11. dialog'.shown = sh
    BY <1>7, <2>7
  <2>12. dialog'.shown <=> dialog.shown /\ ~(m.who = Me /\ m.what = {})
    BY <2>11 DEF sh
  <2>13. \/ calls' = calls /\ (m.what = {} \/ m.who \in client.users)
         \/ \E x \in Trips : /\ CallOK(x) /\ x.do = "user" /\ x.who = m.who /\ x.answer = "none" /\ x.then = "show"
                             /\ calls' = Append(calls, x) /\ m.what # {}
    BY <1>6, <2>1, <2>2
  <2>14. slips \subseteq slips' /\ (Answers # {} => "overtaken" \in slips')
    BY <1>4, <2>1
  <2>15. HeardMember(m)
    BY <2>2, <2>9, <2>10, <2>12, <2>13, <2>14 DEF HeardMember, l, e, s
  <2>16. QED BY <1>1, <1>2, <1>3, <1>8, <2>4, <2>9, <2>10, <2>14, <2>15
<1>9. CASE m.kind = "board"
  <2>1. /\ client' = [client EXCEPT !.min = m.what]
        /\ calls' = Append(calls, Reload("members"))
        /\ slips' = slips \cup IF loading({"none", "ok"}) THEN {"overtaken"} ELSE {}
        /\ UNCHANGED dialog
    BY <1>9 DEF Hear
  <2>2. m.what \in Minimums
    BY <1>2, <1>9 DEF Messages
  <2>3. /\ client' \in [members : [People -> Memberships \cup {None}], users : SUBSET People,
                        mine : SUBSET Flags, min : Minimums, persons : SUBSET People]
        /\ client'.members = client.members /\ client'.users = client.users /\ client'.persons = client.persons
    BY <1>7, <2>1, <2>2
  <2>4. \E x \in Trips : /\ CallOK(x) /\ x.do = "members" /\ x.answer = "none" /\ x.then = "show"
                         /\ calls' = Append(calls, x)
    BY <1>5, <1>6, <2>1 DEF Reload
  <2>5. slips \subseteq slips' /\ (Answers # {} => "overtaken" \in slips')
    BY <1>4, <2>1
  <2>6. HeardBoard
    BY <2>1, <2>3, <2>4, <2>5 DEF HeardBoard
  <2>7. QED BY <1>1, <1>2, <1>3, <1>7, <1>9, <2>1, <2>3, <2>5, <2>6
<1>10. CASE m.kind = "card"
  <2>1. client' = [client EXCEPT !.persons = m.what] /\ UNCHANGED <<dialog, calls, slips>>
    BY <1>10 DEF Hear
  <2>2. m.what \in SUBSET People
    BY <1>2, <1>10 DEF Messages
  <2>3. /\ client' \in [members : [People -> Memberships \cup {None}], users : SUBSET People,
                        mine : SUBSET Flags, min : Minimums, persons : SUBSET People]
        /\ client'.members = client.members /\ client'.users = client.users /\ client'.persons = m.what
    BY <1>7, <2>1, <2>2
  <2>4. HeardCard(m)
    BY <2>1, <2>3 DEF HeardCard
  <2>5. QED BY <1>1, <1>2, <1>3, <1>7, <1>10, <2>1, <2>3, <2>4
<1>11. QED BY <1>2, <1>8, <1>9, <1>10 DEF Messages

LEMMA HearTyped == ASSUME ShareTyped, Hear PROVE ShareTyped'
<1>1. /\ news' \in Seq(Messages) /\ Heard' \subseteq Heard /\ UNCHANGED <<serverRows, done, tokens>>
      /\ client' \in [members : [People -> Memberships \cup {None}], users : SUBSET People,
                      mine : SUBSET Flags, min : Minimums, persons : SUBSET People]
      /\ dialog' \in [shown : BOOLEAN, sharing : SharingOrNone, confirm : People \cup {None}]
      /\ ListOK(client'.members)
      /\ calls' = calls \/ \E x \in Trips : CallOK(x) /\ calls' = Append(calls, x)
  BY HearIs DEF HeardMember, HeardBoard, HeardCard
<1>2. calls' \in Seq(Trips) /\ \A d \in Under' : CallOK(d)
  <2>1. CASE calls' = calls
    BY <2>1 DEF ShareTyped, Under
  <2>2. CASE \E x \in Trips : CallOK(x) /\ calls' = Append(calls, x)
    BY <2>2, CallAppended
  <2>3. QED BY <1>1, <2>1, <2>2
<1>3. QED BY <1>1, <1>2 DEF ShareTyped, serverRows

\* Every step is one of these.
LEMMA ShareSteps ==
    ASSUME ShareTyped, [ShareNext]_shareVars
    PROVE  \/ Clicked
           \/ OnShareChanged \/ OnRegenerateToken
           \/ Hear
           \/ Other \/ OtherBoard
           \/ \E i \in DOMAIN calls : ServeShare(i) \/ ReceiveShare(i) \/ LoseShare(i)
           \/ UNCHANGED shareVars
BY ClicksAre DEF ShareNext

LEMMA StepTyped == ASSUME ShareTyped, [ShareNext]_shareVars PROVE ShareTyped'
<1>1. CASE UNCHANGED shareVars
  BY <1>1 DEF shareVars, ShareTyped, ListOK, Under, Heard
<1>2. QED BY <1>1, ShareSteps, ClickedTyped, PutTyped, HearTyped, OthersTyped, ServeTyped, ReceiveTyped, LoseTyped

-----------------------------------------------------------------------------
(* Nobody is assigned who never was a member.                              *)

NewsOfMembers(set) ==
    \A m \in Heard : /\ m.kind = "member" /\ m.what # {} => m.who \in set
                     /\ m.kind = "card" => m.what \subseteq set
CallOfMembers(c, set) ==
    /\ c.do = "user" => c.who \in set
    /\ c.do = "persons" => c.what \subseteq set
    /\ c.then = "assign" => c.had \subseteq set
    /\ c.do = "create" /\ c.answer # "none" => c.who \in set
    /\ c.do = "members" /\ c.answer = "ok" => \A u \in People : c.what[u] # None => u \in set

LEMMA PersonsKnownIs ==
    PersonsKnown <=>
        ("refused" \notin slips =>
            /\ persons \subseteq ever /\ client.persons \subseteq ever /\ client.users \subseteq ever
            /\ \A u \in People : rows[u] # {} => u \in ever
            /\ NewsOfMembers(ever) /\ \A c \in Under : CallOfMembers(c, ever))
BY DEF PersonsKnown, NewsOfMembers, CallOfMembers

LEMMA MoreMembers ==
    ASSUME NEW c, NEW set, NEW more, set \subseteq more, CallOfMembers(c, set) PROVE CallOfMembers(c, more)
BY DEF CallOfMembers

LEMMA ServerStepPersons ==
    ASSUME ShareTyped, PersonsKnown, "refused" \notin slips, ServerStep
    PROVE  /\ ever \subseteq ever' /\ persons' \subseteq ever' /\ \A u \in People : rows'[u] # {} => u \in ever'
           /\ NewsOfMembers(ever)'
<1>1. /\ persons \subseteq ever /\ NewsOfMembers(ever) /\ \A u \in People : rows[u] # {} => u \in ever
      /\ \A c \in Under : CallOfMembers(c, ever)
      /\ rows \in [People -> SUBSET Flags] /\ news \in Seq(Messages)
  BY PersonsKnownIs DEF ShareTyped
<1>a. ASSUME NEW m \in Messages, news' = Append(news, m), ever \subseteq ever',
             m.kind = "member" /\ m.what # {} => m.who \in ever',
             m.kind = "card" => m.what \subseteq ever'
      PROVE  NewsOfMembers(ever)'
  <2>1. Heard' = Heard \cup {m}
    BY <1>1, <1>a, Appended DEF Heard
  <2>2. QED BY <1>1, <1>a, <2>1 DEF NewsOfMembers
<1>2. CASE \E u \in People : \E f \in FlagsFor(u) : PutMember(u, f) /\ GivenEnough(f)
  <2>0. PICK u \in People : \E f \in FlagsFor(u) : PutMember(u, f)
    BY <1>2
  <2>1. PICK f \in FlagsFor(u) : PutMember(u, f)
    BY <2>0
  <2>2. /\ rows' = [rows EXCEPT ![u] = f] /\ ever' = ever \cup (IF f = {} THEN {} ELSE {u})
        /\ news' = Append(news, MemberNews(u, f)) /\ persons' = persons
    BY <2>1 DEF PutMember, Broadcast
  <2>3. f \in SUBSET Flags
    BY DEF FlagsFor
  <2>4. /\ MemberNews(u, f) \in Messages /\ MemberNews(u, f).kind = "member"
        /\ MemberNews(u, f).who = u /\ MemberNews(u, f).what = f
    BY <2>3, MessagesAre
  <2>5. ever \subseteq ever' /\ (f # {} => u \in ever')
    BY <2>2
  <2>6. NewsOfMembers(ever)'
    BY <1>a, <2>2, <2>4, <2>5
  <2>7. QED BY <1>1, <2>2, <2>5, <2>6
<1>3. CASE \E min \in Minimums : PatchMinimum(min)
  <2>1. PICK min \in Minimums : PatchMinimum(min)
    BY <1>3
  <2> DEFINE m == [kind |-> "board", who |-> Me, what |-> min]
  <2>2. m \in Messages /\ m.kind = "board"
    BY MeAssumption, MessagesAre
  <2>3. news' = Append(news, m) /\ UNCHANGED <<rows, persons, ever>>
    BY <2>1 DEF PatchMinimum, Broadcast
  <2> HIDE DEF m
  <2>4. NewsOfMembers(ever)'
    BY <1>a, <2>2, <2>3
  <2>5. QED BY <1>1, <2>3, <2>4
<1>4. CASE \E c \in Under : c.do = "persons" /\ PatchPersons(c.what)
  <2>1. PICK c \in Under : c.do = "persons" /\ PatchPersons(c.what)
    BY <1>4
  <2> DEFINE m == [kind |-> "card", who |-> Me, what |-> c.what]
  <2>2. c.what \subseteq ever /\ c.what \in SUBSET People
    BY <1>1, <2>1 DEF CallOfMembers, ShareTyped, CallOK
  <2>3. m \in Messages /\ m.kind = "card" /\ m.what = c.what
    BY <2>2, MeAssumption, MessagesAre
  <2>4. news' = Append(news, m) /\ UNCHANGED <<rows, ever>> /\ persons' = c.what
    BY <2>1 DEF PatchPersons, Broadcast
  <2> HIDE DEF m
  <2>5. NewsOfMembers(ever)'
    BY <1>a, <2>2, <2>3, <2>4
  <2>6. QED BY <1>1, <2>2, <2>4, <2>5
<1>5. CASE UNCHANGED <<rows, minimum, persons, ever, news>>
  BY <1>1, <1>5 DEF NewsOfMembers, Heard
<1>6. QED BY <1>2, <1>3, <1>4, <1>5 DEF ServerStep

LEMMA InitPersons == ASSUME ShareInit, ShareTyped PROVE PersonsKnown
<1>1. PICK r \in [People -> {{}} \cup {UpdatedFlags(role) : role \in Flags}], min \in Minimums,
       sharing \in {None} \cup [token : {1}, on : BOOLEAN], loaded \in BOOLEAN, set \in SUBSET People :
        /\ "admin" \in r[Me] /\ \A u \in Guests : "admin" \notin r[u]
        /\ \A u \in set : r[u] # {}
        /\ StartOf(r, min, sharing, loaded, set)
  BY DEF ShareInit
<1>2. /\ rows = r /\ persons = set /\ ever = {u \in People : r[u] # {}}
      /\ client.users = ever /\ client.persons = set /\ calls = (IF loaded THEN <<>> ELSE <<Reload("sharing")>>)
      /\ news = <<>>
  BY <1>1 DEF StartOf
<1>3. \A c \in Under : c.do = "sharing" /\ c.then = "show"
  <2>1. \A c \in Under : c = Reload("sharing")
    BY <1>2 DEF Under, Elems
  <2>2. Reload("sharing").do = "sharing" /\ Reload("sharing").then = "show"
    BY AskedIs DEF Reload
  <2>3. QED BY <2>1, <2>2
<1>4. Heard = {}
  BY <1>2 DEF Heard, Elems
<1>5. QED BY <1>1, <1>2, <1>3, <1>4 DEF PersonsKnown

LEMMA StepPersons == ASSUME ShareTyped, PersonsKnown, [ShareNext]_shareVars PROVE PersonsKnown'
<1> SUFFICES ASSUME "refused" \notin slips'
             PROVE  /\ persons' \subseteq ever' /\ client'.persons \subseteq ever' /\ client'.users \subseteq ever'
                    /\ \A u \in People : rows'[u] # {} => u \in ever'
                    /\ NewsOfMembers(ever)' /\ \A c \in Under' : CallOfMembers(c, ever')
  BY DEF PersonsKnown, NewsOfMembers, CallOfMembers
<1> DEFINE K == /\ persons \subseteq ever /\ client.persons \subseteq ever /\ client.users \subseteq ever
                /\ \A u \in People : rows[u] # {} => u \in ever
                /\ NewsOfMembers(ever) /\ \A c \in Under : CallOfMembers(c, ever)
<1>1. "refused" \notin slips => K
  BY PersonsKnownIs
<1>2. CASE Clicked
  <2>1. "refused" \notin slips /\ UNCHANGED <<serverRows, client, news>>
    BY <1>2 DEF Clicked
  <2>2. PICK c : NewCall(c) /\ calls' = Append(calls, c)
    BY <1>2 DEF Clicked
  <2>3. Under' = Under \cup {c}
    BY <2>2, CallAppended DEF NewCall
  <2>4. CallOfMembers(c, ever)
    BY <1>1, <2>1, <2>2 DEF NewCall, CallOfMembers
  <2>5. QED BY <1>1, <2>1, <2>3, <2>4 DEF serverRows, NewsOfMembers, Heard
<1>3. CASE OnShareChanged \/ OnRegenerateToken
  <2>1. "refused" \notin slips /\ UNCHANGED <<serverRows, client, news>>
    BY <1>3, SharingPut
  <2>2. PICK s \in Links : LET x == Asked("share", Me, s, "show", None)
                           IN CallOK(x) /\ x.do = "share" /\ x.answer = "none" /\ x.then = "show" /\ calls' = Append(calls, x)
    BY <1>3, SharingPut
  <2> DEFINE x == Asked("share", Me, s, "show", None)
  <2>3. CallOK(x) /\ x.do = "share" /\ x.answer = "none" /\ x.then = "show" /\ calls' = Append(calls, x)
    BY <2>2
  <2> HIDE DEF x
  <2>4. Under' = Under \cup {x} /\ CallOfMembers(x, ever)
    BY <2>3, CallAppended DEF CallOfMembers
  <2>5. QED BY <1>1, <2>1, <2>4 DEF serverRows, NewsOfMembers, Heard
<1>4. CASE Other \/ OtherBoard
  <2>1. "refused" \notin slips /\ ServerStep /\ UNCHANGED <<client, calls>>
    BY <1>4, OthersAre
  <2>2. /\ ever \subseteq ever' /\ persons' \subseteq ever' /\ \A u \in People : rows'[u] # {} => u \in ever'
        /\ NewsOfMembers(ever)'
    BY <2>1, ServerStepPersons
  <2>3. \A c \in Under' : CallOfMembers(c, ever')
    BY <1>1, <2>1, <2>2, MoreMembers DEF Under
  <2>4. QED BY <1>1, <2>1, <2>2, <2>3
<1>5. ASSUME NEW i \in DOMAIN calls, ServeShare(i)
      PROVE  /\ persons' \subseteq ever' /\ client'.persons \subseteq ever' /\ client'.users \subseteq ever'
             /\ \A u \in People : rows'[u] # {} => u \in ever'
             /\ NewsOfMembers(ever)' /\ \A c \in Under' : CallOfMembers(c, ever')
  <2>1. "refused" \notin slips /\ ServerStep /\ UNCHANGED client /\ calls[i] \in Under /\ CallOK(calls[i])
    BY <1>5, ServedIs
  <2>2. PICK a : AnswerTo(calls[i], a) /\ calls' = [calls EXCEPT ![i] = a]
    BY <1>5, ServedIs
  <2>3. /\ ever \subseteq ever' /\ persons' \subseteq ever' /\ \A u \in People : rows'[u] # {} => u \in ever'
        /\ NewsOfMembers(ever)'
    BY <2>1, ServerStepPersons
  <2>4. Under' \subseteq Under \cup {a}
    BY <2>2, CallAnswered DEF AnswerTo
  <2>5. CallOfMembers(a, ever')
    <3>1. CallOfMembers(calls[i], ever) /\ calls[i].who \in People /\ \A u \in People : rows[u] # {} => u \in ever
      BY <1>1, <2>1 DEF CallOK, Trips
    <3>2. a.do = "create" /\ a.answer # "none" => a.who \in ever'
      BY <2>2, <2>3, <3>1 DEF AnswerTo
    <3>3. ASSUME a.do = "members" PROVE \A u \in People : a.what[u] # None => u \in ever'
      <4>1. a.what = MembersNow
        BY <2>2, <3>3 DEF AnswerTo
      <4>2. QED BY <1>1, <2>1, <2>3, <4>1 DEF MembersNow
    <3>4. QED BY <2>2, <2>3, <3>1, <3>2, <3>3 DEF AnswerTo, CallOfMembers
  <2>6. \A c \in Under' : CallOfMembers(c, ever')
    BY <1>1, <2>1, <2>3, <2>4, <2>5, MoreMembers
  <2>7. QED BY <1>1, <2>1, <2>3, <2>6
<1>6. ASSUME NEW i \in DOMAIN calls, ReceiveShare(i)
      PROVE  /\ persons' \subseteq ever' /\ client'.persons \subseteq ever' /\ client'.users \subseteq ever'
             /\ \A u \in People : rows'[u] # {} => u \in ever'
             /\ NewsOfMembers(ever)' /\ \A c \in Under' : CallOfMembers(c, ever')
  <2> DEFINE c == calls[i]
  <2>1. /\ c \in Under /\ CallOK(c) /\ c.answer \in {"ok", "refused"} /\ UNCHANGED <<serverRows, news>>
        /\ \/ calls' = RemoveAt(calls, i)
           \/ \E x \in Trips : Follows(c, x) /\ calls' = Append(RemoveAt(calls, i), x)
    BY <1>6, ReceivedIs
  <2>2. "refused" \notin slips
    <3>1. slips \subseteq slips'
      BY <1>6, ReceivedClient
    <3>2. QED BY <3>1
  <2>3. CallOfMembers(c, ever) /\ K
    BY <1>1, <2>1, <2>2
  <2>4. client'.persons \subseteq ever /\ client'.users \subseteq ever
    <3>1. /\ client'.persons = client.persons
          /\ \/ client'.users \subseteq client.users
             \/ c.do = "members" /\ c.answer = "ok" /\ client'.users = {u \in People : c.what[u] # None}
             \/ c.do = "user" /\ client'.users = client.users \cup {c.who}
      BY <1>6, ReceivedClient
    <3>2. QED BY <2>3, <3>1 DEF CallOfMembers
  <2>5. \A d \in Under' : CallOfMembers(d, ever)
    <3>1. CASE calls' = RemoveAt(calls, i)
      BY <2>3, <3>1, CallRemoved
    <3>2. CASE \E x \in Trips : Follows(c, x) /\ calls' = Append(RemoveAt(calls, i), x)
      <4>1. PICK x \in Trips : Follows(c, x) /\ calls' = Append(RemoveAt(calls, i), x)
        BY <3>2
      <4>2. Under' \subseteq Under \cup {x}
        BY <4>1, CallFollowed DEF Follows
      <4>3. CallOfMembers(x, ever)
        BY <2>1, <2>3, <4>1 DEF CallOfMembers, Follows
      <4>4. QED BY <2>3, <4>2, <4>3
    <3>3. QED BY <2>1, <3>1, <3>2
  <2>6. QED BY <2>1, <2>3, <2>4, <2>5, SMTT(40) DEF serverRows, NewsOfMembers, Heard
<1>7. ASSUME NEW i \in DOMAIN calls, LoseShare(i)
      PROVE  /\ persons' \subseteq ever' /\ client'.persons \subseteq ever' /\ client'.users \subseteq ever'
             /\ \A u \in People : rows'[u] # {} => u \in ever'
             /\ NewsOfMembers(ever)' /\ \A c \in Under' : CallOfMembers(c, ever')
  <2>1. "refused" \notin slips /\ UNCHANGED <<serverRows, client, news>> /\ calls' = RemoveAt(calls, i)
    BY <1>7 DEF LoseShare
  <2>2. Under' \subseteq Under
    BY <2>1, CallRemoved
  <2>3. QED BY <1>1, <2>1, <2>2 DEF serverRows, NewsOfMembers, Heard
<1>8. CASE Hear
  <2> DEFINE m == Head(news)
  <2>1. /\ "refused" \notin slips /\ m \in Heard /\ Heard' \subseteq Heard /\ UNCHANGED serverRows
        /\ (m.kind = "member" /\ HeardMember(m)) \/ (m.kind = "board" /\ HeardBoard) \/ (m.kind = "card" /\ HeardCard(m))
    BY <1>8, HearIs
  <2>2. K
    BY <1>1, <2>1
  <2>3. NewsOfMembers(ever)'
    BY <2>1, <2>2 DEF NewsOfMembers, serverRows
  <2>4. client'.persons \subseteq ever /\ client'.users \subseteq ever
    BY <2>1, <2>2 DEF NewsOfMembers, HeardMember, HeardBoard, HeardCard
  <2>5. \A c \in Under' : CallOfMembers(c, ever)
    <3>1. CASE calls' = calls
      BY <2>2, <3>1 DEF Under
    <3>2. ASSUME NEW x \in Trips, CallOK(x), calls' = Append(calls, x), CallOfMembers(x, ever)
          PROVE  \A c \in Under' : CallOfMembers(c, ever)
      <4>1. Under' = Under \cup {x}
        BY <3>2, CallAppended
      <4>2. QED BY <2>2, <3>2, <4>1
    <3>3. CASE m.kind = "member" /\ HeardMember(m) /\ calls' # calls
      <4>1. PICK x \in Trips : /\ CallOK(x) /\ x.do = "user" /\ x.who = m.who /\ x.answer = "none" /\ x.then = "show"
                               /\ calls' = Append(calls, x) /\ m.what # {}
        BY <3>3 DEF HeardMember
      <4>2. CallOfMembers(x, ever)
        BY <2>1, <2>2, <3>3, <4>1 DEF CallOfMembers, NewsOfMembers
      <4>3. QED BY <3>2, <4>1, <4>2
    <3>4. CASE HeardBoard
      <4>1. PICK x \in Trips : /\ CallOK(x) /\ x.do = "members" /\ x.answer = "none" /\ x.then = "show"
                               /\ calls' = Append(calls, x)
        BY <3>4 DEF HeardBoard
      <4>2. CallOfMembers(x, ever)
        BY <4>1 DEF CallOfMembers
      <4>3. QED BY <3>2, <4>1, <4>2
    <3>5. QED BY <2>1, <3>1, <3>3, <3>4 DEF HeardCard
  <2>6. QED BY <2>1, <2>2, <2>3, <2>4, <2>5 DEF serverRows
<1>9. CASE UNCHANGED shareVars
  BY <1>1, <1>9 DEF shareVars, NewsOfMembers, Heard, Under
<1>10. QED BY <1>2, <1>3, <1>4, <1>5, <1>6, <1>7, <1>8, <1>9, ShareSteps

-----------------------------------------------------------------------------
(* The link.                                                               *)

OfLink(c) == c.do \in {"share", "sharing"}
OneLink == \A i, j \in DOMAIN calls : OfLink(calls[i]) /\ OfLink(calls[j]) => i = j
NoLink == \A c \in Under : ~OfLink(c)
LinkAnswers(c, l) == OfLink(c) /\ c.answer # "none" => c.answer = "ok" /\ c.what = l
FirstToken(c) == c.do = "share" => c.what.token = 1
Clean == slips \cap LinkSlips = {}
Given1 == slips \cap {"renewed", "blind"} = {}

LEMMA LinkKnownIs ==
    LinkKnown <=>
        (Clean =>
            /\ OneLink /\ (NoLink => dialog.sharing = link)
            /\ \A c \in Under : LinkAnswers(c, link)
            /\ Given1 => /\ link # None => link.token = 1
                         /\ dialog.sharing # None => dialog.sharing.token = 1
                         /\ \A c \in Under : FirstToken(c))
BY DEF LinkKnown, Clean, OneLink, NoLink, OfLink, LinkAnswers, FirstToken, Given1

LEMMA FewerSlips == ASSUME slips \subseteq slips' PROVE (Clean' => Clean) /\ (Given1' => Given1)
BY DEF Clean, Given1

\* Trips and elements.
LEMMA CallsAre ==
    ASSUME ShareTyped
    PROVE  /\ calls \in Seq(Trips) /\ DOMAIN calls = 1 .. Len(calls) /\ Len(calls) \in Nat
           /\ \A i \in DOMAIN calls : calls[i] \in Under
           /\ \A c \in Under : \E i \in DOMAIN calls : c = calls[i]
BY DEF ShareTyped, Under, Elems

LEMMA OneLinkAppended ==
    ASSUME ShareTyped, OneLink, NEW x \in Trips, OfLink(x) => NoLink, calls' = Append(calls, x)
    PROVE  OneLink'
<1>1. /\ DOMAIN calls' = 1 .. Len(calls) + 1 /\ \A i \in DOMAIN calls : calls'[i] = calls[i]
      /\ calls'[Len(calls) + 1] = x
  BY CallsAre, Appended
<1>2. \A i \in 1 .. Len(calls) + 1 : i \in DOMAIN calls \/ i = Len(calls) + 1
  BY CallsAre
<1>3. \A i \in DOMAIN calls : OfLink(x) => ~OfLink(calls[i])
  BY CallsAre DEF NoLink
<1>4. QED BY <1>1, <1>2, <1>3 DEF OneLink

LEMMA OneLinkRemoved ==
    ASSUME ShareTyped, OneLink, NEW i \in DOMAIN calls, calls' = RemoveAt(calls, i)
    PROVE  OneLink' /\ (OfLink(calls[i]) => NoLink')
<1>1. /\ DOMAIN calls' = 1 .. Len(calls) - 1
      /\ \A j \in DOMAIN calls' : calls'[j] = calls[IF j < i THEN j ELSE j + 1]
  BY CallsAre, Removed
<1>2. \A j \in 1 .. Len(calls) - 1 : /\ (IF j < i THEN j ELSE j + 1) \in DOMAIN calls
                                     /\ (IF j < i THEN j ELSE j + 1) # i
  BY CallsAre
<1>3. \A j, k \in 1 .. Len(calls) - 1 :
        (IF j < i THEN j ELSE j + 1) = (IF k < i THEN k ELSE k + 1) => j = k
  BY CallsAre
<1>4. OneLink'
  BY <1>1, <1>2, <1>3 DEF OneLink
<1>5. OfLink(calls[i]) => NoLink'
  <2>1. ASSUME OfLink(calls[i]), NEW j \in DOMAIN calls' PROVE ~OfLink(calls'[j])
    BY <1>1, <1>2, <2>1 DEF OneLink
  <2>2. QED BY <2>1 DEF NoLink, Under, Elems
<1>6. QED BY <1>4, <1>5

LEMMA InitLink == ASSUME ShareInit, ShareTyped PROVE LinkKnown
<1>1. PICK r \in [People -> {{}} \cup {UpdatedFlags(role) : role \in Flags}], min \in Minimums,
       sharing \in {None} \cup [token : {1}, on : BOOLEAN], loaded \in BOOLEAN, set \in SUBSET People :
        /\ "admin" \in r[Me] /\ \A u \in Guests : "admin" \notin r[u]
        /\ \A u \in set : r[u] # {}
        /\ StartOf(r, min, sharing, loaded, set)
  BY DEF ShareInit
<1>2. /\ link = sharing /\ dialog.sharing = (IF loaded THEN sharing ELSE None)
      /\ calls = (IF loaded THEN <<>> ELSE <<Reload("sharing")>>)
  BY <1>1 DEF StartOf
<1>3. Reload("sharing").do = "sharing" /\ Reload("sharing").answer = "none"
  BY AskedIs DEF Reload
<1>4. \A c \in Under : c = Reload("sharing")
  BY <1>2 DEF Under, Elems
<1>5. OneLink
  BY <1>2 DEF OneLink
<1>6. NoLink => dialog.sharing = link
  <2>1. CASE loaded
    BY <1>2, <2>1
  <2>2. CASE ~loaded
    BY <1>2, <1>3, <2>2 DEF NoLink, OfLink, Under, Elems
  <2>3. QED BY <2>1, <2>2
<1>7. /\ \A c \in Under : LinkAnswers(c, link) /\ FirstToken(c)
      /\ link # None => link.token = 1
      /\ dialog.sharing # None => dialog.sharing.token = 1
  BY <1>2, <1>3, <1>4 DEF LinkAnswers, FirstToken
<1>8. QED BY <1>5, <1>6, <1>7, LinkKnownIs

LEMMA StepLink == ASSUME ShareTyped, LinkKnown, [ShareNext]_shareVars PROVE LinkKnown'
<1> DEFINE T == /\ link # None => link.token = 1
                /\ dialog.sharing # None => dialog.sharing.token = 1
                /\ \A c \in Under : FirstToken(c)
           Q == /\ OneLink' /\ (NoLink' => dialog'.sharing = link')
                /\ \A c \in Under' : LinkAnswers(c, link')
                /\ Given1' => /\ link' # None => link'.token = 1
                              /\ dialog'.sharing # None => dialog'.sharing.token = 1
                              /\ \A c \in Under' : FirstToken(c)
<1> SUFFICES ASSUME Clean' PROVE Q
  BY DEF LinkKnown, Clean, OneLink, NoLink, OfLink, LinkAnswers, FirstToken, Given1
<1>0. Clean => /\ OneLink /\ (NoLink => dialog.sharing = link)
               /\ \A c \in Under : LinkAnswers(c, link)
               /\ Given1 => T
  BY LinkKnownIs
<1>1. CASE Clicked
  <2>1. UNCHANGED <<link, slips>> /\ dialog'.sharing = dialog.sharing /\ Clean /\ (Given1' <=> Given1)
    BY <1>1 DEF Clicked, serverRows, Clean, Given1
  <2>2. PICK c : NewCall(c) /\ calls' = Append(calls, c)
    BY <1>1 DEF Clicked
  <2>3. c \in Trips /\ ~OfLink(c) /\ Under' = Under \cup {c}
    BY <2>2, CallAppended DEF NewCall, CallOK, OfLink
  <2>4. OneLink'
    BY <1>0, <2>1, <2>2, <2>3, OneLinkAppended
  <2>5. LinkAnswers(c, link) /\ FirstToken(c)
    BY <2>3 DEF LinkAnswers, FirstToken, OfLink
  <2>6. NoLink' => NoLink
    BY <2>3 DEF NoLink
  <2>7. QED BY <1>0, <2>1, <2>3, <2>4, <2>5, <2>6
<1>2. CASE OnShareChanged \/ OnRegenerateToken
  <2>1. PICK s \in Links : LET x == Asked("share", Me, s, "show", None)
                           IN /\ CallOK(x) /\ x.do = "share" /\ x.what = s /\ x.answer = "none" /\ x.then = "show"
                              /\ calls' = Append(calls, x)
                              /\ dialog' = [dialog EXCEPT !.sharing = IF dialog.sharing = None THEN None ELSE s]
                              /\ dialog.sharing # None /\ "renewed" \notin slips' => s.token = dialog.sharing.token
    BY <1>2, SharingPut
  <2> DEFINE x == Asked("share", Me, s, "show", None)
  <2>2. /\ CallOK(x) /\ x.do = "share" /\ x.what = s /\ x.answer = "none" /\ x.then = "show"
        /\ calls' = Append(calls, x)
        /\ dialog' = [dialog EXCEPT !.sharing = IF dialog.sharing = None THEN None ELSE s]
        /\ dialog.sharing # None /\ "renewed" \notin slips' => s.token = dialog.sharing.token
    BY <2>1
  <2> HIDE DEF x
  <2>3. /\ dialog.sharing = None => "blind" \in slips'
        /\ (\E c \in Under : OfLink(c)) => "twice" \in slips'
        /\ slips \subseteq slips' /\ link' = link
    BY <1>2, SharingPut DEF OfLink, serverRows
  <2>4. Clean /\ NoLink /\ (Given1' => Given1)
    BY <2>3, FewerSlips DEF Clean, LinkSlips, NoLink
  <2>5. Under' = Under \cup {x} /\ x \in Trips /\ OfLink(x)
    BY <2>2, CallAppended DEF CallOK, OfLink
  <2>6. OneLink'
    BY <1>0, <2>2, <2>4, <2>5, OneLinkAppended
  <2>7. ~NoLink' /\ LinkAnswers(x, link)
    BY <2>2, <2>5 DEF NoLink, LinkAnswers
  <2>8. ASSUME Given1'
        PROVE  /\ dialog'.sharing # None => dialog'.sharing.token = 1
               /\ \A c \in Under' : FirstToken(c)
    <3>1. dialog.sharing # None /\ "renewed" \notin slips'
      BY <2>3, <2>8 DEF Given1
    <3>2. s.token = 1
      BY <1>0, <2>2, <2>4, <2>8, <3>1
    <3>3. dialog'.sharing = s
      BY <2>2, <3>1, ClientIs
    <3>4. QED BY <1>0, <2>2, <2>4, <2>5, <2>8, <3>2, <3>3 DEF FirstToken
  <2>9. QED BY <1>0, <2>3, <2>4, <2>5, <2>6, <2>7, <2>8
<1>3. CASE Other \/ OtherBoard
  <2>1. link' = link /\ slips \subseteq slips' /\ UNCHANGED <<dialog, calls>>
    BY <1>3, OthersAre DEF Clean, LinkSlips
  <2>2. Clean /\ (Given1' => Given1)
    BY <2>1, FewerSlips
  <2>3. QED BY <1>0, <2>1, <2>2 DEF OneLink, NoLink, Under
<1>4. ASSUME NEW i \in DOMAIN calls, ServeShare(i) PROVE Q
  <2> DEFINE c == calls[i]
  <2>1. CallOK(c) /\ c \in Under /\ slips \subseteq slips' /\ UNCHANGED dialog /\ c.answer = "none"
    BY <1>4, ServedIs
  <2>2. PICK a \in Trips : AnswerTo(c, a) /\ calls' = [calls EXCEPT ![i] = a]
    BY <1>4, ServedIs
  <2>3. Clean /\ (Given1' => Given1) /\ "refused" \notin slips'
    BY <2>1, FewerSlips DEF Clean, LinkSlips
  <2>4. /\ a.do = c.do /\ a.answer = "ok" /\ (c.do = "sharing" => a.what = link)
        /\ (c.do = "share" => a.what = c.what /\ link' = c.what)
        /\ (c.do # "share" => link' = link)
    BY <2>2, <2>3 DEF AnswerTo
  <2>5. /\ Under' \subseteq Under \cup {a} /\ a \in Under' /\ \A d \in Under : d = c \/ d \in Under'
        /\ DOMAIN calls' = DOMAIN calls /\ \A j \in DOMAIN calls : calls'[j] = IF j = i THEN a ELSE calls[j]
    BY <2>2, CallAnswered DEF AnswerTo
  <2>6. OneLink'
    BY <1>0, <2>3, <2>4, <2>5 DEF OneLink, OfLink
  <2>7. NoLink' => NoLink /\ c.do # "share"
    BY <2>4, <2>5 DEF NoLink, OfLink
  <2>8. \A d \in Under' : LinkAnswers(d, link')
    <3>1. LinkAnswers(a, link')
      BY <2>4 DEF LinkAnswers, OfLink
    <3>2. CASE c.do # "share"
      BY <1>0, <2>3, <2>4, <2>5, <3>1, <3>2
    <3>3. CASE c.do = "share"
      <4>1. ASSUME NEW j \in DOMAIN calls' PROVE LinkAnswers(calls'[j], link')
        <5>1. CASE j = i
          BY <2>5, <3>1, <5>1
        <5>2. CASE j # i
          <6>1. ~OfLink(calls[j])
            BY <1>0, <2>3, <2>5, <3>3, <5>2 DEF OneLink, OfLink
          <6>2. QED BY <2>5, <5>2, <6>1 DEF LinkAnswers
        <5>3. QED BY <5>1, <5>2
      <4>2. QED BY <4>1 DEF Under, Elems
    <3>4. QED BY <3>2, <3>3
  <2>9. ASSUME Given1'
        PROVE  /\ link' # None => link'.token = 1
               /\ \A d \in Under' : FirstToken(d)
    <3>1. FirstToken(c) /\ T
      BY <1>0, <2>1, <2>3, <2>9
    <3>2. FirstToken(a)
      BY <2>4, <3>1 DEF FirstToken
    <3>3. link' # None => link'.token = 1
      BY <2>4, <3>1 DEF FirstToken
    <3>4. QED BY <2>5, <3>1, <3>2, <3>3
  <2>10. QED BY <1>0, <2>1, <2>3, <2>4, <2>6, <2>7, <2>8, <2>9
<1>5. ASSUME NEW i \in DOMAIN calls, ReceiveShare(i) PROVE Q
  <2> DEFINE c == calls[i]
             r == RemoveAt(calls, i)
  <2>1. /\ CallOK(c) /\ c \in Under /\ c.answer \in {"ok", "refused"} /\ UNCHANGED serverRows
        /\ \/ calls' = RemoveAt(calls, i) /\ c.do # "share"
           \/ \E x \in Trips : Follows(c, x) /\ calls' = Append(RemoveAt(calls, i), x)
    BY <1>5, ReceivedIs
  <2>2. /\ slips \subseteq slips'
        /\ IF c.do = "sharing" THEN dialog'.sharing = IF c.answer = "ok" THEN c.what ELSE None
           ELSE dialog'.sharing = dialog.sharing
    BY <1>5, ReceivedClient
  <2>3. Clean /\ (Given1' => Given1) /\ link' = link
    BY <2>1, <2>2, FewerSlips DEF serverRows
  <2>4. LinkAnswers(c, link)
    BY <1>0, <2>1, <2>3
  <2>5. c.do = "sharing" => dialog'.sharing = link
    BY <2>1, <2>2, <2>4 DEF LinkAnswers, OfLink
  <2>6. Given1' => (dialog'.sharing # None => dialog'.sharing.token = 1) /\ T
    BY <1>0, <2>2, <2>3, <2>5
  <2>7. CASE calls' = RemoveAt(calls, i) /\ c.do # "share"
    <3>1. OneLink' /\ (OfLink(c) => NoLink') /\ Under' \subseteq Under /\ \A d \in Under : d = c \/ d \in Under'
      BY <1>0, <2>3, <2>7, OneLinkRemoved, CallRemoved
    <3>2. NoLink' => dialog'.sharing = link'
      <4>1. CASE c.do = "sharing"
        BY <2>3, <2>5, <4>1
      <4>2. CASE c.do # "sharing"
        <5>1. NoLink' => NoLink
          BY <2>7, <3>1, <4>2 DEF NoLink, OfLink
        <5>2. QED BY <1>0, <2>2, <2>3, <4>2, <5>1
      <4>3. QED BY <4>1, <4>2
    <3>3. QED BY <1>0, <2>3, <2>6, <3>1, <3>2
  <2>8. CASE \E x \in Trips : Follows(c, x) /\ calls' = Append(RemoveAt(calls, i), x)
    <3>1. PICK x \in Trips : Follows(c, x) /\ calls' = Append(RemoveAt(calls, i), x)
      BY <2>8
    <3>2. /\ Under' \subseteq Under \cup {x} /\ x \in Under' /\ \A d \in Under : d = c \/ d \in Under'
      BY <3>1, CallFollowed DEF Follows
    <3>3. /\ x.answer = "none" /\ x.do # "share" /\ c.do \in {"create", "share"}
          /\ (OfLink(x) <=> OfLink(c)) 
      BY <3>1 DEF Follows, OfLink
    <3>4. LinkAnswers(x, link) /\ FirstToken(x)
      BY <3>3 DEF LinkAnswers, FirstToken
    <3>5. OneLink'
      <4>1. /\ r \in Seq(Trips) /\ DOMAIN r = 1 .. Len(calls) - 1 /\ Len(calls) >= 1
            /\ \A j \in DOMAIN r : r[j] = calls[IF j < i THEN j ELSE j + 1]
        BY CallsAre, Removed, SMTT(40)
      <4> HIDE DEF r
      <4>a. DOMAIN r = 1 .. Len(r) /\ Len(r) \in Nat
        BY <4>1
      <4>b. Len(calls) \in Nat
        BY CallsAre
      <4>2. Len(r) = Len(calls) - 1
        BY <4>1, <4>a, <4>b
      <4>3. /\ DOMAIN calls' = 1 .. Len(r) + 1 /\ \A j \in DOMAIN r : calls'[j] = r[j]
            /\ calls'[Len(r) + 1] = x
        BY <3>1, <4>1, Appended DEF r
      <4>4. \A j \in 1 .. Len(calls) - 1 : /\ (IF j < i THEN j ELSE j + 1) \in DOMAIN calls
                                           /\ (IF j < i THEN j ELSE j + 1) # i
        BY CallsAre
      <4>5. \A j, k \in 1 .. Len(calls) - 1 :
              (IF j < i THEN j ELSE j + 1) = (IF k < i THEN k ELSE k + 1) => j = k
        BY CallsAre
      <4>6. \A j \in 1 .. Len(calls) : j \in DOMAIN r \/ j = Len(calls)
        <5>1. \A j \in 1 .. Len(calls) : j \in 1 .. Len(calls) - 1 \/ j = Len(calls)
          BY <4>b
        <5>2. QED BY <4>1, <5>1
      <4>7. DOMAIN calls' = 1 .. Len(calls) /\ calls'[Len(calls)] = x
        BY <4>2, <4>3, CallsAre
      <4>8. \A j \in DOMAIN r : OfLink(calls'[j]) => ~OfLink(c)
        BY <1>0, <2>3, <4>1, <4>3, <4>4 DEF OneLink
      <4>9. \A j, k \in DOMAIN r : OfLink(calls'[j]) /\ OfLink(calls'[k]) => j = k
        <5> SUFFICES ASSUME NEW j \in DOMAIN r, NEW k \in DOMAIN r, OfLink(calls'[j]), OfLink(calls'[k])
                     PROVE  j = k
          OBVIOUS
        <5> DEFINE a == IF j < i THEN j ELSE j + 1
                   b == IF k < i THEN k ELSE k + 1
        <5>1. /\ a \in DOMAIN calls /\ b \in DOMAIN calls /\ (a = b => j = k)
              /\ calls'[j] = calls[a] /\ calls'[k] = calls[b]
          BY <4>1, <4>3, <4>4, <4>5
        <5> HIDE DEF a, b
        <5>2. OfLink(calls[a]) /\ OfLink(calls[b])
          BY <5>1
        <5>3. OneLink
          BY <1>0, <2>3
        <5>4. QED BY <5>1, <5>2, <5>3 DEF OneLink
      <4>10. QED BY <3>3, <4>6, <4>7, <4>8, <4>9 DEF OneLink
    <3>6. NoLink' => dialog'.sharing = link'
      <4>1. NoLink' => NoLink
        BY <3>2, <3>3 DEF NoLink
      <4>2. QED BY <1>0, <2>2, <2>3, <3>3, <4>1
    <3>7. QED BY <1>0, <2>3, <2>6, <3>2, <3>4, <3>5, <3>6
  <2>9. QED BY <2>1, <2>7, <2>8, SMTT(40)
<1>6. ASSUME NEW i \in DOMAIN calls, LoseShare(i) PROVE Q
  BY <1>6 DEF LoseShare, Clean, LinkSlips
<1>7. CASE Hear
  <2> DEFINE m == Head(news)
  <2>1. /\ slips \subseteq slips' /\ UNCHANGED serverRows
        /\ (m.kind = "member" /\ HeardMember(m)) \/ (m.kind = "board" /\ HeardBoard) \/ (m.kind = "card" /\ HeardCard(m))
    BY <1>7, HearIs
  <2>2. Clean /\ (Given1' => Given1) /\ link' = link
    BY <2>1, FewerSlips DEF serverRows
  <2>3. /\ dialog'.sharing = dialog.sharing
        /\ \/ calls' = calls
           \/ \E x \in Trips : CallOK(x) /\ x.do \in {"user", "members"} /\ calls' = Append(calls, x)
    BY <2>1 DEF HeardMember, HeardBoard, HeardCard
  <2>4. CASE calls' = calls
    BY <1>0, <2>2, <2>3, <2>4 DEF OneLink, NoLink, Under
  <2>5. CASE \E x \in Trips : CallOK(x) /\ x.do \in {"user", "members"} /\ calls' = Append(calls, x)
    <3>1. PICK x \in Trips : CallOK(x) /\ x.do \in {"user", "members"} /\ calls' = Append(calls, x)
      BY <2>5
    <3>2. Under' = Under \cup {x} /\ ~OfLink(x)
      BY <3>1, CallAppended DEF OfLink
    <3>3. OneLink'
      BY <1>0, <2>2, <3>1, <3>2, OneLinkAppended
    <3>4. LinkAnswers(x, link) /\ FirstToken(x) /\ (NoLink' => NoLink)
      BY <3>2 DEF LinkAnswers, FirstToken, OfLink, NoLink
    <3>5. QED BY <1>0, <2>2, <2>3, <3>2, <3>3, <3>4
  <2>6. QED BY <2>3, <2>4, <2>5
<1>8. CASE UNCHANGED shareVars
  BY <1>0, <1>8 DEF shareVars, OneLink, NoLink, Under, Clean, Given1
<1>9. QED BY <1>1, <1>2, <1>3, <1>4, <1>5, <1>6, <1>7, <1>8, ShareSteps

-----------------------------------------------------------------------------
(* Broadcasts on their way.                                                *)

LEMMA NewsAre ==
    ASSUME ShareTyped
    PROVE  /\ news \in Seq(Messages) /\ DOMAIN news = 1 .. Len(news) /\ Len(news) \in Nat
           /\ \A k \in DOMAIN news : news[k] \in Heard
           /\ rows \in [People -> SUBSET Flags] /\ minimum \in Minimums
BY DEF ShareTyped, Heard, Elems

LEMMA NewsMore ==
    ASSUME ShareTyped, NEW m \in Messages, news' = Append(news, m)
    PROVE  /\ Heard' = Heard \cup {m}
           /\ \A u : Told(u)' => Told(u) /\ ~(m.kind = "member" /\ m.who = u)
           /\ \A u : \A k \in DOMAIN news' : LastAbout(u, k)' =>
                 \/ m.kind = "member" /\ m.who = u /\ news'[k] = m
                 \/ /\ ~(m.kind = "member" /\ m.who = u) /\ k \in DOMAIN news /\ LastAbout(u, k) /\ news'[k] = news[k]
                    /\ BoardTold(k)' => BoardTold(k) /\ m.kind # "board"
           /\ BoardTold(0)' => BoardTold(0) /\ m.kind # "board"
<1> DEFINE n == Len(news)
<1>1. /\ news \in Seq(Messages) /\ DOMAIN news = 1 .. n /\ n \in Nat
  BY NewsAre
<1>2. /\ DOMAIN news' = 1 .. n + 1 /\ \A k \in 1 .. n : news'[k] = news[k]
      /\ news'[n + 1] = m /\ Heard' = Heard \cup {m}
  BY <1>1, Appended DEF Heard
<1> HIDE DEF n
<1>3. /\ \A k \in 1 .. n : k \in 1 .. n + 1 /\ n + 1 > k
      /\ \A k \in 1 .. n + 1 : k \in 1 .. n \/ k = n + 1
      /\ n + 1 \in 1 .. n + 1 /\ n + 1 > 0
  BY <1>1
<1>4. \A u : Told(u)' => Told(u) /\ ~(m.kind = "member" /\ m.who = u)
  BY <1>1, <1>2, <1>3 DEF Told, About
<1>5. ASSUME NEW u, NEW k \in DOMAIN news', LastAbout(u, k)'
      PROVE  \/ m.kind = "member" /\ m.who = u /\ news'[k] = m
             \/ /\ ~(m.kind = "member" /\ m.who = u) /\ k \in DOMAIN news /\ LastAbout(u, k) /\ news'[k] = news[k]
                /\ BoardTold(k)' => BoardTold(k) /\ m.kind # "board"
  <2>1. /\ news'[k].kind = "member" /\ news'[k].who = u
        /\ \A j \in DOMAIN news' : j > k => ~(news'[j].kind = "member" /\ news'[j].who = u)
    BY <1>5 DEF LastAbout, About
  <2>2. CASE k = n + 1
    BY <1>2, <2>1, <2>2
  <2>3. CASE k \in 1 .. n
    <3>1. ~(m.kind = "member" /\ m.who = u)
      BY <1>2, <1>3, <2>1, <2>3
    <3>2. LastAbout(u, k) /\ news'[k] = news[k]
      BY <1>1, <1>2, <1>3, <2>1, <2>3 DEF LastAbout, About
    <3>3. BoardTold(k)' => BoardTold(k) /\ m.kind # "board"
      BY <1>1, <1>2, <1>3, <2>3 DEF BoardTold
    <3>4. QED BY <1>1, <2>3, <3>1, <3>2, <3>3
  <2>4. QED BY <1>2, <1>3, <2>2, <2>3
<1>6. BoardTold(0)' => BoardTold(0) /\ m.kind # "board"
  BY <1>1, <1>2, <1>3 DEF BoardTold
<1>7. QED BY <1>2, <1>4, <1>5, <1>6

LEMMA NewsLess ==
    ASSUME ShareTyped, news # <<>>, news' = Tail(news)
    PROVE  LET m == Head(news) IN
           /\ 1 \in DOMAIN news /\ news[1] = m
           /\ \A u : Told(u)' => Told(u) \/ LastAbout(u, 1)
           /\ \A u : LastAbout(u, 1) \/ Told(u) => ~(\E k \in DOMAIN news' : LastAbout(u, k)')
           /\ \A u : \A k \in DOMAIN news' : LastAbout(u, k)' =>
                 \E j \in DOMAIN news : LastAbout(u, j) /\ news'[k] = news[j] /\ (BoardTold(k)' => BoardTold(j))
           /\ BoardTold(0)' => BoardTold(1) /\ (m.kind # "board" => BoardTold(0))
           /\ \A u : m.kind = "member" /\ m.who = u => ~Told(u)
<1> DEFINE n == Len(news)
<1>1. /\ news \in Seq(Messages) /\ DOMAIN news = 1 .. n /\ n \in Nat
  BY NewsAre
<1>2. /\ DOMAIN news' = 1 .. n - 1 /\ \A k \in 1 .. n - 1 : news'[k] = news[k + 1]
      /\ 1 \in 1 .. n /\ news[1] = Head(news)
  BY <1>1, Taken
<1> HIDE DEF n
<1>3. /\ \A k \in 1 .. n - 1 : k + 1 \in 1 .. n /\ k + 1 > 1
      /\ \A j \in 1 .. n : j > 1 => j - 1 \in 1 .. n - 1 /\ (j - 1) + 1 = j
      /\ \A j \in 1 .. n : \A k \in 1 .. n - 1 : j > k + 1 => j - 1 \in 1 .. n - 1 /\ j - 1 > k /\ (j - 1) + 1 = j
      /\ \A j \in 1 .. n : j > 0 /\ (j = 1 \/ j > 1)
      /\ \A j \in 1 .. n - 1 : j > 0
      /\ \A j, k \in 1 .. n - 1 : j > k => j + 1 > k + 1
  BY <1>1
<1>4. \A j \in 1 .. n : j > 1 => news'[j - 1] = news[j]
  BY <1>2, <1>3
<1>5. \A u : Told(u)' => Told(u) \/ LastAbout(u, 1)
  <2>1. SUFFICES ASSUME NEW u, Told(u)', ~Told(u) PROVE LastAbout(u, 1)
    OBVIOUS
  <2>2. ASSUME NEW j \in 1 .. n, j > 1 PROVE ~About(u, j)
    <3>1. j - 1 \in DOMAIN news' /\ news'[j - 1] = news[j]
      BY <1>2, <1>3, <1>4, <2>2
    <3>2. QED BY <2>1, <3>1 DEF Told, About
  <2>3. About(u, 1)
    BY <1>1, <1>3, <2>1, <2>2 DEF Told
  <2>4. QED BY <1>1, <2>2, <2>3 DEF LastAbout
<1>6. ASSUME NEW u, NEW k \in DOMAIN news', LastAbout(u, k)'
      PROVE  /\ k + 1 \in DOMAIN news /\ LastAbout(u, k + 1) /\ news'[k] = news[k + 1] /\ (BoardTold(k)' => BoardTold(k + 1))
             /\ ~LastAbout(u, 1) /\ ~Told(u)
  <2>1. /\ news'[k].kind = "member" /\ news'[k].who = u
        /\ \A j \in DOMAIN news' : j > k => ~(news'[j].kind = "member" /\ news'[j].who = u)
    BY <1>6 DEF LastAbout, About
  <2>2. k \in 1 .. n - 1 /\ k + 1 \in DOMAIN news /\ k + 1 > 1 /\ news'[k] = news[k + 1] /\ About(u, k + 1)
    BY <1>1, <1>2, <1>3, <2>1 DEF About
  <2>3. ASSUME NEW j \in 1 .. n, j > k + 1 PROVE ~About(u, j)
    <3>0. j - 1 \in 1 .. n - 1 /\ j - 1 > k /\ (j - 1) + 1 = j
      BY <1>3, <2>2, <2>3, Zenon
    <3>1. j - 1 \in DOMAIN news' /\ j - 1 > k /\ news'[j - 1] = news[j]
      BY <1>2, <3>0, Zenon
    <3>2. QED BY <2>1, <3>1 DEF About
  <2>4. BoardTold(k)' => BoardTold(k + 1)
    <3>1. ASSUME BoardTold(k)', NEW j \in 1 .. n, j > k + 1 PROVE news[j].kind # "board"
      <4>0. j - 1 \in 1 .. n - 1 /\ j - 1 > k /\ (j - 1) + 1 = j
        BY <1>3, <2>2, <3>1, Zenon
      <4>1. j - 1 \in DOMAIN news' /\ j - 1 > k /\ news'[j - 1] = news[j]
        BY <1>2, <4>0, Zenon
      <4>2. QED BY <3>1, <4>1 DEF BoardTold
    <3>2. QED BY <1>1, <3>1 DEF BoardTold
  <2>5. QED BY <1>1, <2>2, <2>3, <2>4 DEF LastAbout, Told
<1>7. BoardTold(0)' => BoardTold(1) /\ (Head(news).kind # "board" => BoardTold(0))
  <2>1. ASSUME BoardTold(0)', NEW j \in 1 .. n, j > 1 PROVE news[j].kind # "board"
    <3>1. j - 1 \in DOMAIN news' /\ j - 1 > 0 /\ news'[j - 1] = news[j]
      BY <1>2, <1>3, <1>4, <2>1
    <3>2. QED BY <2>1, <3>1 DEF BoardTold
  <2>2. QED BY <1>1, <1>2, <1>3, <2>1 DEF BoardTold
<1>8. \A u : Head(news).kind = "member" /\ Head(news).who = u => ~Told(u)
  BY <1>1, <1>2 DEF Told, About
<1>9. QED BY <1>1, <1>2, <1>5, <1>6, <1>7, <1>8

-----------------------------------------------------------------------------
(* What the members are told and shown.                                    *)

Sound == slips \cap RoleSlips = {}
Awaited(u) == \E c \in Under : c.do = "user" /\ c.who = u
\* The answers on their way are right, and who is a member is known or asked for.
ToldRight(u) ==
    /\ Known(client.members[u]) = rows[u]
    /\ \A c \in Answers : Known(c.what[u]) = rows[u]
    /\ rows[u] # {} => u \in client.users \/ Awaited(u)
NotBelow(u, k) == LastAbout(u, k) /\ BoardTold(k) /\ rows[u] # {} => ~Lower(rows[u], minimum)
MinimumsRight == \A c \in Answers : \A u \in People : c.what[u] # None => c.what[u].min = minimum

LEMMA RolesKnownIs ==
    RolesKnown <=>
        (~Gone /\ Sound =>
            /\ \A u \in People : Told(u) => ToldRight(u)
            /\ \A u \in People : \A k \in DOMAIN news : NotBelow(u, k)
            /\ BoardTold(0) => MinimumsRight
            /\ BoardTold(0) /\ ~Loading => \A u \in People : Told(u) => Shows(u, client.members[u]))
BY DEF RolesKnown, Sound, ToldRight, Awaited, NotBelow, MinimumsRight

ToldInv == Presence /\ NewsTell /\ RolesKnown

LEMMA StaysGone ==
    ASSUME ShareTyped, ServerStep, dialog'.shown = dialog.shown, Gone
    PROVE  Gone'
<1>1. Heard \subseteq Heard'
  <2>1. news' = news \/ \E m \in Messages : news' = Append(news, m)
    <3>1. ASSUME NEW u \in People, NEW f \in FlagsFor(u), PutMember(u, f) PROVE \E m \in Messages : news' = Append(news, m)
      <4>1. f \in SUBSET Flags
        BY DEF FlagsFor
      <4>2. QED BY <3>1, <4>1, MessagesAre DEF PutMember, Broadcast
    <3>2. ASSUME NEW min \in Minimums, PatchMinimum(min) PROVE \E m \in Messages : news' = Append(news, m)
      BY <3>2, MessagesAre, MeAssumption DEF PatchMinimum, Broadcast
    <3>3. ASSUME NEW c \in Under, c.do = "persons", PatchPersons(c.what) PROVE \E m \in Messages : news' = Append(news, m)
      <4>1. c.what \in SUBSET People
        BY <3>3 DEF ShareTyped, CallOK
      <4>2. QED BY <3>3, <4>1, MessagesAre, MeAssumption DEF PatchPersons, Broadcast
    <3>4. QED BY <3>1, <3>2, <3>3 DEF ServerStep
  <2>2. ASSUME NEW m \in Messages, news' = Append(news, m) PROVE Heard \subseteq Heard'
    BY <2>2, NewsMore
  <2>3. QED BY <2>1, <2>2 DEF Heard
<1>2. QED BY <1>1 DEF Gone

\* The part of a step that is about the tables: what was told stays right.
Quiet ==
    /\ client'.members = client.members /\ Answers' \subseteq Answers /\ (~Loading' => ~Loading)
    /\ \A u \in People : rows[u] # {} /\ (u \in client.users \/ Awaited(u)) => u \in client'.users \/ Awaited(u)'

LEMMA ServerStepTells ==
    ASSUME ShareTyped, NewsTell, ServerStep
    PROVE  NewsTell'
<1> SUFFICES ASSUME NEW v \in People, NEW k \in DOMAIN news', LastAbout(v, k)' PROVE news'[k].what = rows'[v]
  BY DEF NewsTell
<1>1. ASSUME NEW u \in People, NEW f \in FlagsFor(u), PutMember(u, f) PROVE news'[k].what = rows'[v]
  <2>1. f \in SUBSET Flags
    BY DEF FlagsFor
  <2> DEFINE m == MemberNews(u, f)
  <2>2. m \in Messages /\ m.kind = "member" /\ m.who = u /\ m.what = f
    BY <2>1, MessagesAre
  <2>3. news' = Append(news, m) /\ rows' = [rows EXCEPT ![u] = f]
    BY <1>1 DEF PutMember, Broadcast
  <2> HIDE DEF m
  <2>4. \/ m.who = v /\ news'[k] = m
        \/ m.who # v /\ k \in DOMAIN news /\ LastAbout(v, k) /\ news'[k] = news[k]
    BY <2>2, <2>3, NewsMore
  <2>5. QED BY <2>2, <2>3, <2>4, NewsAre DEF NewsTell
<1>2. ASSUME NEW m \in Messages, news' = Append(news, m), m.kind # "member", rows' = rows
      PROVE  news'[k].what = rows'[v]
  <2>1. k \in DOMAIN news /\ LastAbout(v, k) /\ news'[k] = news[k]
    BY <1>2, NewsMore
  <2>2. QED BY <1>2, <2>1 DEF NewsTell
<1>3. ASSUME NEW min \in Minimums, PatchMinimum(min) PROVE news'[k].what = rows'[v]
  <2> DEFINE m == [kind |-> "board", who |-> Me, what |-> min]
  <2>1. m \in Messages /\ m.kind # "member" /\ news' = Append(news, m) /\ rows' = rows
    BY <1>3, MessagesAre, MeAssumption DEF PatchMinimum, Broadcast
  <2> HIDE DEF m
  <2>2. QED BY <1>2, <2>1
<1>4. ASSUME NEW c \in Under, c.do = "persons", PatchPersons(c.what) PROVE news'[k].what = rows'[v]
  <2> DEFINE m == [kind |-> "card", who |-> Me, what |-> c.what]
  <2>1. c.what \in SUBSET People
    BY <1>4 DEF ShareTyped, CallOK
  <2>2. m \in Messages /\ m.kind # "member" /\ news' = Append(news, m) /\ rows' = rows
    BY <1>4, <2>1, MessagesAre, MeAssumption DEF PatchPersons, Broadcast
  <2> HIDE DEF m
  <2>3. QED BY <1>2, <2>2
<1>5. CASE UNCHANGED <<rows, minimum, persons, ever, news>>
  BY <1>5 DEF NewsTell, LastAbout, About
<1>6. QED BY <1>1, <1>3, <1>4, <1>5 DEF ServerStep

LEMMA QuietStep ==
    ASSUME ShareTyped, ToldInv, ServerStep, dialog'.shown = dialog.shown, slips \subseteq slips',
           ~Gone' /\ Sound' => Quiet
    PROVE  RolesKnown'
<1> SUFFICES ASSUME ~Gone', Sound'
             PROVE  /\ \A u \in People : Told(u)' => ToldRight(u)'
                    /\ \A u \in People : \A k \in DOMAIN news' : NotBelow(u, k)'
                    /\ BoardTold(0)' => MinimumsRight'
                    /\ BoardTold(0)' /\ ~Loading' => \A u \in People : Told(u)' => Shows(u, client.members[u])'
  BY DEF RolesKnown, Sound, ToldRight, Awaited, NotBelow, MinimumsRight
<1>1. Sound /\ ~Gone /\ Quiet
  BY StaysGone DEF Sound
<1>2. /\ \A u \in People : Told(u) => ToldRight(u)
      /\ \A u \in People : \A k \in DOMAIN news : NotBelow(u, k)
      /\ BoardTold(0) => MinimumsRight
      /\ BoardTold(0) /\ ~Loading => \A u \in People : Told(u) => Shows(u, client.members[u])
  BY <1>1, RolesKnownIs DEF ToldInv
<1> DEFINE R == /\ \A u \in People : Told(u)' => ToldRight(u)'
                /\ \A u \in People : \A k \in DOMAIN news' : NotBelow(u, k)'
                /\ BoardTold(0)' => MinimumsRight'
                /\ BoardTold(0)' /\ ~Loading' => \A u \in People : Told(u)' => Shows(u, client.members[u])'
<1>3. ASSUME NEW u \in People, rows'[u] = rows[u], ToldRight(u) PROVE ToldRight(u)'
  BY <1>1, <1>3 DEF Quiet, ToldRight
<1>4. ASSUME NEW u \in People, NEW f \in FlagsFor(u), PutMember(u, f), GivenEnough(f) PROVE R
  <2>1. f \in SUBSET Flags
    BY DEF FlagsFor
  <2> DEFINE m == MemberNews(u, f)
  <2>2. m \in Messages /\ m.kind = "member" /\ m.who = u /\ m.what = f
    BY <2>1, MessagesAre
  <2>3. news' = Append(news, m) /\ rows' = [rows EXCEPT ![u] = f] /\ minimum' = minimum
    BY <1>4 DEF PutMember, Broadcast
  <2> HIDE DEF m
  <2>4. \A v \in People : v # u => rows'[v] = rows[v]
    BY <2>3, NewsAre
  <2>5. rows'[u] = f
    BY <2>3, NewsAre
  <2>6. \A v : Told(v)' => Told(v) /\ v # u
    BY <2>2, <2>3, NewsMore
  <2>7. \A v \in People : Told(v)' => ToldRight(v)'
    BY <1>2, <1>3, <2>4, <2>6
  <2>8. ASSUME NEW v \in People, NEW k \in DOMAIN news' PROVE NotBelow(v, k)'
    <3>1. SUFFICES ASSUME LastAbout(v, k)', BoardTold(k)', rows'[v] # {} PROVE ~Lower(rows'[v], minimum)
      BY <2>3 DEF NotBelow, Lower, With
    <3>2. CASE v = u
      <4>1. "below" \notin slips'
        BY DEF Sound, RoleSlips
      <4>2. QED BY <1>4, <2>5, <3>1, <3>2, <4>1 DEF GivenEnough
    <3>3. CASE v # u
      <4>1. k \in DOMAIN news /\ LastAbout(v, k) /\ BoardTold(k)
        BY <2>2, <2>3, <3>1, <3>3, NewsMore
      <4>2. QED BY <1>2, <2>4, <3>1, <3>3, <4>1 DEF NotBelow
    <3>4. QED BY <3>2, <3>3
  <2>9. BoardTold(0)' => BoardTold(0)
    BY <2>2, <2>3, NewsMore
  <2>10. BoardTold(0)' => MinimumsRight'
    BY <1>1, <1>2, <2>3, <2>9 DEF MinimumsRight, Quiet
  <2>11. BoardTold(0)' /\ ~Loading' => \A v \in People : Told(v)' => Shows(v, client.members[v])'
    BY <1>1, <1>2, <2>3, <2>6, <2>9 DEF Quiet, Shows, Lower, With
  <2>12. QED BY <2>7, <2>8, <2>10, <2>11
<1>5. ASSUME NEW min \in Minimums, PatchMinimum(min) PROVE R
  <2> DEFINE m == [kind |-> "board", who |-> Me, what |-> min]
  <2>1. m \in Messages /\ m.kind = "board" /\ news' = Append(news, m) /\ rows' = rows
    BY <1>5, MessagesAre, MeAssumption DEF PatchMinimum, Broadcast
  <2> HIDE DEF m
  <2>2. \A v \in People : Told(v)' => ToldRight(v)'
    BY <1>2, <1>3, <2>1, NewsMore
  <2>3. \A v \in People : \A k \in DOMAIN news' : ~LastAbout(v, k)' \/ ~BoardTold(k)'
    BY <2>1, NewsMore
  <2>4. ~BoardTold(0)'
    BY <2>1, NewsMore
  <2>5. QED BY <2>2, <2>3, <2>4 DEF NotBelow
<1>6. ASSUME rows' = rows, minimum' = minimum,
             \A v : Told(v)' => Told(v),
             \A v : \A k \in DOMAIN news' : LastAbout(v, k)' =>
                    k \in DOMAIN news /\ LastAbout(v, k) /\ (BoardTold(k)' => BoardTold(k)),
             BoardTold(0)' => BoardTold(0)
      PROVE  R
  <2>1. \A v \in People : Told(v)' => ToldRight(v)'
    BY <1>2, <1>3, <1>6
  <2>2. ASSUME NEW v \in People, NEW k \in DOMAIN news' PROVE NotBelow(v, k)'
    <3>1. SUFFICES ASSUME LastAbout(v, k)', BoardTold(k)', rows'[v] # {} PROVE ~Lower(rows'[v], minimum)
      BY <1>6 DEF NotBelow, Lower, With
    <3>2. QED BY <1>2, <1>6, <3>1 DEF NotBelow
  <2>3. BoardTold(0)' => MinimumsRight'
    BY <1>1, <1>2, <1>6 DEF MinimumsRight, Quiet
  <2>4. BoardTold(0)' /\ ~Loading' => \A v \in People : Told(v)' => Shows(v, client.members[v])'
    BY <1>1, <1>2, <1>6 DEF Quiet, Shows, Lower, With
  <2>5. QED BY <2>1, <2>2, <2>3, <2>4
<1>7. ASSUME NEW c \in Under, c.do = "persons", PatchPersons(c.what) PROVE R
  <2> DEFINE m == [kind |-> "card", who |-> Me, what |-> c.what]
  <2>1. c.what \in SUBSET People
    BY <1>7 DEF ShareTyped, CallOK
  <2>2. m \in Messages /\ m.kind = "card" /\ news' = Append(news, m) /\ rows' = rows /\ minimum' = minimum
    BY <1>7, <2>1, MessagesAre, MeAssumption DEF PatchPersons, Broadcast
  <2> HIDE DEF m
  <2>3. QED BY <1>6, <2>2, NewsMore
<1>8. ASSUME UNCHANGED <<rows, minimum, persons, ever, news>> PROVE R
  BY <1>6, <1>8 DEF Told, LastAbout, About, BoardTold
<1>9. R
  BY <1>4, <1>5, <1>7, <1>8 DEF ServerStep
<1>10. QED BY <1>9

LEMMA PresenceIs ==
    Presence <=> (~Gone => rows[Me] # {} /\ \A c \in Under : c.do \in {"members", "user"} => c.answer # "refused")
BY DEF Presence

LEMMA QuietPresence ==
    ASSUME ShareTyped, Presence, ServerStep, dialog'.shown = dialog.shown,
           \A c \in Under' : c.do \in {"members", "user"} /\ c.answer = "refused" => c \in Under \/ rows[Me] = {}
    PROVE  Presence'
<1> SUFFICES ASSUME ~Gone'
             PROVE  rows'[Me] # {} /\ \A c \in Under' : c.do \in {"members", "user"} => c.answer # "refused"
  BY DEF Presence
<1>1. ~Gone
  BY StaysGone
<1>2. rows[Me] # {} /\ \A c \in Under : c.do \in {"members", "user"} => c.answer # "refused"
  BY <1>1 DEF Presence
<1>3. rows'[Me] # {}
  <2>1. ASSUME NEW u \in People, NEW f \in FlagsFor(u), PutMember(u, f) PROVE rows'[Me] # {}
    <3>1. f \in SUBSET Flags
      BY DEF FlagsFor
    <3> DEFINE m == MemberNews(u, f)
    <3>2. m \in Messages /\ m.kind = "member" /\ m.who = u /\ m.what = f
      BY <3>1, MessagesAre
    <3>3. news' = Append(news, m) /\ rows' = [rows EXCEPT ![u] = f]
      BY <2>1 DEF PutMember, Broadcast
    <3> HIDE DEF m
    <3>4. m \in Heard'
      BY <3>2, <3>3, NewsMore
    <3>5. u = Me => f # {}
      BY <3>2, <3>4 DEF Gone
    <3>6. QED BY <1>2, <3>3, <3>5, NewsAre, MeAssumption
  <2>2. QED BY <1>2, <2>1 DEF ServerStep, PatchMinimum, PatchPersons
<1>4. QED BY <1>2, <1>3

\* A step in which nothing is heard, in which the client learns nothing wrong.
LEMMA QuietTold ==
    ASSUME ShareTyped, ToldInv, ServerStep, dialog'.shown = dialog.shown, slips \subseteq slips',
           \A c \in Under' : c.do \in {"members", "user"} /\ c.answer = "refused" => c \in Under \/ rows[Me] = {},
           ~Gone' /\ Sound' => Quiet
    PROVE  ToldInv'
BY QuietStep, QuietPresence, ServerStepTells DEF ToldInv

LEMMA ClickedTold == ASSUME ShareTyped, ToldInv, Clicked PROVE ToldInv'
<1>1. PICK c : NewCall(c) /\ calls' = Append(calls, c)
  BY DEF Clicked
<1>2. Under' = Under \cup {c} /\ c.do \notin {"members", "user"}
  BY <1>1, CallAppended DEF NewCall
<1>3. UNCHANGED <<serverRows, client, news, slips>> /\ dialog'.shown = dialog.shown
  BY DEF Clicked
<1>4. ServerStep
  BY <1>3 DEF ServerStep, serverRows
<1>5. Quiet
  BY <1>2, <1>3 DEF Quiet, Answers, Loading, Awaited
<1>6. QED BY <1>2, <1>3, <1>4, <1>5, QuietTold

LEMMA PutTold == ASSUME ShareTyped, ToldInv, OnShareChanged \/ OnRegenerateToken PROVE ToldInv'
<1>1. PICK s \in Links : LET x == Asked("share", Me, s, "show", None)
                         IN /\ CallOK(x) /\ x.do = "share" /\ calls' = Append(calls, x)
                            /\ dialog' = [dialog EXCEPT !.sharing = IF dialog.sharing = None THEN None ELSE s]
  BY SharingPut
<1> DEFINE x == Asked("share", Me, s, "show", None)
<1>2. CallOK(x) /\ x.do = "share" /\ calls' = Append(calls, x)
  BY <1>1
<1>3. dialog'.shown = dialog.shown
  BY <1>1, ClientIs
<1> HIDE DEF x
<1>4. UNCHANGED <<serverRows, client, news>> /\ slips \subseteq slips'
  BY SharingPut
<1>5. Under' = Under \cup {x}
  BY <1>2, CallAppended
<1>6. ServerStep
  BY <1>4 DEF ServerStep, serverRows
<1>7. Quiet
  BY <1>2, <1>4, <1>5 DEF Quiet, Answers, Loading, Awaited
<1>8. QED BY <1>2, <1>3, <1>4, <1>5, <1>6, <1>7, QuietTold

LEMMA OthersTold == ASSUME ShareTyped, ToldInv, Other \/ OtherBoard PROVE ToldInv'
<1>1. ServerStep /\ slips \subseteq slips' /\ UNCHANGED <<client, dialog, calls>>
  BY OthersAre
<1>2. Quiet /\ Under' = Under
  BY <1>1 DEF Quiet, Answers, Loading, Awaited, Under
<1>3. QED BY <1>1, <1>2, QuietTold

LEMMA ServeTold == ASSUME ShareTyped, ToldInv, NEW i \in DOMAIN calls, ServeShare(i) PROVE ToldInv'
<1> DEFINE c == calls[i]
<1>1. /\ c \in Under /\ c.answer = "none" /\ ServerStep /\ slips \subseteq slips' /\ UNCHANGED <<client, dialog>>
  BY ServedIs
<1>2. PICK a \in Trips : AnswerTo(c, a) /\ calls' = [calls EXCEPT ![i] = a]
  BY ServedIs
<1>3. /\ Under' \subseteq Under \cup {a} /\ a \in Under' /\ \A d \in Under : d = c \/ d \in Under'
  BY <1>2, CallAnswered DEF AnswerTo
<1>4. /\ a.do = c.do /\ a.who = c.who
      /\ a.do \in {"members", "user"} /\ a.answer = "refused" => rows[Me] = {}
      /\ a.do = "members" => a.what = MembersNow /\ UNCHANGED <<serverRows, news>>
  BY <1>2 DEF AnswerTo
<1>5. (~Loading' => ~Loading) /\ \A u \in People : Awaited(u) => Awaited(u)'
  BY <1>3, <1>4 DEF Loading, Awaited
<1>6. CASE c.do # "members"
  <2>1. Answers' \subseteq Answers
    BY <1>3, <1>4, <1>6 DEF Answers
  <2>2. Quiet
    BY <1>1, <1>5, <2>1 DEF Quiet
  <2>3. QED BY <1>1, <1>3, <1>4, <2>2, QuietTold
<1>7. CASE c.do = "members"
  <2>1. UNCHANGED <<rows, minimum, news, client, dialog>> /\ a.what = MembersNow
    BY <1>1, <1>4, <1>7 DEF serverRows
  <2>2. Presence'
    BY <1>1, <1>3, <1>4, QuietPresence DEF ToldInv
  <2>3. NewsTell'
    BY <1>1, ServerStepTells DEF ToldInv
  <2>4. RolesKnown'
    <3> SUFFICES ASSUME ~Gone', Sound'
                 PROVE  /\ \A u \in People : Told(u)' => ToldRight(u)'
                        /\ \A u \in People : \A k \in DOMAIN news' : NotBelow(u, k)'
                        /\ BoardTold(0)' => MinimumsRight'
                        /\ BoardTold(0)' /\ ~Loading' => \A u \in People : Told(u)' => Shows(u, client.members[u])'
      BY DEF RolesKnown, Sound, ToldRight, Awaited, NotBelow, MinimumsRight
    <3>1. ~Gone /\ Sound
      BY <1>1, <2>1 DEF Gone, Heard, Sound
    <3>2. /\ \A u \in People : Told(u) => ToldRight(u)
          /\ \A u \in People : \A k \in DOMAIN news : NotBelow(u, k)
          /\ BoardTold(0) => MinimumsRight
      BY <3>1, RolesKnownIs DEF ToldInv
    <3>3. Answers' \subseteq Answers \cup {a}
      BY <1>3 DEF Answers
    <3>4. /\ \A u \in People : Known(a.what[u]) = rows[u]
          /\ \A u \in People : a.what[u] # None => a.what[u].min = minimum
      <4>1. \A u \in People : MembersNow[u] # None => MembersNow[u].min = minimum
        BY DEF MembersNow, Membership
      <4>2. QED BY <2>1, <4>1, MembersNowOK
    <3>5. \A u \in People : Told(u)' => ToldRight(u)'
      BY <1>5, <2>1, <3>2, <3>3, <3>4 DEF ToldRight, Told, About
    <3>6. \A u \in People : \A k \in DOMAIN news' : NotBelow(u, k)'
      BY <2>1, <3>2 DEF NotBelow, LastAbout, About, BoardTold, Lower, With
    <3>7. BoardTold(0)' => MinimumsRight'
      BY <2>1, <3>2, <3>3, <3>4 DEF MinimumsRight, BoardTold
    <3>8. Loading'
      BY <1>3, <1>4, <1>7 DEF Loading
    <3>9. QED BY <3>5, <3>6, <3>7, <3>8
  <2>5. QED BY <2>2, <2>3, <2>4 DEF ToldInv
<1>8. QED BY <1>6, <1>7

LEMMA LoseTold == ASSUME ShareTyped, ToldInv, NEW i \in DOMAIN calls, LoseShare(i) PROVE ToldInv'
<1>1. /\ "failed" \in slips' /\ calls' = RemoveAt(calls, i) /\ slips \subseteq slips'
      /\ UNCHANGED <<serverRows, client, dialog, news>>
  BY DEF LoseShare
<1>2. Under' \subseteq Under
  BY <1>1, CallRemoved
<1>3. ServerStep
  BY <1>1 DEF ServerStep, serverRows
<1>4. ~Sound'
  BY <1>1 DEF Sound, RoleSlips
<1>5. QED BY <1>1, <1>2, <1>3, <1>4, QuietTold

LEMMA ReceiveTold == ASSUME ShareTyped, ToldInv, NEW i \in DOMAIN calls, ReceiveShare(i) PROVE ToldInv'
<1> DEFINE c == calls[i]
<1>1. /\ c \in Under /\ CallOK(c) /\ c.answer \in {"ok", "refused"} /\ UNCHANGED <<serverRows, news>>
      /\ \/ calls' = RemoveAt(calls, i)
         \/ \E x \in Trips : Follows(c, x) /\ calls' = Append(RemoveAt(calls, i), x)
  BY ReceivedIs
<1>2. /\ dialog'.shown = dialog.shown
      /\ \/ c.do \in {"create", "update", "board", "persons", "share", "sharing", "delete"}
            /\ client'.members = client.members /\ client'.users = client.users /\ slips' = slips
         \/ c.do = "delete" /\ client'.members = client.members
            /\ client'.users = client.users \ {c.who}
            /\ slips' = slips \cup IF rows[c.who] # {} THEN {"hidden"} ELSE {}
         \/ c.do = "members" /\ c.answer = "ok" /\ client'.members = c.what
            /\ client'.users = {u \in People : c.what[u] # None} /\ slips' = slips
         \/ c.do \in {"members", "user"} /\ c.answer = "refused" /\ client'.members = client.members
            /\ client'.users \in SUBSET client.users /\ slips' = slips
         \/ c.do = "user" /\ c.answer = "ok" /\ client'.members = client.members
            /\ client'.users = client.users \cup {c.who} /\ slips' = slips
  BY ReceivedClient
<1>3. /\ \A d \in Under : d = c \/ d \in Under'
      /\ \A d \in Under' : d \in Under \/ (d.answer = "none" /\ d.do # "members")
  <2>1. CASE calls' = RemoveAt(calls, i)
    BY <2>1, CallRemoved
  <2>2. CASE \E x \in Trips : Follows(c, x) /\ calls' = Append(RemoveAt(calls, i), x)
    <3>1. PICK x \in Trips : Follows(c, x) /\ calls' = Append(RemoveAt(calls, i), x)
      BY <2>2
    <3>2. x.answer = "none" /\ x.do # "members" /\ CallOK(x)
      BY <3>1 DEF Follows
    <3>3. QED BY <3>1, <3>2, CallFollowed
  <2>3. QED BY <1>1, <2>1, <2>2
<1>4. ServerStep /\ slips \subseteq slips' /\ rows' = rows
  BY <1>1, <1>2 DEF ServerStep, serverRows
<1>5. /\ Answers' \subseteq Answers
      /\ c.do # "members" => (~Loading' => ~Loading)
      /\ \A u \in People : Awaited(u) => Awaited(u)' \/ (c.do = "user" /\ c.who = u)
      /\ \A d \in Under' : d.do \in {"members", "user"} /\ d.answer = "refused" => d \in Under
  BY <1>3 DEF Answers, Loading, Awaited
<1>6. c.do \in {"members", "user"} /\ c.answer = "refused" => Gone'
  <2>1. c.do \in {"members", "user"} /\ c.answer = "refused" => Gone
    BY <1>1 DEF ToldInv, Presence
  <2>2. QED BY <1>2, <1>4, <2>1, StaysGone
<1>7. CASE c.do # "members"
  <2>1. ASSUME ~Gone', Sound' PROVE Quiet
    <3>1. ASSUME NEW u \in People, rows[u] # {}, u \in client.users \/ Awaited(u)
          PROVE  u \in client'.users \/ Awaited(u)'
      <4>1. CASE c.do \in {"create", "update", "board", "persons", "share", "sharing", "delete"} /\ client'.users = client.users
        BY <1>5, <3>1, <4>1
      <4>2. CASE c.do = "delete" /\ client'.users = client.users \ {c.who}
                 /\ slips' = slips \cup IF rows[c.who] # {} THEN {"hidden"} ELSE {}
        <5>1. rows[c.who] = {}
          BY <2>1, <4>2 DEF Sound, RoleSlips
        <5>2. QED BY <1>5, <3>1, <4>2, <5>1
      <4>3. CASE c.do = "user" /\ client'.users = client.users \cup {c.who}
        BY <1>5, <3>1, <4>3
      <4>4. QED BY <1>2, <1>6, <1>7, <2>1, <4>1, <4>2, <4>3
    <3>2. client'.members = client.members
      BY <1>2, <1>7
    <3>3. QED BY <1>5, <1>7, <3>1, <3>2 DEF Quiet
  <2>2. QED BY <1>2, <1>4, <1>5, <2>1, QuietTold
<1>8. CASE c.do = "members"
  <2>1. UNCHANGED <<rows, minimum, news>>
    BY <1>1 DEF serverRows
  <2>2. Presence' /\ NewsTell'
    BY <1>2, <1>4, <1>5, QuietPresence, ServerStepTells DEF ToldInv
  <2>3. RolesKnown'
    <3> SUFFICES ASSUME ~Gone', Sound'
                 PROVE  /\ \A u \in People : Told(u)' => ToldRight(u)'
                        /\ \A u \in People : \A k \in DOMAIN news' : NotBelow(u, k)'
                        /\ BoardTold(0)' => MinimumsRight'
                        /\ BoardTold(0)' /\ ~Loading' => \A u \in People : Told(u)' => Shows(u, client.members[u])'
      BY DEF RolesKnown, Sound, ToldRight, Awaited, NotBelow, MinimumsRight
    <3>1. ~Gone /\ Sound
      BY <1>2, <1>4, StaysGone DEF Sound
    <3>2. /\ \A u \in People : Told(u) => ToldRight(u)
          /\ \A u \in People : \A k \in DOMAIN news : NotBelow(u, k)
          /\ BoardTold(0) => MinimumsRight
      BY <3>1, RolesKnownIs DEF ToldInv
    <3>3. c.answer = "ok" /\ client'.members = c.what /\ client'.users = {u \in People : c.what[u] # None} /\ c \in Answers
      BY <1>1, <1>2, <1>6, <1>8 DEF Answers
    <3>4. ListOK(c.what)
      BY <1>1, <1>8, <3>3 DEF CallOK
    <3>5. ASSUME NEW u \in People, Told(u)' PROVE ToldRight(u)'
      <4>1. ToldRight(u)
        BY <2>1, <3>2, <3>5 DEF Told, About
      <4>2. Known(c.what[u]) = rows[u]
        BY <3>3, <4>1 DEF ToldRight
      <4>3. rows[u] # {} => u \in client'.users
        BY <3>3, <4>2 DEF Known
      <4>4. QED BY <1>5, <2>1, <3>3, <4>1, <4>2, <4>3 DEF ToldRight
    <3>6. \A u \in People : \A k \in DOMAIN news' : NotBelow(u, k)'
      BY <2>1, <3>2 DEF NotBelow, LastAbout, About, BoardTold, Lower, With
    <3>7. BoardTold(0)' => MinimumsRight'
      BY <1>5, <2>1, <3>2 DEF MinimumsRight, BoardTold
    <3>8. BoardTold(0)' => \A u \in People : Shows(u, client.members[u])'
      BY <2>1, <3>2, <3>3 DEF MinimumsRight, BoardTold, Shows
    <3>9. QED BY <3>5, <3>6, <3>7, <3>8
  <2>4. QED BY <2>2, <2>3 DEF ToldInv
<1>9. QED BY <1>7, <1>8, SMTT(40)

LEMMA HearTold == ASSUME ShareTyped, ToldInv, Hear PROVE ToldInv'
<1>0. PICK m : m = Head(news)
  OBVIOUS
<1>1. /\ m \in Messages /\ m \in Heard /\ news' = Tail(news) /\ news # <<>> /\ slips \subseteq slips'
      /\ Heard' \subseteq Heard /\ (\A n \in Heard : n = m \/ n \in Heard')
      /\ UNCHANGED <<rows, minimum>>
      /\ (m.kind = "member" /\ HeardMember(m)) \/ (m.kind = "board" /\ HeardBoard) \/ (m.kind = "card" /\ HeardCard(m))
  BY <1>0, HearIs DEF serverRows
<1>2. /\ 1 \in DOMAIN news /\ news[1] = m
      /\ \A u : Told(u)' => Told(u) \/ LastAbout(u, 1)
      /\ \A u : \A k \in DOMAIN news' : LastAbout(u, k)' =>
            \E j \in DOMAIN news : LastAbout(u, j) /\ news'[k] = news[j] /\ (BoardTold(k)' => BoardTold(j))
      /\ BoardTold(0)' => BoardTold(1) /\ (m.kind # "board" => BoardTold(0))
      /\ \A u : m.kind = "member" /\ m.who = u => ~Told(u)
  BY <1>0, <1>1, NewsLess
<1>3. \/ calls' = calls
      \/ \E x \in Trips : /\ CallOK(x) /\ x.do \in {"user", "members"} /\ x.answer = "none"
                          /\ calls' = Append(calls, x)
                          /\ m.kind = "member" => x.do = "user" /\ x.who = m.who /\ m.what # {}
                          /\ m.kind = "board" => x.do = "members"
                          /\ m.kind # "card"
  BY <1>1 DEF HeardMember, HeardBoard, HeardCard
<1>4. /\ Under \subseteq Under' /\ Answers' \subseteq Answers
      /\ \A d \in Under' : d \in Under \/ d.answer = "none"
      /\ m.kind = "board" => Loading'
      /\ m.kind = "member" => m.what = {} \/ m.who \in client.users \/ Awaited(m.who)'
  <2>1. CASE calls' = calls
    <3>1. Under' = Under /\ Answers' = Answers
      BY <2>1 DEF Under, Answers
    <3>2. m.kind = "board" => Loading'
      <4>1. SUFFICES ASSUME HeardBoard, m.kind = "board" PROVE Loading'
        BY <1>1
      <4>2. PICK x \in Trips : CallOK(x) /\ x.do = "members" /\ x.answer = "none" /\ calls' = Append(calls, x)
        BY <4>1 DEF HeardBoard
      <4>3. QED BY <4>2, CallAppended DEF Loading
    <3>3. m.kind = "member" => m.what = {} \/ m.who \in client.users \/ Awaited(m.who)'
      <4>1. SUFFICES ASSUME HeardMember(m), m.kind = "member", m.what # {}, m.who \notin client.users PROVE Awaited(m.who)'
        BY <1>1
      <4>2. PICK x \in Trips : CallOK(x) /\ x.do = "user" /\ x.who = m.who /\ calls' = Append(calls, x)
        BY <4>1 DEF HeardMember
      <4>3. QED BY <4>2, CallAppended DEF Awaited
    <3>4. QED BY <3>1, <3>2, <3>3
  <2>2. CASE \E x \in Trips : /\ CallOK(x) /\ x.do \in {"user", "members"} /\ x.answer = "none"
                              /\ calls' = Append(calls, x)
                              /\ m.kind = "member" => x.do = "user" /\ x.who = m.who /\ m.what # {}
                              /\ m.kind = "board" => x.do = "members"
                              /\ m.kind # "card"
    <3>1. PICK x \in Trips : /\ CallOK(x) /\ x.do \in {"user", "members"} /\ x.answer = "none"
                             /\ calls' = Append(calls, x)
                             /\ m.kind = "member" => x.do = "user" /\ x.who = m.who /\ m.what # {}
                             /\ m.kind = "board" => x.do = "members"
                             /\ m.kind # "card"
      BY <2>2
    <3>2. Under' = Under \cup {x}
      BY <3>1, CallAppended
    <3>3. QED BY <3>1, <3>2 DEF Answers, Loading, Awaited
  <2>3. QED BY <1>3, <2>1, <2>2
<1>5. Gone => Gone'
  <2>1. ~dialog.shown => ~dialog'.shown
    BY <1>1 DEF HeardMember, HeardBoard, HeardCard
  <2>2. m.kind = "member" /\ m.who = Me /\ m.what = {} => ~dialog'.shown
    BY <1>1 DEF HeardMember
  <2>3. QED BY <1>1, <2>1, <2>2 DEF Gone
<1>6. Presence'
  BY <1>1, <1>4, <1>5 DEF ToldInv, Presence
<1>7. NewsTell'
  <2> SUFFICES ASSUME NEW u \in People, NEW k \in DOMAIN news', LastAbout(u, k)' PROVE news'[k].what = rows'[u]
    BY DEF NewsTell
  <2>1. PICK j \in DOMAIN news : LastAbout(u, j) /\ news'[k] = news[j] /\ (BoardTold(k)' => BoardTold(j))
    BY <1>2
  <2>2. QED BY <1>1, <2>1 DEF ToldInv, NewsTell
<1>8. RolesKnown'
  <2> SUFFICES ASSUME ~Gone', Sound'
               PROVE  /\ \A u \in People : Told(u)' => ToldRight(u)'
                      /\ \A u \in People : \A k \in DOMAIN news' : NotBelow(u, k)'
                      /\ BoardTold(0)' => MinimumsRight'
                      /\ BoardTold(0)' /\ ~Loading' => \A u \in People : Told(u)' => Shows(u, client.members[u])'
    BY DEF RolesKnown, Sound, ToldRight, Awaited, NotBelow, MinimumsRight
  <2>1. ~Gone /\ Sound
    BY <1>1, <1>5 DEF Sound
  <2>2. /\ \A u \in People : Told(u) => ToldRight(u)
        /\ \A u \in People : \A k \in DOMAIN news : NotBelow(u, k)
        /\ BoardTold(0) => MinimumsRight
        /\ BoardTold(0) /\ ~Loading => \A u \in People : Told(u) => Shows(u, client.members[u])
    BY <2>1, RolesKnownIs DEF ToldInv
  <2>3. ASSUME NEW u \in People, NEW k \in DOMAIN news' PROVE NotBelow(u, k)'
    <3>1. SUFFICES ASSUME LastAbout(u, k)', BoardTold(k)', rows[u] # {} PROVE ~Lower(rows[u], minimum)
      BY <1>1 DEF NotBelow, Lower, With
    <3>2. PICK j \in DOMAIN news : LastAbout(u, j) /\ news'[k] = news[j] /\ (BoardTold(k)' => BoardTold(j))
      BY <1>2, <3>1
    <3>3. QED BY <2>2, <3>1, <3>2 DEF NotBelow
  <2>4. BoardTold(0)' => MinimumsRight'
    <3>1. CASE m.kind = "board" \/ m.kind = "member"
      <4>1. Answers = {}
        BY <1>1, <3>1 DEF HeardMember, HeardBoard, Sound, RoleSlips
      <4>2. QED BY <1>4, <4>1 DEF MinimumsRight
    <3>2. CASE m.kind # "board"
      BY <1>1, <1>2, <1>4, <2>2, <3>2 DEF MinimumsRight
    <3>3. QED BY <3>1, <3>2
  <2>5. ASSUME m.kind # "member", NEW u \in People, Told(u)'
        PROVE  ToldRight(u)' /\ (BoardTold(0)' /\ ~Loading' => Shows(u, client.members[u])')
    <3>1. client'.members = client.members /\ client'.users = client.users
      BY <1>1, <2>5 DEF HeardBoard, HeardCard
    <3>2. Told(u)
      BY <1>2, <2>5 DEF LastAbout, About
    <3>3. ToldRight(u)'
      BY <1>1, <1>4, <2>2, <3>1, <3>2 DEF ToldRight, Awaited
    <3>4. ASSUME BoardTold(0)', ~Loading' PROVE Shows(u, client.members[u])'
      <4>1. m.kind # "board" /\ BoardTold(0)
        BY <1>2, <1>4, <3>4
      <4>2. ~Loading
        BY <1>4, <3>4 DEF Loading
      <4>3. QED BY <1>1, <2>2, <3>1, <3>2, <4>1, <4>2 DEF Shows, Lower, With
    <3>5. QED BY <3>3, <3>4
  <2>6. ASSUME m.kind = "member", NEW u \in People, Told(u)'
        PROVE  ToldRight(u)' /\ (BoardTold(0)' /\ ~Loading' => Shows(u, client.members[u])')
    <3> DEFINE e == IF m.what = {} THEN None ELSE Membership(m.what, "none")
    <3>1. /\ m.who \in People /\ m.what \in FlagsFor(m.who)
          /\ client'.members = [client.members EXCEPT ![m.who] = e]
          /\ client'.users = IF m.what = {} THEN client.users \ {m.who} ELSE client.users
          /\ Answers = {}
      BY <1>1, <2>6 DEF HeardMember, Sound, RoleSlips
    <3>2. client.members \in [People -> Memberships \cup {None}]
      BY ClientIs
    <3>3. \A v \in People : client'.members[v] = IF v = m.who THEN e ELSE client.members[v]
      BY <3>1, <3>2
    <3>4. Answers' = {} /\ (\A v \in People : Awaited(v) => Awaited(v)') /\ (~Loading' => ~Loading)
      BY <1>4, <3>1 DEF Awaited, Loading
    <3>5. BoardTold(0)' => BoardTold(1) /\ BoardTold(0)
      BY <1>2, <2>6
    <3>6. CASE u # m.who
      <4>1. Told(u)
        BY <1>2, <2>6, <3>6 DEF LastAbout, About
      <4>2. client'.members[u] = client.members[u] /\ (u \in client.users => u \in client'.users)
        BY <3>1, <3>3, <3>6
      <4>3. ToldRight(u)'
        BY <1>1, <2>2, <3>4, <4>1, <4>2 DEF ToldRight
      <4>4. QED BY <1>1, <2>2, <3>4, <3>5, <4>1, <4>2, <4>3 DEF Shows, Lower, With
    <3>7. CASE u = m.who
      <4>1. LastAbout(u, 1)
        BY <1>2, <2>6, <3>7
      <4>2. m.what = rows[u]
        BY <1>2, <4>1 DEF ToldInv, NewsTell
      <4>3. /\ client'.members[u] = e
            /\ e # None => rows[u] # {} /\ e.flags = rows[u] /\ e.min = "none"
            /\ e = None => rows[u] = {}
        <5>1. m.what \in SUBSET Flags
          BY <3>1 DEF FlagsFor
        <5>2. /\ Membership(m.what, "none") \in [flags : SUBSET Flags, min : Minimums]
              /\ Membership(m.what, "none").flags = m.what /\ Membership(m.what, "none").min = "none"
          BY <5>1 DEF Membership, Minimums
        <5>3. Membership(m.what, "none") # None
          BY <5>2, NoneAssumption
        <5>4. QED BY <3>3, <3>7, <4>2, <5>2, <5>3
      <4> HIDE DEF e
      <4>4. Known(client'.members[u]) = rows[u]
        BY <4>3 DEF Known
      <4>5. rows[u] # {} => u \in client'.users \/ Awaited(u)'
        BY <1>4, <2>6, <3>1, <3>7, <4>2
      <4>6. ToldRight(u)'
        BY <1>1, <3>4, <4>4, <4>5 DEF ToldRight
      <4>7. BoardTold(0)' => Shows(u, client.members[u])'
        <5>1. ASSUME BoardTold(0)', rows[u] # {} PROVE ~Lower(rows[u], minimum)
          BY <1>2, <2>2, <3>5, <4>1, <5>1 DEF NotBelow
        <5>2. QED BY <1>1, <4>3, <5>1 DEF Shows, Lower, With
      <4>8. QED BY <4>6, <4>7
    <3>8. QED BY <3>6, <3>7
  <2>7. \A u \in People : Told(u)' => ToldRight(u)' /\ (BoardTold(0)' /\ ~Loading' => Shows(u, client.members[u])')
    BY <2>5, <2>6
  <2>8. QED BY <2>3, <2>4, <2>7
<1>9. QED BY <1>6, <1>7, <1>8 DEF ToldInv

LEMMA InitTold == ASSUME ShareInit, ShareTyped PROVE ToldInv
<1>1. PICK r \in [People -> {{}} \cup {UpdatedFlags(role) : role \in Flags}], min \in Minimums,
       sharing \in {None} \cup [token : {1}, on : BOOLEAN], loaded \in BOOLEAN, set \in SUBSET People :
        /\ "admin" \in r[Me] /\ \A u \in Guests : "admin" \notin r[u]
        /\ \A u \in set : r[u] # {}
        /\ StartOf(r, min, sharing, loaded, set)
  BY DEF ShareInit
<1>2. /\ rows = r /\ minimum = min /\ ever = {u \in People : r[u] # {}}
      /\ client.members = MembersNow /\ client.users = ever
      /\ dialog.shown /\ calls = (IF loaded THEN <<>> ELSE <<Reload("sharing")>>)
      /\ news = <<>>
  BY <1>1 DEF StartOf
<1>3. \A c \in Under : c.do = "sharing"
  <2>1. \A c \in Under : c = Reload("sharing")
    BY <1>2 DEF Under, Elems
  <2>2. Reload("sharing").do = "sharing"
    BY AskedIs DEF Reload
  <2>3. QED BY <2>1, <2>2
<1>4. Heard = {} /\ DOMAIN news = {}
  BY <1>2 DEF Heard, Elems
<1>5. Presence /\ NewsTell
  BY <1>1, <1>2, <1>3, <1>4 DEF Presence, NewsTell
<1>6. Answers = {}
  BY <1>3 DEF Answers
<1>7. \A u \in People : Known(client.members[u]) = rows[u] /\ (rows[u] # {} => u \in client.users)
  BY <1>2, MembersNowOK
<1>8. \A u \in People : Shows(u, client.members[u])
  BY <1>2 DEF Shows, MembersNow, Membership
<1>9. RolesKnown
  BY <1>4, <1>6, <1>7, <1>8 DEF RolesKnown
<1>10. QED BY <1>5, <1>9 DEF ToldInv

LEMMA StepTold == ASSUME ShareTyped, ToldInv, [ShareNext]_shareVars PROVE ToldInv'
<1>1. CASE UNCHANGED shareVars
  <2>1. ServerStep /\ Quiet /\ Under' = Under /\ dialog' = dialog /\ slips' = slips
    BY <1>1 DEF shareVars, ServerStep, Quiet, Answers, Loading, Awaited, Under
  <2>2. QED BY <2>1, QuietTold
<1>2. QED BY <1>1, ShareSteps, ClickedTold, PutTold, HearTold, OthersTold, ServeTold, ReceiveTold, LoseTold

-----------------------------------------------------------------------------
(* What follows once all is answered and heard.                            *)

\* The dialog lists exactly the members, each with the role the server grants him.
LEMMA RestRoles == ASSUME ShareTyped, ToldInv PROVE RolesAreShown
<1> SUFFICES ASSUME AtRest, slips \cap RoleSlips = {}
             PROVE  /\ ListedMembers = {u \in People : rows[u] # {}}
                    /\ \A u \in ListedMembers : ShownRole(client.members[u]) = Effective(u)
  BY DEF RolesAreShown, RoleSlips
<1>1. Under = {} /\ Heard = {} /\ DOMAIN news = {} /\ dialog.shown
  BY DEF AtRest, Under, Heard, Elems
<1>2. ~Gone /\ ~Loading /\ BoardTold(0) /\ \A u : Told(u) /\ ~Awaited(u)
  BY <1>1 DEF Gone, Loading, BoardTold, Told, Awaited
<1>3. \A u \in People : /\ Known(client.members[u]) = rows[u] /\ (rows[u] # {} => u \in client.users)
                        /\ Shows(u, client.members[u])
  BY <1>2, RolesKnownIs DEF ToldInv, Sound, ToldRight
<1>4. /\ ListOK(client.members) /\ client.members \in [People -> Memberships \cup {None}]
      /\ client.users \in SUBSET People
  BY ClientIs
<1>5. \A u \in People : client.members[u] # None => client.members[u].flags = rows[u] /\ rows[u] # {}
  BY <1>3, <1>4 DEF Known, ListOK, Given
<1>6. \A u \in People : client.members[u] = None => rows[u] = {}
  BY <1>3 DEF Known
<1>7. ListedMembers = {u \in People : rows[u] # {}}
  BY <1>3, <1>4, <1>5, <1>6 DEF ListedMembers, ClientMembers
<1>8. ASSUME NEW u \in ListedMembers PROVE ShownRole(client.members[u]) = Effective(u)
  <2>1. u \in People /\ client.members[u] # None
    BY DEF ListedMembers, ClientMembers
  <2>2. client.members[u] \in Memberships /\ client.members[u].flags = rows[u] /\ rows[u] # {}
    BY <1>4, <1>5, <2>1
  <2>3. rows[u] \in SUBSET Flags /\ minimum \in Minimums
    BY <2>1, NewsAre
  <2>4. client.members[u].min = minimum \/ (client.members[u].min = "none" /\ ~Lower(rows[u], minimum))
    BY <1>3, <2>1, <2>2 DEF Shows
  <2>5. QED BY <2>2, <2>3, <2>4, ShownIsGranted DEF Effective
<1>9. QED BY <1>7, <1>8

\* The switch and the link are those the server has.
LEMMA RestLink == ASSUME LinkKnown PROVE LinkIsObeyed
<1> SUFFICES ASSUME AtRest, slips \cap LinkSlips = {}
             PROVE  /\ ShownLink = (IF link = None THEN None ELSE IF link.on THEN link.token ELSE None)
                    /\ link # None /\ link.token # 1 => slips \cap {"renewed", "blind"} # {}
  BY DEF LinkIsObeyed, LinkSlips
<1>1. Under = {}
  BY DEF AtRest, Under, Elems
<1>2. dialog.sharing = link /\ (slips \cap {"renewed", "blind"} = {} => (link # None => link.token = 1))
  BY <1>1 DEF LinkKnown
<1>3. QED BY <1>2 DEF ShownLink, isSharing

-----------------------------------------------------------------------------
\* The inductive invariant.
ShareInv == ShareTyped /\ PersonsKnown /\ LinkKnown /\ ToldInv

LEMMA ShareInvariant == ShareSpec => []ShareInv
<1>1. ShareInit => ShareInv
  BY InitTyped, InitPersons, InitLink, InitTold DEF ShareInv
<1>2. ShareInv /\ [ShareNext]_shareVars => ShareInv'
  BY StepTyped, StepPersons, StepLink, StepTold DEF ShareInv
<1>3. QED BY <1>1, <1>2, PTL DEF ShareSpec

\* What the dialog `Share' shows and does is what the server has: once all is
\* answered and heard, the members listed, their roles, the link and the persons of
\* a card (UserPermissionsRow, ShareBoardDialog, the selector of persons), for any
\* number of people, guests, clicks and acts of others.
THEOREM ShareIsAgreed == ShareSpec => []ShareAgrees
<1>1. ShareTyped => ShareTypeOK
  <2>1. ASSUME ShareTyped PROVE ShareTypeOK
    <3>1. client.mine \subseteq Flags /\ client.users \subseteq People
      BY <2>1, ClientIs
    <3>2. QED BY <2>1, <3>1 DEF ShareTyped, ShareTypeOK
  <2>2. QED BY <2>1
<1>2. PersonsKnown => PersonsAreMembers
  BY DEF PersonsKnown, PersonsAreMembers
<1>3. ShareInv => ShareAgrees
  BY <1>1, <1>2, RestRoles, RestLink DEF ShareInv, ShareAgrees
<1>4. QED BY <1>3, ShareInvariant, PTL
-----------------------------------------------------------------------------
\* The token an answer under way brings, if any.
Brings(s, i) == IF s[i].answer = Waiting THEN NoToken ELSE s[i].answer.token

\* A token under way to the client is the answer to one login, and nobody has
\* used, stored or given it back yet.
Fresh(s, i) ==
    LET t == Brings(s, i)
    IN  t # NoToken =>
            /\ t \in given \ left /\ t # token
            /\ \A j \in DOMAIN s : s[j].token # t /\ (j # i => Brings(s, j) # t)

\* Requests whose answers are of a set: what the server wrote may be anything.
AskedWith(answers) == [call : Calls, token : Tokens \cup {NoToken}, answer : answers]
SentTyped(s) == \E answers : s \in Seq(AskedWith(answers))

\* While calls are under way: what the client stores and sends was given to it.
CallsInv ==
    /\ CallsTypeOK /\ LeftForGood /\ SentTyped(sent)
    /\ \A i \in DOMAIN sent : Brings(sent, i) \in given \cup {NoToken} /\ Fresh(sent, i)

\* Requests with some answers are requests with more of them.
LEMMA MoreAnswers ==
    ASSUME NEW A, NEW B, A \subseteq B, NEW s \in Seq(AskedWith(A)) PROVE s \in Seq(AskedWith(B))
<1>1. AskedWith(A) \subseteq AskedWith(B)
  BY DEF AskedWith
<1>2. QED BY <1>1

\* The calls that remain when one is removed bring what they brought.
WithoutOne(w, s, i) ==
    /\ SentTyped(w) /\ Len(w) <= Len(s)
    /\ \A k \in DOMAIN w : \E o \in DOMAIN s :
          /\ o # i /\ w[k].token = s[o].token /\ Brings(w, k) = Brings(s, o)
          /\ \A j \in DOMAIN w : j # k => \E p \in DOMAIN s :
                 p # i /\ p # o /\ w[j].token = s[p].token /\ Brings(w, j) = Brings(s, p)
LEMMA RemainingBring ==
    ASSUME NEW s, SentTyped(s), NEW i \in DOMAIN s
    PROVE  WithoutOne(RemoveAt(s, i), s, i)
<1> DEFINE w == RemoveAt(s, i)
<1>1. PICK answers : s \in Seq(AskedWith(answers))
  BY DEF SentTyped
<1>2. /\ RemoveAt(s, i) \in Seq(AskedWith(answers)) /\ DOMAIN RemoveAt(s, i) = 1 .. Len(s) - 1
      /\ \A j \in DOMAIN RemoveAt(s, i) : RemoveAt(s, i)[j] = s[IF j < i THEN j ELSE j + 1]
  BY <1>1, Removed
<1> HIDE DEF w
<1>3. /\ w \in Seq(AskedWith(answers)) /\ DOMAIN w = 1 .. Len(s) - 1
      /\ \A j \in DOMAIN w : w[j] = s[IF j < i THEN j ELSE j + 1]
  BY <1>2 DEF w
<1>4. DOMAIN s = 1 .. Len(s) /\ Len(s) \in Nat /\ i \in 1 .. Len(s)
  BY <1>1
<1>5. SentTyped(w)
  BY <1>3 DEF SentTyped
<1>6. Len(w) <= Len(s)
  BY <1>3, <1>4
<1>7. ASSUME NEW k \in DOMAIN w
      PROVE  \E o \in DOMAIN s :
                 /\ o # i /\ w[k].token = s[o].token /\ Brings(w, k) = Brings(s, o)
                 /\ \A j \in DOMAIN w : j # k => \E p \in DOMAIN s :
                        p # i /\ p # o /\ w[j].token = s[p].token /\ Brings(w, j) = Brings(s, p)
  <2> DEFINE at(j) == IF j < i THEN j ELSE j + 1
  <2>1. ASSUME NEW j \in DOMAIN w
        PROVE  /\ at(j) \in DOMAIN s /\ at(j) # i /\ w[j].token = s[at(j)].token
               /\ Brings(w, j) = Brings(s, at(j))
    BY <1>3, <1>4 DEF Brings
  <2>2. ASSUME NEW j \in DOMAIN w, j # k PROVE at(j) # at(k)
    BY <1>3, <1>4, <2>2
  <2> HIDE DEF at
  <2>3. QED BY <2>1, <2>2
<1>8. WithoutOne(w, s, i)
  BY <1>5, <1>6, <1>7 DEF WithoutOne
<1>9. QED BY <1>8 DEF w

\* A request without its answer.
LEMMA RequestSent ==
    ASSUME CallsInv, NEW call \in Calls, Send(call) PROVE CallsInv'
<1>1. PICK answers : sent \in Seq(AskedWith(answers))
  BY DEF CallsInv, SentTyped
<1> DEFINE new == [call |-> call, token |-> token, answer |-> Waiting]
           S == AskedWith(answers \cup {Waiting})
<1>2. sent \in Seq(S) /\ new \in S /\ new.token = token /\ new.answer = Waiting
  <2>1. sent \in Seq(S)
    BY <1>1, MoreAnswers
  <2>2. token \in Tokens \cup {NoToken}
    BY DEF CallsInv, CallsTypeOK
  <2>3. QED BY <2>1, <2>2 DEF AskedWith
<1>3. sent' = Append(sent, new) /\ UNCHANGED <<token, sessions, given, left>>
  BY DEF Send
<1>4. Len(sent) <= 1
  BY <1>2 DEF Send, Overlaps
<1> HIDE DEF new, S
<1>5. /\ sent' \in Seq(S) /\ Len(sent') = Len(sent) + 1 /\ DOMAIN sent' = 1 .. Len(sent) + 1
      /\ Len(sent) \in Nat /\ DOMAIN sent = 1 .. Len(sent)
      /\ \A k \in DOMAIN sent : sent'[k] = sent[k]
      /\ sent'[Len(sent) + 1] = new
  BY <1>2, <1>3
<1>6. \A k \in DOMAIN sent : Brings(sent', k) = Brings(sent, k) /\ sent'[k].token = sent[k].token
  BY <1>5 DEF Brings
<1>7. Brings(sent', Len(sent) + 1) = NoToken /\ sent'[Len(sent) + 1].token = token
  BY <1>2, <1>5 DEF Brings
<1>8. \A k \in DOMAIN sent' : k \in DOMAIN sent \/ k = Len(sent) + 1
  BY <1>5
<1>9. SentTyped(sent)'
  BY <1>5 DEF SentTyped, S
<1>10. CallsTypeOK' /\ LeftForGood'
  BY <1>3, <1>4, <1>5, <1>6, <1>7, <1>8 DEF CallsInv, CallsTypeOK, LeftForGood
<1>11. ASSUME NEW k \in DOMAIN sent'
       PROVE  (Brings(sent, k) \in given \cup {NoToken})' /\ Fresh(sent, k)'
  <2>1. CASE k = Len(sent) + 1
    BY <1>7, <2>1 DEF Fresh
  <2>2. CASE k \in DOMAIN sent
    <3>1. Brings(sent, k) \in given \cup {NoToken} /\ Fresh(sent, k)
      BY <2>2 DEF CallsInv
    <3>2. QED BY <1>3, <1>6, <1>7, <1>8, <2>2, <3>1 DEF Fresh
  <2>3. QED BY <1>8, <2>1, <2>2
<1>12. QED BY <1>9, <1>10, <1>11 DEF CallsInv

\* An answer brings no token, or one that was not given away before.
LEMMA AnswerOf ==
    ASSUME CallsInv, NEW i \in DOMAIN sent, ServeCall(i)
    PROVE  /\ \E status, body, t :
                 /\ sent' = [sent EXCEPT ![i].answer = [status |-> status, body |-> body, token |-> t]]
                 /\ \/ t = NoToken /\ given' = given
                    \/ t \in Tokens \ given /\ given' = given \cup {t}
           /\ sessions' \subseteq given' /\ given' \subseteq Tokens
           /\ UNCHANGED <<token, left>>
<1> DEFINE Answered(status, body, t) ==
               sent' = [sent EXCEPT ![i].answer = [status |-> status, body |-> body, token |-> t]]
<1>1. sessions \subseteq given /\ given \subseteq Tokens
  BY DEF CallsInv, CallsTypeOK
<1>2. UNCHANGED <<token, left>>
  BY DEF ServeCall
<1>3. \/ Answered(401, "object", NoToken) /\ SameSessions
      \/ Answered(500, "object", NoToken) /\ SameSessions
      \/ \E body \in RouteOf(sent[i].call).bodies :
            \/ \E t \in Tokens : NewSession(t) /\ Answered(200, body, t)
            \/ sessions' \subseteq sessions /\ given' = given /\ Answered(200, body, NoToken)
  BY DEF ServeCall
<1>4. CASE Answered(401, "object", NoToken) /\ SameSessions
  BY <1>1, <1>2, <1>4 DEF SameSessions
<1>5. CASE Answered(500, "object", NoToken) /\ SameSessions
  BY <1>1, <1>2, <1>5 DEF SameSessions
<1>6. ASSUME NEW body, NEW t \in Tokens, NewSession(t), Answered(200, body, t)
      PROVE  /\ t \in Tokens \ given /\ given' = given \cup {t}
             /\ sessions' \subseteq given' /\ given' \subseteq Tokens
  BY <1>1, <1>6 DEF NewSession
<1>7. CASE \E body \in RouteOf(sent[i].call).bodies :
              \/ \E t \in Tokens : NewSession(t) /\ Answered(200, body, t)
              \/ sessions' \subseteq sessions /\ given' = given /\ Answered(200, body, NoToken)
  BY <1>1, <1>2, <1>6, <1>7
<1>8. QED BY <1>3, <1>4, <1>5, <1>7

\* A request is served.
LEMMA RequestServed ==
    ASSUME CallsInv, NEW i \in DOMAIN sent, ServeCall(i) PROVE CallsInv'
<1>1. PICK answers : sent \in Seq(AskedWith(answers))
  BY DEF CallsInv, SentTyped
<1>2. PICK status, body, t :
          /\ sent' = [sent EXCEPT ![i].answer = [status |-> status, body |-> body, token |-> t]]
          /\ \/ t = NoToken /\ given' = given
             \/ t \in Tokens \ given /\ given' = given \cup {t}
  BY AnswerOf
<1>3. /\ sessions' \subseteq given' /\ given' \subseteq Tokens
      /\ UNCHANGED <<token, left>>
  BY AnswerOf
<1> DEFINE a == [status |-> status, body |-> body, token |-> t]
           S == AskedWith(answers \cup {a})
<1>4. a.token = t /\ sent' = [sent EXCEPT ![i].answer = a]
  BY <1>2
<1> HIDE DEF a
<1>5. /\ sent \in Seq(S) /\ sent' \in Seq(S) /\ Len(sent') = Len(sent) /\ DOMAIN sent' = DOMAIN sent
      /\ \A k \in DOMAIN sent : k # i => sent'[k] = sent[k]
      /\ sent'[i].token = sent[i].token /\ sent'[i].answer = a
  <2> DEFINE q == [sent[i] EXCEPT !.answer = a]
  <2>1. sent \in Seq(S)
    BY <1>1, MoreAnswers
  <2>2. sent[i] \in AskedWith(answers)
    BY <1>1
  <2>3. q \in S /\ q.token = sent[i].token /\ q.answer = a
    BY <2>2 DEF AskedWith
  <2>4. sent' = [sent EXCEPT ![i] = q]
    BY <1>4
  <2> HIDE DEF S, q
  <2>5. QED BY <2>1, <2>3, <2>4
<1>6. \A k \in DOMAIN sent : sent'[k].token = sent[k].token /\ (k # i => Brings(sent', k) = Brings(sent, k))
  BY <1>5 DEF Brings
<1>7. Brings(sent', i) \in {NoToken, t}
  BY <1>4, <1>5 DEF Brings
<1>8. SentTyped(sent)'
  BY <1>5 DEF SentTyped
<1> HIDE DEF S
<1>9. CallsTypeOK' /\ LeftForGood'
  BY <1>2, <1>3, <1>5, <1>6 DEF CallsInv, CallsTypeOK, LeftForGood
<1>10. ASSUME t \in Tokens \ given
       PROVE  /\ t \notin left /\ t # token /\ t # NoToken
              /\ \A k \in DOMAIN sent : sent[k].token # t /\ Brings(sent, k) # t
  BY <1>10, TokensAssumption DEF CallsInv, CallsTypeOK, LeftForGood
<1>11. ASSUME NEW k \in DOMAIN sent
       PROVE  (Brings(sent, k) \in given \cup {NoToken})' /\ Fresh(sent, k)'
  <2>1. Brings(sent, k) \in given \cup {NoToken} /\ Fresh(sent, k)
    BY DEF CallsInv
  <2>2. CASE k = i
    BY <1>2, <1>3, <1>5, <1>6, <1>7, <1>10, <2>2 DEF Fresh
  <2>3. CASE k # i
    <3>1. Brings(sent', k) = Brings(sent, k) /\ given \subseteq given'
      BY <1>2, <1>6, <2>3
    <3>2. ASSUME Brings(sent, k) # NoToken, NEW j \in DOMAIN sent, j # k
          PROVE  Brings(sent', j) # Brings(sent, k)
      <4>1. CASE j # i
        BY <1>6, <2>1, <3>2, <4>1 DEF Fresh
      <4>2. CASE j = i
        BY <1>2, <1>7, <1>10, <3>2, <4>2
      <4>3. QED BY <4>1, <4>2
    <3>3. ASSUME Brings(sent, k) # NoToken, NEW j \in DOMAIN sent
          PROVE  sent'[j].token # Brings(sent, k)
      BY <1>6, <2>1, <3>3 DEF Fresh
    <3>4. Fresh(sent, k)'
      BY <1>3, <1>5, <2>1, <3>1, <3>2, <3>3 DEF Fresh
    <3>5. QED BY <2>1, <3>1, <3>4
  <2>4. QED BY <2>2, <2>3
<1>12. QED BY <1>5, <1>8, <1>9, <1>11 DEF CallsInv

\* A request is removed, and the token and what has been left are such that no
\* other answer brings them.
LEMMA RequestDone ==
    ASSUME CallsInv, NEW i \in DOMAIN sent, sent' = RemoveAt(sent, i),
           UNCHANGED <<sessions, given>>, token' \in given \cup {NoToken},
           left' \subseteq left \cup ({sent[i].token} \ {NoToken}), token' \notin left',
           token' \in {NoToken, token, Brings(sent, i)}
    PROVE  CallsInv'
<1>1. /\ SentTyped(sent') /\ Len(sent') <= Len(sent)
      /\ \A k \in DOMAIN sent' : \E o \in DOMAIN sent :
            /\ o # i /\ sent'[k].token = sent[o].token /\ Brings(sent', k) = Brings(sent, o)
            /\ \A j \in DOMAIN sent' : j # k => \E p \in DOMAIN sent :
                   /\ p # i /\ p # o /\ sent'[j].token = sent[p].token
                   /\ Brings(sent', j) = Brings(sent, p)
  <2>1. SentTyped(sent)
    BY DEF CallsInv
  <2>2. WithoutOne(sent', sent, i)
    BY <2>1, RemainingBring
  <2>3. QED BY <2>2 DEF WithoutOne
<1>2. CallsTypeOK' /\ LeftForGood'
  <2>1. CallsTypeOK
    BY DEF CallsInv
  <2>2. sent[i].token \in given \cup {NoToken}
    BY <2>1 DEF CallsTypeOK
  <2>3. Len(sent') \in Nat /\ Len(sent) \in Nat
    BY <1>1 DEF CallsInv, SentTyped
  <2>4. QED BY <1>1, <2>1, <2>2, <2>3 DEF CallsTypeOK, LeftForGood
<1>3. ASSUME NEW k \in DOMAIN sent'
      PROVE  (Brings(sent, k) \in given \cup {NoToken})' /\ Fresh(sent, k)'
  <2>1. PICK o \in DOMAIN sent :
            /\ o # i /\ sent'[k].token = sent[o].token /\ Brings(sent', k) = Brings(sent, o)
            /\ \A j \in DOMAIN sent' : j # k => \E p \in DOMAIN sent :
                   /\ p # i /\ p # o /\ sent'[j].token = sent[p].token
                   /\ Brings(sent', j) = Brings(sent, p)
    BY <1>1
  <2>2. Brings(sent, o) \in given \cup {NoToken} /\ Fresh(sent, o)
    BY DEF CallsInv
  <2>3. ASSUME Brings(sent, o) # NoToken
        PROVE  /\ Brings(sent, o) \in given \ left' /\ Brings(sent, o) # token'
               /\ \A j \in DOMAIN sent' : sent'[j].token # Brings(sent, o)
                                          /\ (j # k => Brings(sent', j) # Brings(sent, o))
    BY <2>1, <2>2, <2>3 DEF Fresh
  <2>4. QED BY <2>1, <2>2, <2>3 DEF Fresh
<1>4. QED BY <1>1, <1>2, <1>3 DEF CallsInv

\* An answer arrives.
LEMMA AnswerReceived ==
    ASSUME CallsInv, NEW i \in DOMAIN sent, ReceiveCall(i) PROVE CallsInv'
<1>1. /\ sent[i].answer # Waiting /\ sent' = RemoveAt(sent, i) /\ UNCHANGED <<sessions, given>>
      /\ token' = TokenAfter(sent[i].call, sent[i].answer)
      /\ left' = left \cup (IF sent[i].call = logout THEN {sent[i].token} \ {NoToken} ELSE {})
  BY DEF ReceiveCall
<1>2. Brings(sent, i) = sent[i].answer.token
  BY <1>1 DEF Brings
<1>3. Brings(sent, i) \in given \cup {NoToken} /\ Fresh(sent, i)
  BY DEF CallsInv
<1>4. /\ left \subseteq given /\ NoToken \notin given
      /\ token \notin left /\ token \in given \cup {NoToken}
  BY TokensAssumption DEF CallsInv, CallsTypeOK, LeftForGood
<1>5. CASE sent[i].call = logout
  <2>1. token' = NoToken /\ NoToken \notin left'
    BY <1>1, <1>4, <1>5 DEF TokenAfter
  <2>2. QED BY <1>1, <2>1, RequestDone
<1>6. CASE sent[i].call # logout
  <2>1. left' = left /\ token' \in {token, Brings(sent, i)}
    BY <1>1, <1>2, <1>6 DEF TokenAfter
  <2>2. Brings(sent, i) \notin left
    BY <1>3, <1>4 DEF Fresh
  <2>3. QED BY <1>1, <1>3, <1>4, <2>1, <2>2, RequestDone
<1>7. QED BY <1>5, <1>6

\* The session the client keeps, for any tokens: with logins and logouts of
\* several tabs under way, answers lost or late and sessions that expire, a token
\* is not stored again once its logout came back, and what the client stores and
\* sends was given to it.
THEOREM LoggedOutForGood == CallsSpec => [](CallsTypeOK /\ LeftForGood)
<1>1. CallsInit => CallsInv
  <2>1. SUFFICES ASSUME CallsInit PROVE CallsInv
    OBVIOUS
  <2>2. sent = <<>> /\ DOMAIN sent = {} /\ Len(sent) = 0
    BY <2>1 DEF CallsInit
  <2>3. SentTyped(sent)
    BY <2>2 DEF SentTyped
  <2>4. QED BY <2>1, <2>2, <2>3 DEF CallsInit, CallsInv, CallsTypeOK, LeftForGood
<1>2. CallsInv /\ [CallsNext]_callVars => CallsInv'
  <2>1. SUFFICES ASSUME CallsInv, [CallsNext]_callVars PROVE CallsInv'
    OBVIOUS
  <2>2. ASSUME NEW i \in DOMAIN sent, Fail(i) PROVE CallsInv'
    <3>1. /\ sent' = RemoveAt(sent, i) /\ UNCHANGED <<token, sessions, given, left>>
          /\ token \in given \cup {NoToken} /\ token \notin left
      BY <2>1, <2>2 DEF Fail, CallsInv, LeftForGood
    <3>2. QED BY <2>1, <3>1, RequestDone
  <2>3. ASSUME \/ SessionExpires
               \/ UNCHANGED callVars
        PROVE  CallsInv'
    <3>1. UNCHANGED <<token, given, sent, left>> /\ sessions' \subseteq sessions
      BY <2>3 DEF SessionExpires, callVars
    <3>2. CallsTypeOK' /\ LeftForGood' /\ SentTyped(sent)'
      BY <2>1, <3>1 DEF CallsInv, CallsTypeOK, LeftForGood
    <3>3. \A i \in DOMAIN sent : Brings(sent', i) = Brings(sent, i)
      BY <3>1
    <3>4. ASSUME NEW i \in DOMAIN sent PROVE (Brings(sent, i) \in given \cup {NoToken} /\ Fresh(sent, i))'
      BY <2>1, <3>1, <3>3 DEF CallsInv, Fresh
    <3>5. QED BY <3>1, <3>2, <3>4 DEF CallsInv
  <2>4. QED BY <2>1, <2>2, <2>3, RequestSent, RequestServed, AnswerReceived DEF CallsNext
<1>3. CallsInv => CallsTypeOK /\ LeftForGood
  BY DEF CallsInv
<1>4. QED BY <1>1, <1>2, <1>3, PTL DEF CallsSpec
=============================================================================

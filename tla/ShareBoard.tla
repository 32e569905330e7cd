----------------------------- MODULE ShareBoard -----------------------------
(***************************************************************************)
(* Who may do what on a board, as one user's client shows and changes it:  *)
(* the dialog `Share' (webapp/src/components/shareBoard) with the minimum  *)
(* role of the team, the members and the public link, and the selector of  *)
(* a card's persons (a property multiPerson), which offers to add to the   *)
(* board whom it assigns.                                                  *)
(* The requests are served in any order, each at once (BoardMembers has    *)
(* their database calls); the broadcasts arrive in the order they were     *)
(* sent.  Others act on the server with the same dialogs.  The board is no *)
(* template and open unless its minimum role is the empty one; channels,   *)
(* which the search never returns, and the wording are left out.           *)
(***************************************************************************)
EXTENDS Naturals, Sequences, FiniteSets, SequencesExt

CONSTANTS People, Me, Guests,
          None,
          MaxClicks, \* what the user does, undo included
          MaxOthers  \* what the others do

ASSUME MeAssumption == Me \in People /\ Guests \subseteq People \ {Me}

\* The roles from the highest to the lowest, which are the flags of a membership,
\* and the minimum every member of the board has: "none" is the empty one.
Order == <<"admin", "editor", "commenter", "viewer">>
Flags == ToSet(Order)
Minimums == {"editor", "commenter", "viewer", "none"}
Links == [token : Nat, on : BOOLEAN]
ASSUME NoneAssumption ==
    None \notin People /\ None \notin Links /\ None \notin [flags : SUBSET Flags, min : Minimums]
Rank(role) == CHOOSE i \in 1..5 : Append(Order, "none")[i] = role

VARIABLES rows,    \* table board_members: the flags of each user, {} for no row
          minimum, \* of the board
          link,    \* table sharing: the token and whether it is on, or None
          persons, \* the persons of the card's property
          ever,    \* who ever was a member
          client,  \* the state store: members with flags and minimum, the users of the
                   \* board, its own flags, the board's minimum, the card's persons
          dialog,  \* whether the page is shown, sharing as loaded, whom to confirm
          calls,   \* under way
          news,    \* broadcasts not received yet
          done,    \* the last change of members or roles the user made, to undo
          clicks, others, tokens, slips
serverRows == <<rows, minimum, link, persons, ever>>
shareVars == <<rows, minimum, link, persons, ever, client, dialog, calls, news, done,
               clicks, others, tokens, slips>>

-----------------------------------------------------------------------------
With(flags, min) == flags \cup ({min} \cap Flags)
Highest(flags) == CHOOSE role \in flags : \A f \in flags : Rank(role) <= Rank(f)

\* What the server grants: the minimum role counts as a flag.
Admin(u) == "admin" \in rows[u]
Editor(u) == rows[u] # {} /\ With(rows[u], minimum) \cap {"admin", "editor"} # {}
Effective(u) == Highest(With(rows[u], minimum))
LastAdmin(u) == Admin(u) /\ \A v \in People \ {u} : ~Admin(v)

\* What the client knows of a member: the minimum comes with the list of members,
\* not with a broadcast.
Membership(flags, min) == [flags |-> flags, min |-> min]
MembersNow == [u \in People |-> IF rows[u] = {} THEN None ELSE Membership(rows[u], minimum)]
ClientMembers == {u \in People : client.members[u] # None}

\* UserPermissionsRow: a row for each member whose user the client knows, the role
\* it shows.
ListedMembers == ClientMembers \cap client.users
ShownRole(m) ==
    IF "admin" \in m.flags THEN "admin"
    ELSE IF "editor" \in m.flags \/ m.min = "editor" THEN "editor"
    ELSE IF "commenter" \in m.flags \/ m.min = "commenter" THEN "commenter"
    ELSE "viewer"

\* The permissions of the client, from its own flags and the board.
MayManage == "admin" \in client.mine
MayEdit == MayManage \/ "editor" \in client.mine \/ client.min = "editor"
MayAddPersons == MayManage \/ client.min # "none"

\* The roles the menu of a member and the confirmation of a new one offer: none
\* below the minimum, and no administrator for a guest.
OfferedRoles(min, u) ==
    {"editor"} \cup (IF u \in Guests THEN {} ELSE {"admin"})
    \cup (IF min = "editor" THEN {} ELSE {"commenter"})
    \cup (IF min \in {"viewer", "none"} THEN {"viewer"} ELSE {})
\* Without the right to manage roles a new member gets the minimum.
ConfirmRoles(u) ==
    IF MayManage THEN OfferedRoles(client.min, u)
    ELSE {IF client.min = "none" THEN "viewer" ELSE client.min}

\* The flags below a role and its own, of a member added.
FlagsUpTo(role) == {f \in Flags : Rank(f) >= Rank(role)}
\* Mutant: who is added becomes a viewer whatever the minimum.
AddedFlagsViewer(min) == {"viewer"}
\* addUser of the dialog.
AddedFlags(min) == FlagsUpTo(IF min = "none" THEN "viewer" ELSE min)
\* onUpdateBoardMember: the flags of a role chosen in the menu, which does nothing
\* if the member has that role.
UpdatedFlags(role) == IF role = "admin" THEN {"admin", "editor"} ELSE {role}
HasRole(flags, role) == role \in flags /\ \A f \in flags : Rank(f) >= Rank(role)

\* The client's own check that a board keeps an administrator: of changes of the
\* user's own membership only, and whatever his role is.
isLastAdmin == Cardinality({u \in ClientMembers : "admin" \in client.members[u].flags}) <= 1
MayChange(u) == ~(u = Me /\ isLastAdmin)

-----------------------------------------------------------------------------
\* A call: what it does, to whom and with what, what the client does next and had
\* before, the minimum the user saw, and the answer.
Asked(do, who, what, then, had) ==
    [do |-> do, who |-> who, what |-> what, then |-> then, had |-> had,
     min |-> client.min, answer |-> "none"]
Reload(do) == Asked(do, Me, None, "show", None)
Broadcast(message) == news' = Append(news, message)
MemberNews(u, flags) == [kind |-> "member", who |-> u, what |-> flags]

\* What the server does with the row of a member, and with the other tables; who
\* may not is refused before, see May.
PutMember(u, flags) ==
    /\ rows' = [rows EXCEPT ![u] = flags] /\ ever' = ever \cup (IF flags = {} THEN {} ELSE {u})
    /\ Broadcast(MemberNews(u, flags))
    /\ UNCHANGED <<minimum, link, persons>>
AddMember(u, flags) ==
    IF rows[u] = {} THEN PutMember(u, flags) ELSE UNCHANGED <<serverRows, news>>
UpdateMember(u, flags) ==
    IF rows[u] = {} THEN UNCHANGED <<serverRows, news>>
    ELSE PutMember(u, IF u \in Guests THEN flags \ {"admin"} ELSE flags)
DeleteMember(u) ==
    IF rows[u] = {} THEN UNCHANGED <<serverRows, news>> ELSE PutMember(u, {})
PatchMinimum(min) ==
    /\ minimum' = min /\ Broadcast([kind |-> "board", who |-> Me, what |-> min])
    /\ UNCHANGED <<rows, link, persons, ever>>
PostSharing(sharing) == link' = sharing /\ UNCHANGED <<rows, minimum, persons, ever, news>>
PatchPersons(set) ==
    /\ persons' = set /\ Broadcast([kind |-> "card", who |-> Me, what |-> set])
    /\ UNCHANGED <<rows, minimum, link, ever>>

\* Members that are told to the client without the minimum and with less than it.
Below(u, flags) == flags # {} /\ Highest(With(flags, minimum)) # Highest(flags)

May(actor, do, u, what) ==
    CASE do = "create" -> Admin(actor) \/ (minimum # "none" /\ Editor(actor))
      [] do = "update" -> /\ Admin(actor)
                          /\ LastAdmin(u) => "admin" \in what /\ u \notin Guests
      [] do = "delete" -> Admin(actor) /\ ~LastAdmin(u)
      [] do \in {"board", "share", "sharing"} -> Admin(actor)
      [] do = "persons" -> Editor(actor)
      [] OTHER -> rows[actor] # {}

Do(do, u, what) ==
    CASE do = "create" -> AddMember(u, what)
      [] do = "update" -> UpdateMember(u, what)
      [] do = "delete" -> DeleteMember(u)
      [] do = "board" -> PatchMinimum(what)
      [] do = "share" -> PostSharing(what)
      [] do = "persons" -> PatchPersons(what)
      [] OTHER -> UNCHANGED <<serverRows, news>>

\* The server serves a call, or refuses it.
ServeShare(i) ==
    LET call == calls[i]
        granted == May(Me, call.do, call.who, call.what)
        body == CASE call.do = "sharing" -> link [] call.do = "members" -> MembersNow
                  [] OTHER -> call.what
    IN  /\ call.answer = "none"
        /\ IF granted THEN Do(call.do, call.who, call.what) ELSE UNCHANGED <<serverRows, news>>
        /\ calls' = [calls EXCEPT ![i] =
              [@ EXCEPT !.answer = IF granted THEN "ok" ELSE "refused", !.what = body]]
        /\ slips' = slips
              \cup (IF granted THEN {} ELSE {"refused"})
              \cup (IF granted /\ call.do \in {"create", "update"} /\ Below(call.who, call.what)
                       /\ (call.min # minimum \/ call.then \in {"undo", "undoDeletion"})
                    THEN {"below"} ELSE {})
        /\ UNCHANGED <<client, dialog, done, clicks, others, tokens>>

\* The request or its answer is lost: fetch throws, and what was to follow is left
\* out.  Bound: one such loss, and none with an act of somebody else.
LoseShare(i) ==
    /\ "failed" \notin slips /\ others = 0
    /\ slips' = slips \cup {"failed"}
    /\ calls' = RemoveAt(calls, i)
    /\ UNCHANGED <<serverRows, client, dialog, news, done, clicks, others, tokens>>

-----------------------------------------------------------------------------
\* Mutant: the persons are changed when the member is asked for, not once he is added.
AddPersonAtOnce(create, assign) == <<create, assign>>
\* addUser of ConfirmPerson: the persons are changed with the next call, made once
\* this one is answered.
AddPerson(create, assign) == <<create>>

\* Mutant: the dialog goes on with what it sent.
AfterSharingNothing == <<>>
\* loadData after the link was set.
AfterSharing == <<Reload("sharing")>>

\* setBoardUsers, addBoardUsers and removeBoardUsersById.
WithUsers(users) == [client EXCEPT !.users = users]

\* What the answer of a call leads to: the state store, the dialog, the next call,
\* and the command the user may undo.
ReceiveShare(i) ==
    LET call == calls[i]
        ok == call.answer = "ok"
        rest == RemoveAt(calls, i)
        next(more) == calls' = rest \o more
        show(users) == client' = WithUsers(users)
        same == UNCHANGED <<client, dialog>>
    IN  /\ call.answer # "none"
        /\ \/ call.do = "create" /\ same /\ slips' = slips
              /\ next(CASE call.then = "assign" ->
                             <<Asked("persons", Me, call.had \cup {call.who}, "show", None)>>
                        [] call.then = "undoDeletion" -> <<Asked("user", call.who, None, "show", None)>>
                        [] OTHER -> <<>>)
           \/ call.do \in {"update", "board", "persons"} /\ same /\ next(<<>>) /\ slips' = slips
           \/ call.do = "delete" /\ next(<<>>) /\ UNCHANGED dialog
              /\ IF call.then = "undo" THEN UNCHANGED <<client, slips>>
                 ELSE /\ show(client.users \ {call.who})
                      /\ slips' = slips \cup IF rows[call.who] # {} THEN {"hidden"} ELSE {}
           \/ call.do = "share" /\ same /\ next(AfterSharing) /\ slips' = slips
           \/ call.do = "sharing" /\ UNCHANGED client /\ next(<<>>) /\ slips' = slips
              /\ dialog' = [dialog EXCEPT !.sharing = IF ok THEN call.what ELSE None]
           \/ call.do = "members" /\ UNCHANGED dialog /\ next(<<>>) /\ slips' = slips
              /\ IF ok THEN client' = [client EXCEPT !.members = call.what,
                                  !.users = {u \in People : call.what[u] # None}]
                 ELSE show({})
           \/ call.do = "user" /\ UNCHANGED dialog /\ next(<<>>) /\ slips' = slips
              /\ IF ok THEN show(client.users \cup {call.who}) ELSE UNCHANGED client
        /\ done' = IF call.then \in {"record", "assign"} THEN call
                   ELSE IF call.do = "persons" THEN None ELSE done
        /\ UNCHANGED <<serverRows, news, clicks, others, tokens>>

\* A broadcast is received.  A membership without flags removes the member, and
\* the board if it is one's own; a user not known yet is asked for.
Hear ==
    /\ news # <<>>
    /\ news' = Tail(news)
    /\ LET m == Head(news)
           loading(states) == \E i \in DOMAIN calls : calls[i].do = "members" /\ calls[i].answer \in states
       IN  \/ /\ m.kind = "member"
              /\ client' = [client EXCEPT
                    !.members[m.who] = IF m.what = {} THEN None ELSE Membership(m.what, "none"),
                    !.users = IF m.what = {} THEN @ \ {m.who} ELSE @,
                    !.mine = IF m.who = Me THEN m.what ELSE @]
              /\ dialog' = [dialog EXCEPT !.shown = @ /\ ~(m.who = Me /\ m.what = {})]
              /\ calls' = IF m.what = {} \/ m.who \in client.users THEN calls
                          ELSE Append(calls, Asked("user", m.who, None, "show", None))
              /\ slips' = slips \cup IF loading({"ok"}) THEN {"overtaken"} ELSE {}
           \/ /\ m.kind = "board"
              /\ client' = [client EXCEPT !.min = m.what]
              /\ calls' = Append(calls, Reload("members"))
              /\ slips' = slips \cup IF loading({"none", "ok"}) THEN {"overtaken"} ELSE {}
              /\ UNCHANGED dialog
           \/ /\ m.kind = "card"
              /\ client' = [client EXCEPT !.persons = m.what]
              /\ UNCHANGED <<dialog, calls, slips>>
    /\ UNCHANGED <<serverRows, done, clicks, others, tokens>>

-----------------------------------------------------------------------------
\* The user acts: on a page shown, at most MaxClicks times.
Click ==
    /\ dialog.shown /\ clicks < MaxClicks /\ clicks' = clicks + 1
    /\ UNCHANGED <<serverRows, client, news, others>>
Start(asked) == calls' = calls \o asked /\ UNCHANGED <<done, tokens, slips>>
Record(do, who, what, had) == Start(<<Asked(do, who, what, "record", had)>>)
Had(u) == client.members[u].flags

\* The search leaves out the members.
AddableUsers == People \ ClientMembers
\* Rows of the dialog: a member is added, given a role or removed.
AddUser ==
    /\ Click /\ MayManage /\ UNCHANGED dialog
    /\ \E u \in AddableUsers : Record("create", u, AddedFlags(client.min), {})
OnUpdateBoardMember ==
    /\ Click /\ MayManage /\ UNCHANGED dialog
    /\ \E u \in ListedMembers : \E role \in OfferedRoles(client.min, u) :
           /\ MayChange(u) /\ ~HasRole(Had(u), role)
           /\ Record("update", u, UpdatedFlags(role), Had(u))
OnDeleteBoardMember ==
    /\ Click /\ MayManage /\ UNCHANGED dialog
    /\ \E u \in ListedMembers : MayChange(u) /\ Record("delete", u, {}, Had(u))
\* TeamPermissionsRow offers every minimum; updateBoardType, after the question where
\* the role promotes, sends those that change it.
OfferedMinimums == Minimums
OnChangeRole ==
    /\ Click /\ MayManage /\ UNCHANGED dialog
    /\ \E min \in OfferedMinimums : min # client.min /\ Record("board", Me, min, client.min)

\* The public link shown, if any.  The object loaded is changed in place; without one a link is
\* made up with a new token.
isSharing == dialog.sharing # None /\ dialog.sharing.on
ShownLink == IF isSharing THEN dialog.sharing.token ELSE None
Sharing == IF dialog.sharing = None THEN [token |-> tokens + 1, on |-> TRUE] ELSE dialog.sharing
PutSharing(sharing, more) ==
    /\ dialog' = [dialog EXCEPT !.sharing = IF @ = None THEN None ELSE sharing]
    /\ calls' = Append(calls, Asked("share", Me, sharing, "show", None))
    /\ tokens' = IF sharing.token > tokens THEN sharing.token ELSE tokens
    /\ slips' = slips \cup more
          \cup (IF dialog.sharing = None THEN {"blind"} ELSE {})
          \cup (IF \E i \in DOMAIN calls : calls[i].do \in {"share", "sharing"} THEN {"twice"} ELSE {})
    /\ UNCHANGED done
OnShareChanged ==
    /\ Click /\ MayManage
    /\ PutSharing([Sharing EXCEPT !.on = ~isSharing], {})
OnRegenerateToken ==
    /\ Click /\ MayManage /\ isSharing
    /\ PutSharing([dialog.sharing EXCEPT !.token = tokens + 1], {"renewed"})

\* onChange of ConfirmPerson: the persons whose user the client knows and the one
\* selected, and who is not of the board waits for the confirmation.  The selector
\* leaves out persons it does not know.
ShownPersons == client.persons \cap client.users
SelectablePersons == (IF MayAddPersons THEN People ELSE client.users) \ ShownPersons
SetPersons(set) == Start(<<Asked("persons", Me, set, "show", None)>>)
SelectPerson ==
    /\ Click /\ MayEdit
    /\ \E u \in SelectablePersons :
           /\ SetPersons(ShownPersons \cup ({u} \cap client.users))
           /\ dialog' = [dialog EXCEPT !.confirm = IF u \in client.users THEN @ ELSE u]
ClearPersons ==
    /\ Click /\ MayEdit /\ UNCHANGED dialog
    /\ \E set \in {{}} \cup {ShownPersons \ {u} : u \in ShownPersons} :
           set # ShownPersons /\ SetPersons(set)
\* The confirmation adds the member and then assigns him, besides the persons there
\* are at the click.
ConfirmPerson ==
    /\ Click /\ dialog.confirm # None
    /\ dialog' = [dialog EXCEPT !.confirm = None]
    /\ \E role \in ConfirmRoles(dialog.confirm) :
           Start(AddPerson(
               Asked("create", dialog.confirm, FlagsUpTo(role), "assign", client.persons),
               Asked("persons", Me, client.persons \cup {dialog.confirm}, "show", None)))

\* The last command recorded is undone.
Undo ==
    /\ Click /\ done # None /\ done' = None
    /\ calls' = Append(calls,
          CASE done.do = "create" -> Asked("delete", done.who, {}, "undo", None)
            [] done.do = "delete" -> Asked("create", done.who, done.had, "undoDeletion", None)
            [] OTHER -> Asked(done.do, done.who, done.had, "undo", None))
    /\ UNCHANGED <<dialog, tokens, slips>>

\* Somebody else does any of this on the server.
Other ==
    /\ others < MaxOthers /\ "failed" \notin slips /\ others' = others + 1
    /\ \E actor \in People \ {Me}, u \in People :
       \E act \in {<<"create", AddedFlags(minimum)>>, <<"delete", {}>>}
                  \cup {<<"update", UpdatedFlags(role)>> : role \in OfferedRoles(minimum, u)} :
           May(actor, act[1], u, act[2]) /\ Do(act[1], u, act[2])
    /\ UNCHANGED <<client, dialog, calls, done, clicks, tokens, slips>>
OtherBoard ==
    /\ others < MaxOthers /\ "failed" \notin slips /\ others' = others + 1
    /\ \E actor \in People \ {Me} :
          \/ \E min \in Minimums : /\ May(actor, "board", Me, min)
                                   /\ PatchMinimum(min) /\ UNCHANGED <<tokens, slips>>
          \/ /\ May(actor, "share", Me, None)
             /\ PostSharing(IF link = None THEN [token |-> tokens + 1, on |-> TRUE]
                            ELSE [link EXCEPT !.on = ~@])
             /\ tokens' = IF link = None THEN tokens + 1 ELSE tokens
             /\ slips' = slips \cup {"others"}
    /\ UNCHANGED <<client, dialog, calls, done, clicks>>

-----------------------------------------------------------------------------
\* The page of a board is open whose members, link and persons are any, and the
\* dialog loads the link or has it.
StartOf(r, min, sharing, loaded, set) ==
    /\ rows = r /\ minimum = min /\ link = sharing /\ persons = set
    /\ ever = {u \in People : r[u] # {}}
    /\ client = [members |-> MembersNow, users |-> ever, mine |-> r[Me], min |-> min,
                 persons |-> set]
    /\ dialog = [shown |-> TRUE, sharing |-> IF loaded THEN sharing ELSE None, confirm |-> None]
    /\ calls = IF loaded THEN <<>> ELSE <<Reload("sharing")>>
    /\ news = <<>> /\ done = None /\ clicks = 0 /\ others = 0 /\ tokens = 1 /\ slips = {}
ShareInit ==
    \E r \in [People -> {{}} \cup {UpdatedFlags(role) : role \in Flags}], min \in Minimums,
       sharing \in {None} \cup [token : {1}, on : BOOLEAN], loaded \in BOOLEAN,
       set \in SUBSET People :
        /\ "admin" \in r[Me] /\ \A u \in Guests : "admin" \notin r[u]
        /\ \A u \in set : r[u] # {}
        /\ StartOf(r, min, sharing, loaded, set)
ShareNext ==
    \/ AddUser \/ OnUpdateBoardMember \/ OnDeleteBoardMember \/ OnChangeRole
    \/ OnShareChanged \/ OnRegenerateToken
    \/ SelectPerson \/ ClearPersons \/ ConfirmPerson \/ Undo
    \/ Hear \/ Other \/ OtherBoard
    \/ \E i \in DOMAIN calls : ServeShare(i) \/ ReceiveShare(i) \/ LoseShare(i)
ShareSpec == ShareInit /\ [][ShareNext]_shareVars

-----------------------------------------------------------------------------
ShareTypeOK ==
    /\ rows \in [People -> SUBSET Flags] /\ minimum \in Minimums
    /\ persons \subseteq People /\ ever \subseteq People
    /\ client.mine \subseteq Flags /\ client.users \subseteq People

AtRest == calls = <<>> /\ news = <<>> /\ dialog.shown

\* Once all is answered and heard the dialog lists exactly the members, each with
\* the role the server grants him.  Excused: a lost call, a list of members that
\* broadcasts overtook, a membership given with less than the minimum (by an undo or
\* by who had not seen the minimum yet), and a removal refused or taken back, which
\* hides the user all the same.
RolesAreShown ==
    AtRest /\ slips \cap {"failed", "overtaken", "below", "hidden"} = {} =>
        /\ ListedMembers = {u \in People : rows[u] # {}}
        /\ \A u \in ListedMembers : ShownRole(client.members[u]) = Effective(u)

\* Then the switch and the link show what the server has, and a link given away
\* works until it is renewed.  Excused: a lost or refused call, another's change,
\* which is not broadcast, a click before the last one's answer, and, for the link, one
\* while nothing is loaded, which makes a new link without the question.
LinkIsObeyed ==
    AtRest /\ slips \cap {"failed", "refused", "others", "twice"} = {} =>
        /\ ShownLink = (IF link = None THEN None ELSE IF link.on THEN link.token ELSE None)
        /\ link # None /\ link.token # 1 => slips \cap {"renewed", "blind"} # {}

\* Nobody is assigned to a card who never was a member of its board, unless the
\* server refused to add him.
PersonsAreMembers == "refused" \in slips \/ persons \subseteq ever

\* What the dialog shows and does is what the server has.
ShareAgrees == ShareTypeOK /\ RolesAreShown /\ LinkIsObeyed /\ PersonsAreMembers
=============================================================================

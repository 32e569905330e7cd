---------------------------- MODULE ClientCalls ----------------------------
(***************************************************************************)
(* What the web client asks of the server (webapp/src/octoClient.ts), call *)
(* by call, the routes the server registers (server/api), and the session  *)
(* that both keep: the client in the storage of the browser, which its     *)
(* tabs share, the server in table sessions.  A segment of a path that the *)
(* client fills in, and a variable of a route, are "*"; of the arguments   *)
(* only the read token of a shared board is kept.                          *)
(***************************************************************************)
EXTENDS Naturals, Sequences, FiniteSets, SequencesExt

CONSTANTS Tokens,  \* of sessions
          NoToken, \* an empty Authorization header
          Waiting  \* the answer of a request the server has not served

ASSUME TokensAssumption == NoToken \notin Tokens

VARIABLES token,    \* localStorage.focalboardSessionId
          sessions, \* of the server
          given,    \* tokens the server has given away
          sent,     \* requests without a result yet, in the order they were sent
          results,  \* what the calls that came back last returned: at most one
          left      \* tokens whose logout came back
callVars == <<token, sessions, given, sent, results, left>>

-----------------------------------------------------------------------------
\* A call: method and path, the kind of value it returns of a proper answer, of
\* one with status 200 that is null or no JSON, and of any other status, and
\* whether it carries the read token of a shared board.
Call(method, path, kind, empty, refused) ==
    [method |-> method, path |-> path, kind |-> kind, empty |-> empty,
     refused |-> refused, readToken |-> FALSE]
\* A call that returns the list of the answer, an empty one if there is none.
ListCall(method, path) == Call(method, path, "list", "list", "list")
\* A call that returns the object of the answer, if there is one.
ObjectCall(method, path) == Call(method, path, "object", "object", "undefined")
\* A call that returns the response as it is.
RawCall(method, path) == Call(method, path, "response", "response", "response")
WithReadToken(call) == [call EXCEPT !.readToken = TRUE]

teamsPath == <<"teams">>
teamPath == teamsPath \o <<"*">>
Board(rest) == <<"boards", "*">> \o rest

login == Call("POST", <<"login">>, "boolean", "boolean", "boolean")
logout == Call("POST", <<"logout">>, "boolean", "boolean", "boolean")
getClientConfig == Call("GET", <<"clientConfig">>, "object", "object", "null")
register == Call("POST", <<"register">>, "object", "object", "object")
changePassword == Call("POST", <<"users", "*", "changepassword">>, "object", "object", "object")
getMe == ObjectCall("GET", <<"users", "me">>)
getMyBoardMemberships == ListCall("GET", <<"users", "me", "memberships">>)
getUser == ObjectCall("GET", <<"users", "*">>)
getUsersList == ListCall("POST", <<"users">>)
getMyConfig == Call("GET", <<"users", "me", "config">>, "list", "list", "undefined")
patchUserConfig == Call("PUT", <<"users", "*", "config">>, "list", "object", "undefined")
exportBoardArchive == RawCall("GET", Board(<<"archive", "export">>))
exportFullArchive == RawCall("GET", teamPath \o <<"archive", "export">>)
importFullArchive == RawCall("POST", teamPath \o <<"archive", "import">>)
getBlocksWithPath(path) == ListCall("GET", path)
getBlocksWithParent == getBlocksWithPath(teamPath \o <<"blocks">>)
getBlocksWithType == getBlocksWithPath(teamPath \o <<"blocks">>)
getBlocksWithBlockID == WithReadToken(getBlocksWithPath(Board(<<"blocks">>)))
getAllBlocks == WithReadToken(getBlocksWithPath(Board(<<"blocks">>)))
getBoardsWithPath(path) == ListCall("GET", path)
getBoardMembersWithPath(path) == ListCall("GET", path)
patchBlock == RawCall("PATCH", Board(<<"blocks", "*">>))
patchBlocks == RawCall("PATCH", teamPath \o <<"blocks">>)
deleteBlock == RawCall("DELETE", Board(<<"blocks", "*">>))
undeleteBlock == RawCall("POST", Board(<<"blocks", "*", "undelete">>))
undeleteBoard == RawCall("POST", Board(<<"undelete">>))
followBlock == RawCall("POST", <<"subscriptions">>)
unfollowBlock == RawCall("DELETE", <<"subscriptions", "*", "*">>)
insertBlocks == RawCall("POST", Board(<<"blocks">>))
createBoardsAndBlocks == RawCall("POST", <<"boards-and-blocks">>)
deleteBoardsAndBlocks == RawCall("DELETE", <<"boards-and-blocks">>)
patchBoardsAndBlocks == RawCall("PATCH", <<"boards-and-blocks">>)
createBoardMember == ObjectCall("POST", Board(<<"members">>))
joinBoard == ObjectCall("POST", Board(<<"join">>))
updateBoardMember == RawCall("PUT", Board(<<"members", "*">>))
deleteBoardMember == RawCall("DELETE", Board(<<"members", "*">>))
getSharing == Call("GET", Board(<<"sharing">>), "object", "undefined", "undefined")
setSharing == Call("POST", Board(<<"sharing">>), "boolean", "boolean", "boolean")
regenerateTeamSignupToken ==
    Call("POST", teamPath \o <<"regenerate_signup_token">>, "undefined", "undefined", "undefined")
uploadFile == Call("POST", teamPath \o <<"*", "files">>, "string", "undefined", "undefined")
uploadAttachment == RawCall("POST", teamPath \o <<"*", "files">>)
getFileInfo == WithReadToken(
    Call("GET", <<"files", "teams", "*", "*", "*", "info">>, "object", "object", "object"))
getFileAsDataUrl == WithReadToken(
    Call("GET", <<"files", "teams", "*", "*", "*">>, "object", "object", "object"))
getTeam == Call("GET", teamPath, "object", "null", "null")
getTeams == ListCall("GET", teamsPath)
getTeamUsers == ListCall("GET", teamPath \o <<"users">>)
getTeamUsersList == ListCall("POST", teamPath \o <<"users">>)
searchTeamUsers == ListCall("GET", teamPath \o <<"users">>)
getTeamTemplates == getBoardsWithPath(teamPath \o <<"templates">>)
getBoards == getBoardsWithPath(teamPath \o <<"boards">>)
getBoard == WithReadToken(ObjectCall("GET", Board(<<>>)))
duplicateBoard == ObjectCall("POST", Board(<<"duplicate">>))
duplicateBlock == Call("POST", Board(<<"blocks", "*", "duplicate">>), "list", "list", "undefined")
getBlocksForBoard == getBoardsWithPath(teamPath \o <<"boards", "*">>)
getBoardMembers == getBoardMembersWithPath(Board(<<"members">>))
createBoard == RawCall("POST", teamPath \o <<"boards">>)
patchBoard == RawCall("PATCH", Board(<<>>))
deleteBoard == RawCall("DELETE", Board(<<>>))
getSidebarCategories == ListCall("GET", teamPath \o <<"categories">>)
createSidebarCategory == RawCall("POST", teamPath \o <<"categories">>)
deleteSidebarCategory == RawCall("DELETE", teamPath \o <<"categories", "*">>)
updateSidebarCategory == RawCall("PUT", teamPath \o <<"categories", "*">>)
reorderSidebarCategories == ListCall("PUT", teamPath \o <<"categories", "reorder">>)
reorderSidebarCategoryBoards ==
    ListCall("PUT", teamPath \o <<"categories", "*", "boards", "reorder">>)
moveBoardToCategory == RawCall("POST", teamPath \o <<"categories", "*", "boards", "*">>)
search == ListCall("GET", teamPath \o <<"boards", "search">>)
searchLinkableBoards == ListCall("GET", teamPath \o <<"boards", "search", "linkable">>)
searchAll == ListCall("GET", <<"boards", "search">>)
getUserBlockSubscriptions == ListCall("GET", <<"subscriptions", "*">>)
searchUserChannels == Call("GET", teamPath \o <<"channels">>, "list", "list", "undefined")
getChannel == ObjectCall("GET", teamPath \o <<"channels", "*">>)
prepareOnboarding == ObjectCall("POST", teamPath \o <<"onboard">>)
notifyAdminUpgrade ==
    Call("POST", teamPath \o <<"notifyadminupgrade">>, "undefined", "undefined", "undefined")
getBoardsCloudLimits == ObjectCall("GET", <<"limits">>)
getSiteStatistics == ObjectCall("GET", <<"statistics">>)
getMyTopBoards == ObjectCall("GET", <<"users", "me", "boards", "insights">>)
getTeamTopBoards == ObjectCall("GET", teamPath \o <<"boards", "insights">>)
moveBlockTo == RawCall("POST", <<"content-blocks", "*", "moveto", "*", "*">>)
hideBoard == RawCall("PUT", teamPath \o <<"categories", "*", "boards", "*", "hide">>)
unhideBoard == RawCall("PUT", teamPath \o <<"categories", "*", "boards", "*", "unhide">>)

Calls ==
    {login, logout, getClientConfig, register, changePassword, getMe,
     getMyBoardMemberships, getUser, getUsersList, getMyConfig, patchUserConfig,
     exportBoardArchive, exportFullArchive, importFullArchive, getBlocksWithParent,
     getBlocksWithType, getBlocksWithBlockID, getAllBlocks, patchBlock, patchBlocks,
     deleteBlock, undeleteBlock, undeleteBoard, followBlock, unfollowBlock, insertBlocks,
     createBoardsAndBlocks, deleteBoardsAndBlocks, patchBoardsAndBlocks,
     createBoardMember, joinBoard, updateBoardMember, deleteBoardMember, getSharing,
     setSharing, regenerateTeamSignupToken, uploadFile, uploadAttachment, getFileInfo,
     getFileAsDataUrl, getTeam, getTeams, getTeamUsers, getTeamUsersList,
     searchTeamUsers, getTeamTemplates, getBoards, getBoard, duplicateBoard,
     duplicateBlock, getBlocksForBoard, getBoardMembers, createBoard, patchBoard,
     deleteBoard, getSidebarCategories, createSidebarCategory, deleteSidebarCategory,
     updateSidebarCategory, reorderSidebarCategories, reorderSidebarCategoryBoards,
     moveBoardToCategory, search, searchLinkableBoards, searchAll,
     getUserBlockSubscriptions, searchUserChannels, getChannel, prepareOnboarding,
     notifyAdminUpgrade, getBoardsCloudLimits, getSiteStatistics, getMyTopBoards,
     getTeamTopBoards, moveBlockTo, hideBoard, unhideBoard}

-----------------------------------------------------------------------------
\* A route of the server: who is served (those with a session, or anybody), and
\* the kinds of body its handler writes with status 200: a nil slice is written
\* as null.
Lists == {"list", "null"}
Objects == {"object"}
Files == {"file"}
SessionRequired(method, pattern, bodies) ==
    [method |-> method, pattern |-> pattern, bodies |-> bodies, anybody |-> FALSE]
SessionAttached(method, pattern, bodies) ==
    [SessionRequired(method, pattern, bodies) EXCEPT !.anybody = TRUE]
NoSession(method, pattern, bodies) == SessionAttached(method, pattern, bodies)

registerUsersRoutes ==
    << SessionRequired("POST", <<"users">>, Lists),
       SessionRequired("GET", <<"users", "me">>, Objects),
       SessionRequired("GET", <<"users", "me", "memberships">>, Lists),
       SessionRequired("GET", <<"users", "*">>, Objects),
       SessionRequired("PUT", <<"users", "*", "config">>, {"list"}),
       SessionRequired("GET", <<"users", "me", "config">>, {"list"}) >>
registerAuthRoutes ==
    << NoSession("POST", <<"login">>, Objects),
       SessionRequired("POST", <<"logout">>, Objects),
       NoSession("POST", <<"register">>, Objects),
       SessionRequired("POST", <<"teams", "*", "regenerate_signup_token">>, Objects),
       SessionRequired("POST", <<"users", "*", "changepassword">>, Objects) >>
registerMembersRoutes ==
    << SessionRequired("GET", Board(<<"members">>), Lists),
       SessionRequired("POST", Board(<<"members">>), Objects),
       SessionRequired("PUT", Board(<<"members", "*">>), Objects),
       SessionRequired("DELETE", Board(<<"members", "*">>), Objects),
       SessionRequired("POST", Board(<<"join">>), Objects),
       SessionRequired("POST", Board(<<"leave">>), Objects) >>
registerCategoriesRoutes ==
    << SessionRequired("POST", <<"teams", "*", "categories">>, Objects),
       SessionRequired("PUT", <<"teams", "*", "categories", "reorder">>, Lists),
       SessionRequired("PUT", <<"teams", "*", "categories", "*">>, Objects),
       SessionRequired("DELETE", <<"teams", "*", "categories", "*">>, Objects),
       SessionRequired("GET", <<"teams", "*", "categories">>, Lists),
       SessionRequired("PUT", <<"teams", "*", "categories", "*", "boards", "reorder">>, Lists),
       SessionRequired("POST", <<"teams", "*", "categories", "*", "boards", "*">>, {"text"}),
       SessionRequired("PUT", <<"teams", "*", "categories", "*", "boards", "*", "hide">>, Objects),
       SessionRequired("PUT", <<"teams", "*", "categories", "*", "boards", "*", "unhide">>, Objects) >>
registerSharingRoutes ==
    << SessionRequired("POST", Board(<<"sharing">>), Objects),
       SessionRequired("GET", Board(<<"sharing">>), Objects) >>
registerTeamsRoutes ==
    << SessionRequired("GET", <<"teams">>, Lists),
       SessionRequired("GET", <<"teams", "*">>, Objects),
       SessionRequired("GET", <<"teams", "*", "users">>, Lists),
       SessionRequired("POST", <<"teams", "*", "users">>, Lists),
       SessionRequired("GET", <<"teams", "*", "archive", "export">>, Files) >>
registerAchivesRoutes ==
    << SessionRequired("GET", Board(<<"archive", "export">>), Files),
       SessionRequired("POST", <<"teams", "*", "archive", "import">>, Objects),
       SessionRequired("GET", <<"teams", "*", "archive", "export">>, Files) >>
registerSubscriptionsRoutes ==
    << SessionRequired("POST", <<"subscriptions">>, Objects),
       SessionRequired("DELETE", <<"subscriptions", "*", "*">>, Objects),
       SessionRequired("GET", <<"subscriptions", "*">>, Lists) >>
registerFilesRoutes ==
    << SessionAttached("GET", <<"files", "teams", "*", "*", "*">>, Files),
       SessionAttached("GET", <<"files", "teams", "*", "*", "*", "info">>, Objects),
       SessionRequired("POST", <<"teams", "*", "*", "files">>, Objects) >>
registerOnboardingRoutes == << SessionRequired("POST", <<"teams", "*", "onboard">>, Objects) >>
registerSearchRoutes ==
    << SessionRequired("GET", <<"teams", "*", "channels">>, Lists),
       SessionRequired("GET", <<"teams", "*", "boards", "search">>, Lists),
       SessionRequired("GET", <<"teams", "*", "boards", "search", "linkable">>, Lists),
       SessionRequired("GET", <<"boards", "search">>, Lists) >>
registerConfigRoutes == << NoSession("GET", <<"clientConfig">>, Objects) >>
registerBoardsAndBlocksRoutes ==
    [i \in 1..3 |-> SessionRequired(<<"POST", "PATCH", "DELETE">>[i], <<"boards-and-blocks">>, Objects)]
registerChannelsRoutes == << SessionRequired("GET", <<"teams", "*", "channels", "*">>, Objects) >>
registerTemplatesRoutes == << SessionRequired("GET", <<"teams", "*", "templates">>, Lists) >>
registerBoardsRoutes ==
    << SessionRequired("GET", <<"teams", "*", "boards">>, Lists),
       SessionRequired("POST", <<"boards">>, Objects),
       SessionAttached("GET", Board(<<>>), Objects),
       SessionRequired("PATCH", Board(<<>>), Objects),
       SessionRequired("DELETE", Board(<<>>), Objects),
       SessionRequired("POST", Board(<<"duplicate">>), Objects),
       SessionRequired("POST", Board(<<"undelete">>), Objects),
       SessionRequired("GET", Board(<<"metadata">>), Objects) >>
registerBlocksRoutes ==
    << SessionAttached("GET", Board(<<"blocks">>), Lists),
       SessionRequired("POST", Board(<<"blocks">>), Lists),
       SessionRequired("PATCH", Board(<<"blocks">>), Objects),
       SessionRequired("DELETE", Board(<<"blocks", "*">>), Objects),
       SessionRequired("PATCH", Board(<<"blocks", "*">>), Objects),
       SessionRequired("POST", Board(<<"blocks", "*", "undelete">>), Objects),
       SessionRequired("POST", Board(<<"blocks", "*", "duplicate">>), Lists) >>
registerContentBlocksRoutes ==
    << SessionRequired("POST", <<"content-blocks", "*", "moveto", "*", "*">>, Objects) >>
registerStatisticsRoutes == << SessionRequired("GET", <<"statistics">>, Objects) >>

\* Mutant: the boards are registered before the search.
RegisterRoutesBoardsFirst ==
    registerUsersRoutes \o registerAuthRoutes \o registerMembersRoutes
    \o registerCategoriesRoutes \o registerSharingRoutes \o registerTeamsRoutes
    \o registerAchivesRoutes \o registerSubscriptionsRoutes \o registerFilesRoutes
    \o registerOnboardingRoutes \o registerBoardsRoutes \o registerSearchRoutes
    \o registerConfigRoutes \o registerBoardsAndBlocksRoutes \o registerChannelsRoutes
    \o registerTemplatesRoutes \o registerBlocksRoutes
    \o registerContentBlocksRoutes \o registerStatisticsRoutes

\* The routes in the order RegisterRoutes registers them; those the web client
\* has no call for (compliance, notifications, cards) are left out.
RegisterRoutes ==
    registerUsersRoutes \o registerAuthRoutes \o registerMembersRoutes
    \o registerCategoriesRoutes \o registerSharingRoutes \o registerTeamsRoutes
    \o registerAchivesRoutes \o registerSubscriptionsRoutes \o registerFilesRoutes
    \o registerOnboardingRoutes \o registerSearchRoutes \o registerConfigRoutes
    \o registerBoardsAndBlocksRoutes \o registerChannelsRoutes
    \o registerTemplatesRoutes \o registerBoardsRoutes \o registerBlocksRoutes
    \o registerContentBlocksRoutes \o registerStatisticsRoutes

\* The web server's own handler: any path it knows no file of, whatever the
\* method, is answered with index.html.
IndexPage == NoSession("*", <<>>, {"html"})

\* A route takes a call with its method whose path has the literals of its pattern.
Fits(route, call) ==
    /\ route.method = call.method
    /\ Len(route.pattern) = Len(call.path)
    /\ \A i \in 1..Len(call.path) : route.pattern[i] \in {"*", call.path[i]}

\* gorilla/mux tries the routes in the order of their registration.
RouteOf(call) ==
    LET i == SelectInSeq(RegisterRoutes, LAMBDA route : Fits(route, call))
    IN  IF i = 0 THEN IndexPage ELSE RegisterRoutes[i]

-----------------------------------------------------------------------------
CallsInit ==
    /\ token = NoToken /\ sessions = {} /\ given = {}
    /\ sent = <<>> /\ results = {} /\ left = {}

\* What the calls do to the session depends on what else is under way, not what
\* other calls return: two calls overlap when one of them logs in or out.
Overlaps(call) ==
    \/ sent = <<>>
    \/ Len(sent) = 1 /\ {call, sent[1].call} \cap {login, logout} # {}

\* A tab of the browser sends a request with the token of the storage.
Send(call) ==
    /\ Overlaps(call)
    /\ sent' = Append(sent, [call |-> call, token |-> token, answer |-> Waiting])
    /\ results' = {}
    /\ UNCHANGED <<token, sessions, given, left>>

\* The session that goes with a login that was served, if a token is left to give.
NewSession(t) == /\ t \in Tokens \ given
                 /\ sessions' = sessions \cup {t} /\ given' = given \cup {t}
SameSessions == UNCHANGED <<sessions, given>>

\* attachSession and the handler: without a session 401, else the handler serves
\* the request or refuses it, for an argument, a permission or an error.
ServeCall(i) ==
    /\ sent[i].answer = Waiting
    /\ LET call == sent[i].call
           route == RouteOf(call)
           Answered(status, body, t) ==
               sent' = [sent EXCEPT ![i].answer =
                           [status |-> status, body |-> body, token |-> t]]
       IN  IF ~route.anybody /\ sent[i].token \notin sessions
           THEN Answered(401, "object", NoToken) /\ SameSessions
           ELSE \/ route # IndexPage /\ Answered(500, "object", NoToken) /\ SameSessions
                \/ \E body \in route.bodies :
                   IF call = login
                   THEN \E t \in Tokens : NewSession(t) /\ Answered(200, body, t)
                   ELSE /\ sessions' = sessions \ (IF call = logout THEN {sent[i].token} ELSE {})
                        /\ given' = given /\ Answered(200, body, NoToken)
    /\ results' = {}
    /\ UNCHANGED <<token, left>>

\* Mutant: null and what is no JSON are returned as they are.
getJsonWithoutDefault(call, body) ==
    IF body \notin {"list", "object"} THEN body
    ELSE IF call.kind \in {"list", "object"} THEN body ELSE call.kind
\* getJson: what a call makes of an answer with status 200.
getJson(call, body) ==
    IF body \notin {"list", "object"} THEN call.empty
    ELSE IF call.kind \in {"list", "object"} THEN body ELSE call.kind

\* Mutant: the token is removed once the server has confirmed the logout.
TokenAfterConfirmation(call, answer) ==
    IF call = logout /\ answer.status = 200 THEN NoToken
    ELSE IF call = login /\ answer.status = 200 THEN answer.token ELSE token
\* The token the storage keeps after an answer to a login or a logout.
TokenAfter(call, answer) ==
    IF call = logout THEN NoToken
    ELSE IF call = login /\ answer.status = 200 THEN answer.token ELSE token

\* The answer arrives: the storage is updated and the call returns.
ReceiveCall(i) ==
    /\ sent[i].answer # Waiting
    /\ LET call == sent[i].call
           answer == sent[i].answer
       IN  /\ token' = TokenAfter(call, answer)
           /\ left' = left \cup (IF call = logout THEN {sent[i].token} \ {NoToken} ELSE {})
           /\ results' = {[call |-> call, kind |-> IF answer.status = 200
                                                   THEN getJson(call, answer.body)
                                                   ELSE call.refused]}
    /\ sent' = RemoveAt(sent, i)
    /\ UNCHANGED <<sessions, given>>

\* The connection fails, before or after the server served the request: the call
\* throws and what would have followed is not done.
Fail(i) ==
    /\ sent' = RemoveAt(sent, i) /\ results' = {}
    /\ UNCHANGED <<token, sessions, given, left>>

\* A session ends by itself after some time without use.
SessionExpires ==
    \E t \in sessions : /\ sessions' = sessions \ {t} /\ results' = {}
                        /\ UNCHANGED <<token, given, sent, left>>

CallsNext ==
    \/ \E call \in Calls : Send(call)
    \/ \E i \in DOMAIN sent : ServeCall(i) \/ ReceiveCall(i) \/ Fail(i)
    \/ SessionExpires
CallsSpec == CallsInit /\ [][CallsNext]_callVars

-----------------------------------------------------------------------------
CallsTypeOK ==
    /\ token \in Tokens \cup {NoToken} /\ sessions \subseteq given
    /\ given \subseteq Tokens /\ left \subseteq given
    /\ Len(sent) <= 2 /\ \A i \in DOMAIN sent : sent[i].token \in given \cup {NoToken}

\* Calls nothing of the server is for.  All but the last two are never made.
Unserved == {createBoard, patchBlocks, getBlocksWithParent, getBlocksWithType,
             getBlocksForBoard, getMyTopBoards, getTeamTopBoards,
             notifyAdminUpgrade, getBoardsCloudLimits}

Literals(route) == Cardinality({i \in DOMAIN route.pattern : route.pattern[i] # "*"})

\* Every other call reaches a route, and of all that fit the one written for it,
\* with the most literals: "me", "reorder" and "search" are not taken for ids.
\* What a reader of a shared page asks for is served without a session.
ServedByItsRoute ==
    \A i \in DOMAIN sent :
        LET call == sent[i].call
            route == RouteOf(call)
        IN  /\ (route = IndexPage) = (call \in Unserved)
            /\ \A other \in ToSet(RegisterRoutes) :
                   Fits(other, call) => Literals(other) <= Literals(route)
            /\ call.readToken => route.anybody

\* Whatever the server answers, null and index.html included, a call returns the
\* kind of value its callers rely on, or the one for a refusal.
AnswersKeepKind == \A r \in results : r.kind \in {r.call.kind, r.call.refused}

\* A token is not stored again once its logout came back, even refused and with
\* other logins and logouts under way; all the client stores was given to it.
LeftForGood == token \notin left /\ token \in given \cup {NoToken}

\* The calls of the client and the routes of the server fit together.
CallsAreAnswered == CallsTypeOK /\ ServedByItsRoute /\ AnswersKeepKind /\ LeftForGood
=============================================================================

# Focalboard, verified

TLA+ models of Focalboard: of the Go server (`src/server`) the parts where several
actors meet, of the web application (`src/webapp`) the stores, handlers and requests
with which it follows and changes the server's state, and of the import tools
(`src/import`) what they make of a user's data. Every module is translated from the
source; `PROJECT.json` maps each definition to the lines it stands for.

## 1. The system

A web client shows a board. It changes blocks through the REST API; the App layer
checks, calls the Store, and puts a callback on the queue `blockChangeNotifier`.
Ten worker goroutines execute the callbacks: broadcast over the websocket to the
clients of the board's members, call the webhooks, tell the notification backends.
The clients merge what they hear, and what they are answered, into their own store,
and the components show the store.

```
 component --> mutator / undo manager --> octoClient --REST--> api --> app --> sqlstore
     ^                                        |                         |
     |                                        v answers                 +--Enqueue--> CallbackQueue
   store <------------------------------- reducers                                        | workers
     ^                                                                                    v
     +---- wsclient <------------------- websocket ------------------------------- ws.Server
```

| Component | State it keeps | Operations | What is hard | What makes it correct |
|---|---|---|---|---|
| Callback queue (`utils/callbackqueue.go`) | a bounded channel, two more channels, a flag | Enqueue, worker loop, exec, Shutdown | workers, a deadline, senders that block, callbacks that enqueue | each callback once; Shutdown leaves no worker and drains what was sent |
| Board members (`api/members.go`, `app/boards.go`, `sqlstore/board.go`) | `board_members` and its history | add, join, update, remove, leave; delete and restore the board | checks and writes in separate statements, requests that overlap, crashes | a board keeps an admin; the history tells who is a member |
| Block store (`sqlstore/blocks.go`, `board.go`) | `blocks`, `boards` and their histories | insert, patch, patch many, delete, undelete, for a block or the board with its children | transactions on two of three databases, failing statements, restoring from the history | all or nothing; history and table agree; an undo loses nothing |
| Websocket server and client (`ws/server.go`, `wsclient.ts`) | sessions and their index; socket, retries, subscription counts | accept, authenticate, subscribe, broadcast; open, reopen, receive | goroutines per session, a lock that broadcasts do not take, lost connections | the index agrees with the sessions; members, and only they, hear |
| Undo manager and mutator (`undomanager.ts`, `mutator.ts`) | a stack, an index, a flag | perform, undo, redo, groups | everything is awaited; commands of other handlers in between; requests that fail | undo and redo are inverse, a group is undone as one |
| Views, properties, filters (`mutator.ts`, `cardFilter.ts`, `boardUtils.ts`, kanban, table) | the board's properties, its views, its cards | every edit of the schema, of a view, every drop of a card | ids that outlive what they name, orders that are none, two readings of a filter | no card is lost from a view; an edit can be undone; what is dropped lands where it was dropped |
| Categories (`app/category*.go`, `store/sidebar.ts`, sidebar components) | categories, rows of boards; the client's copy | create, rename, delete, move, hide, open, duplicate, delete boards | the client changes its copy before, while and after the server answers | each board once; at rest the client shows what the server has |
| Card dialog (`cardDetail`, `blocksEditor`, `store/contents.ts`) | title, contents, comments, attachments | both editors' edits | several requests per edit, broadcasts in any order | what exists stays listed; the dialog follows the server |
| Dates (`properties/date`, `fullCalendar.tsx`, `dateFilter.tsx`) | an instant per card | dialog, calendar, filter | readers in different time zones, clocks that change | all see the same days |
| Importers, CSV, calculations (`src/import`, `csvExporter.ts`, `calculations.ts`, `app/import.go`) | none | convert | cells with commas, empty groups, reused ids | no card or text is lost |
| Pages and routes (`router.tsx`, `pages/`) | the address, what is loaded, last board and view | open, go back, log in and out, join, redirects | loads that answer late, redirects that chase each other | the page is the one of the address; redirects end |
| Page of a board and tour (`centerPanel.tsx`, `cardDialog.tsx`, `onboardingTour`) | open card, selection, view order; position of the tour | open, add, duplicate, delete, undo; tips | closures that use the page of the moment of the click | the open card exists; additions stay; the tour goes on |
| HTTP client and routes (`octoClient.ts`, `server/api`) | the token in the browser, sessions | some eighty calls | calls without a route, answers of another kind, log in and out in two tabs | every call is served or refused as the caller expects |
| Sharing (`shareBoard`, `permissions`) | minimum role, members, public link | the dialog, persons of a card | other administrators, answers out of order | roles shown are the roles the server enforces |
| Making boards (`boardTemplateSelector`, `mutator.ts`) | boards, templates, commands, the page | create, copy, delete, undo, redo | answers and broadcasts that overtake each other, a page change per step | the history explains the boards |
| Settings, chatbot (`userSettings.ts`, `theme.ts`, `chatbot`) | local storage; a conversation | pick, import; ask | several tabs; a board that changes while one asks | tabs and menus agree at rest; what the assistant is told is true |
| Subscriptions, hints, mentions (`services/notify`) | hints in the store | follow, hint, notify | several nodes | each edit notified once. Nothing in the repository instantiates these backends |
| Scheduler, files, audit, telemetry, migrations, Mattermost layers | | | little interaction | |

The hazards of each, with their lines, are the `hazards` of `PROJECT.json`; the
components, with what is left out of each, its `components`.

## 2. The modules

| Module | Models | Composes |
|---|---|---|
| `CallbackQueue` | the pool: Enqueue, loop, exec, Shutdown | |
| `BoardMembers` | handlers, App operations and statements on the members of one board | |
| `BlockRows` | rows, patches and the scope of a statement | |
| `AtomicBlockStore` | what the Store interface promises, a method per step | `BlockRows` |
| `BlockStore` | the same methods statement by statement, with failures | `BlockRows`, implements `AtomicBlockStore` |
| `LiveUpdates` | client connection, websocket sessions, the broadcast of changes | |
| `AbstractHistory` | what an undo manager promises: a past and a future | |
| `UndoManager` | the undo manager and every form of command the mutator records | implements `AbstractHistory` |
| `BoardViews` | filters, orders and groups; patches of properties | |
| `BoardEditor` | edits of properties, views and cards; drag and drop | `BoardViews` |
| `BoardLifecycle` | boards and templates made, copied, deleted, undone | |
| `Sidebar` | categories: server, broadcasts, client | |
| `ContentOrder` | `contentOrder` of a card and what moves do to it | |
| `CardDetail` | the dialog of a card, both editors, requests and broadcasts | `ContentOrder` |
| `DayDates` | what a date promises: days without hours | |
| `Dates` | instants, zones, dialog, calendar, filter | implements `DayDates` |
| `Importers`, `CardValues` | the converters; calculations and CSV | |
| `Conversions` | one conversion, step by step | `Importers`, `CardValues` |
| `Navigation` | addresses, guards, pages, loads, redirects | |
| `CardPage` | the cards of a board's page | |
| `Tour` | the onboarding tour over that page | `CardPage` |
| `ClientCalls` | each call of the client and the route that serves it | |
| `ShareBoard` | the dialog Share, persons, roles | |
| `Settings`, `Chatbot` | settings of the user; the assistant | |
| `MC*` | values for TLC; where a run checks several modules, `part` chooses one for a behaviour | the modules they name |
| `*_proof` | theorems and proofs | the module they name; `BoardMembers_proof` also `ShareBoard` and `ClientCalls`, `UndoManager_proof` also `BoardLifecycle`, `QueueAndPages_proof` `CallbackQueue` and `Navigation`, `WebClient_proof` `Dates`, `Settings`, `Chatbot`, `CardPage` and `Tour` |

How state and actions correspond to the code:

**CallbackQueue.** The channel is a sequence: the buffered callbacks, then those of
blocked senders, as the Go runtime queues them. The load of `idone` and the send are
two actions, as are the receive of a callback, the start of its call and its end.
`Parent` names callbacks that another callback enqueues (adding a mentioned user to
the board does). `Expire` may happen at any time after a Shutdown began.

**BoardMembers.** Between two database calls of a request the others run:
`Authorise`, `Load`, `CheckLastAdmin`, `ReadRow`, `Upsert`, `RecordCreated`,
`DeleteRow`, `RecordDeleted`. No method here is a transaction.

**AtomicBlockStore, BlockStore.** A row is a parent and a title; a history is the
sequence of a block's entries by `insert_at`. `BlockStore` has an action for each SQL
statement. `Transactional` says whether an error rolls back, as on Postgres and
MySQL, or not, as on SQLite, where the generated `public_methods.go` calls the
private method directly. `saved` holds the tables as they were when the last request
ended; the refinement maps the tables of `AtomicBlockStore` to it. Concurrent
transactions are not modelled (`OneTransaction`): their isolation is the database's.
`HasFileInfo`: the table `FileInfo` is Mattermost's; the standalone server's is
`file_info`.

**LiveUpdates.** A session is a client and the number of its connection. Commands and
broadcasts travel in order, one queue each way. Functions that write the index take
`Server.mu` in one step and write in a later one; a broadcast reads the index in a
step that looks at no lock, as `getListenersForTeamAndBoard` does. `owed` is what
clients are due: a change is owed to every client that watches when it is committed,
until it hears of it or unsubscribes, its user leaves, or a connection is lost.

**UndoManager.** One JavaScript handler runs at a time; other handlers run only while
one awaits an answer. A script is a call of the Mutator (a command or a group), with
its requests still to be served; `perform` records the command after its `redo` has
been awaited; `undo` and `redo` set `isExecuting` and replay. The refinement reads the
stack and the index as past and future.

**BoardViews, BoardEditor.** The user waits for the answers, so an operation is one
step. Each operation of the mutator is an action with its effect on properties, views
and cards and the undo it records (`done`). What a view shows is computed as the code
does: filter, sort, group.

**Sidebar.** Server rows, requests being handled, broadcasts (with the 100 ms queue of
`wsclient.ts`), answers and the store. The initial states are any server at rest with
a client in step. `raced` is set when two things in flight touch the same: then the
code promises nothing, and most of `SidebarAgrees` is silent. Included in what
conflicts is renaming a category to which a running deletion moves boards: the
deletion has looked the category up by its old name (a behaviour the proof found, of
three acts, that the runs' two acts do not reach). A drag to another category is two
steps, `Drag` and `Drop`: `handleCategoryBoardDND` adds the board where it was dropped,
awaits, then dispatches what takes it out of its old category. What it awaits is no
promise, so the client takes no other event in between; the server goes on.

**CardDetail.** What a user does is a script of requests with the closures' knowledge
at the time of the click. `mishaps` names what the properties excuse: an edit written
over another's (`over`, `clobbered`, `merged`), a row moved as a whole (`row`),
early returns of the reducers that cut a batch (`cut`), swapped answers (`swapped`).

**Dates.** An instant is a number of hours in UTC; a zone is two offsets and the
moments between which the second one holds.

**Importers, CardValues, Conversions.** Each converter as a function from an export to
boards and blocks; `GenerateBlockIDs` and the load of the archive; the file of a table
cell by cell; each calculation on a sequence of values. The tool for Jira throws on an
export of one item or none, of which its parser makes no list (`JiraThrows`).

**Navigation.** The address, the `match` of the route, what is loaded, and the
requests out; React's effects run when what they depend on has changed. A shared board
is answered to a valid read token, or else to a session that may read the board.

**CardPage, Tour.** As in CardDetail, scripts with closures. An addition inserts its
card, or copies and patches a template, lists it in the page, and then writes the order
of the view; each of these requests, those of a deletion and those of the undo may fail, one in
a behaviour. A request that is refused is not noticed and the script goes on; without an
answer the handler throws and the script ends, and of an addition only the card was
recorded to be undone (`RequestFails`, `CopyPatchFails`, `InsertFails`,
`DuplicateFails`). `missed` remembers the additions of which the server has only a part.
While the tour is on the user only looks around the page.

**ClientCalls, ShareBoard.** A call is a method, a path with `*` for what is filled in,
a default and what a refusal becomes; two calls overlap only when one of them logs in
or out. In ShareBoard requests are served in any order, each at once.

**BoardLifecycle, Settings, Chatbot.** The handlers as actions, answers in any order;
broadcasts at once in BoardLifecycle; in Settings tabs share the storage and none of
them watches it.

## 3. The runs

Twelve runs; each property of a passing run has a mutant of the code that breaks it.
States are distinct states; times are of two workers.

| Run | Instance | States | Shows |
|---|---|---|---|
| `cq_pool` | 4 callbacks of which 2 enqueue the others, 2 workers, 2 closers, room for 1; fair | | `PoolQuiescent`, `ShutdownDrains`, `OvertakenIsHeld`; `SentIsExecuted` |
| `bm_serial` | members: 3 users, 4 requests one at a time, a crash; calls: 2 tokens, every call, alone or across a login or logout; share: 3 people, 2 clicks, another's act, a lost request | 2,680,424, 79 s | `AdminRemains`, `HistoryAgrees`, `CallsAreAnswered`, `ShareAgrees` |
| `bm_last_admin` | 2 users, 2 requests at a time | | **violated**: two admins that leave together leave a board without one |
| `bs_transactions` | 3 blocks, 4 requests, 1 fault, transactions | | `ImplementsAtomic` (the refinement), `HistoryMatchesTable`, `UndoRestores` |
| `live` | 2 tabs of a user, another user, 1 change, 1 change of membership, 2 mounts, 1 fault; fair | | `ListenersConsistent`, `OnlyMembersHear`; `ChangesReach`, `SubscriptionsConverge` |
| `undo` | 2 scripts, 3 replays, 1 failure, eleven forms of operation; fair | | `HistoryExplainsCard`, `LinearHistory` (the refinement); `ReplayEnds` |
| `board` | edits: two edits from 6 boards (113,043); boards: 2 acts from 4 starts, 1 meddling (1,868,613) | 1,981,656, 82 s | `ShownOnce`, `UndoRestores`, `CardsLandWhereAsked`, `ConversionKeepsMeaning`; `BoardsFollowHistory` |
| `sidebar` | 2 boards, 1 custom category, any server at rest, any 2 acts; fair | 556,378, 60 s | `ListedOnce`, `SidebarAgrees`; `OpenBoardGetsACategory` |
| `card` | 3 titles, 2 acts of the user or another, 6 initial states | 346,220 | `ContentsStayListed`, `DragLandsWhereDropped`, `CardFollowsServer` |
| `conversions` | files of one to three items with empty, repeated and dangling references; dates of 3 days, 3 zones, 2 users | 140,224, 109 s | `ConversionsAgree`; `DaysAgree`, `ImplementsDays` (the refinement) |
| `navigation` | pages: 2 boards, 3 views, 7 initial states, 2 acts (528,675); settings: 2 tabs or the Mac's window, 2 languages, 3 picks (135,102); assistant: 2 boards, 4 cards, 2 people, 2 questions; fair | 1,046,411, 65 s | `AddressIsShown`, `SettingsAgree`, `ChatAgrees`; `Settles` |
| `cardpage` | 2 boards, 3 views of three kinds, 2 acts and one of another, 1 failed request, 4 acts of the tour; 30 initial states | 1,706,068, 83 s | `AddedStaysListed`, `PageFollowsServer`, `TourGoesOn`; `TourMovesOn` |

Some properties are conjunctions of named parts, each commented where it is defined:

* the type invariant of a module is a part of its main invariant (`HistoryMatchesTable`,
  `HistoryExplainsCard`, `ShownOnce`, `ListedOnce`, `ContentsStayListed`, `DaysAgree`,
  `ConversionsAgree`, `AddressIsShown`, `CallsAreAnswered`, `ShareAgrees`,
  `BoardsFollowHistory`, `SettingsAgree`, `ChatAgrees`), or is proved and not run
  (`TypeOK` of `CallbackQueue`, `BoardMembers`, `LiveUpdates`);
* `HistoryExplainsCard` contains `GroupsStayWhole`, `CardFollows`, `FieldsFollow` and
  `InsertsFollow`; `SidebarAgrees` contains
  `BoardsKeepACategory` and `RemovedIsNotShown`; `DaysAgree` contains `ShownAlike` and
  `FilterSeesDays`; `ConversionsAgree` is `ImportKeepsCards`, `CsvKeepsPlainCards` and
  `CalculationsAgree`; `CardFollowsServer` is `StoreFollowsServer` and
  `DialogShowsServer`; `AddressIsShown` contains `LostBoardIsForgotten`;
  `PageFollowsServer` contains `OpenCardExists`; `CardsLandWhereAsked` contains
  `DropLandsNextTo` and `AddedCardShown`; `ShareAgrees` contains `RolesAreShown`,
  `LinkIsObeyed`, `PersonsAreMembers`; `CallsAreAnswered` contains `ServedByItsRoute`,
  `AnswersKeepKind`, `LeftForGood`; `BoardsFollowHistory` contains
  `HistoryExplainsBoards`, `OpenBoardIsShown`, `PreviewIsOfActive`; `SettingsAgree` is
  of `SettingsLast` and `PageShowsSettings`, `ChatAgrees` of `ChatInTurn` and
  `ToldIsTrue`.

Why the bounds are enough. A full channel needs one callback more than its room, and
a second sender behind it; two workers race, two calls of Shutdown compete, and a
callback that enqueues on the full queue needs another to hold the worker. Losing the
last admin takes two admins and two requests; a history out of step takes a delete
between the read of another request and its upsert. A restore that picks the wrong
entry needs a block that was deleted under a card, restored, moved and deleted again:
four requests. Two tabs of one user tell "each session" from "each user"; one fault
gives a client two sessions at a time. `live` does not reach `reopenMaxRetries`,
which takes two faults. In the client two acts are the least that can interfere, and
the third party (another user, a lost request, a late answer) comes on top; initial
states are chosen so that what a first act would prepare is there already. In
`CardPage` a template is the default of all views of its board or of none at first, and
`SetDefault` makes the other states. Longer
histories were only simulated: `card` with four acts over six million states. Zones:
Auckland as its clocks go forward, Lisbon as they go back, and eleven hours west.
`NoteLimit` is one for the code's ten cards. Where the theorems below state a
property, they do so for every value of these bounds.

All bounds are constants and guards of the actions that count: `MaxRequests`,
`MaxFaults`, `MaxCrashes`, `MaxChanges`, `MaxMembers`, `MaxMounts`, `Components`,
`MaxScripts`, `MaxReplays`, `MaxFailures`, `MaxEdits`, `MaxActs`,
`MaxMeddled`, `MaxOthers`, `TourActs`, `MaxClicks`, `MaxPicks`, `MaxEvents`,
`MaxQuestions`, `MaxTurns`. In `ClientCalls` two calls overlap only when one of them
logs in or out (`Overlaps`). Where bounds make a system stop deadlock is not checked.

### Fairness

* `CallbackQueue`: the Go scheduler runs every goroutine that can run, so each send,
  worker and closer is weakly fair, and a timer fires. Nobody must call Enqueue or
  Shutdown. That a callback returns is an assumption of `SentIsExecuted`.
* `LiveUpdates`: the browser's event loop and timers (`ClientStep`), the goroutine of
  each session and each broadcast are weakly fair, and messages on a connection that
  stays up arrive. Users, the committing requests and all faults are not fair.
* `UndoManager`: a request sent is answered and the handler that awaits it goes on;
  `Sidebar` and `Navigation`: the server serves, answers arrive, effects of React run.
  What users do is never fair.
* The other modules have safety properties only.

### What the properties excuse

The client sends what it knew when the user clicked, and nothing on the server
refuses an edit made on old knowledge. A property that ignored this would be false at
once, so several excuse it, by name and only where it happened: `raced` of `Sidebar`
(two things in flight about the same category or board), `mishaps` of `CardDetail` and
`CardPage`, `slips` of `Tour` and `ShareBoard`, `lost` of `Settings`, `stale` of
`Navigation`, `faults` of `BoardLifecycle`. In `CardPage` a failed request is excused by
what it left undone and nothing more: a card may be in no order if the request that
writes this order failed (or its patch, or a part of its undo), and the page may have
another order than the server only if it is the one such a request did not write.
What is excused is in the observations.

## 4. What is proved

TLAPS checks every theorem for any value of the constants under the assumptions named
in the modules; the strengthened invariants are in the proof modules and were checked
with TLC on the instances above before they were proved.

| Theorem | Statement |
|---|---|
| `QueueAndPages_proof!TypeCorrect` | `Spec => []TypeOK` |
| `QueueAndPages_proof!Quiescent` | `Spec => []PoolQuiescent`: any number of workers and closers |
| `QueueAndPages_proof!ExecutedAtMostOnce` | `Spec => []AtMostOnce` |
| `QueueAndPages_proof!DrainedOnShutdown` | `Spec => []ShutdownDrains` |
| `QueueAndPages_proof!ReceivedInOrder` | `Spec => []OvertakenIsHeld` |
| `QueueAndPages_proof!PageIsOfTheAddress` | `NavSpec => []AddressIsShown`: any boards, views, categories and number of acts |
| `BoardMembers_proof!TypeCorrect` | `Spec => []TypeOK` |
| `BoardMembers_proof!LastAdminKept` | one request at a time gives `Spec => []AdminRemains`; `bm_last_admin` shows the hypothesis is needed |
| `BoardMembers_proof!CreationRecorded` | `Spec => []MemberWasCreated`, for any number of requests at a time |
| `BoardMembers_proof!HistoryInTurn` | one request at a time gives `Spec => []HistoryAgrees` |
| `BoardMembers_proof!ShareIsAgreed` | `ShareSpec => []ShareAgrees`: any people, guests, clicks and acts of others |
| `BoardMembers_proof!LoggedOutForGood` | `CallsSpec => [](CallsTypeOK /\ LeftForGood)`: the parts of `CallsAreAnswered` about the session, for any tokens |
| `AtomicBlockStore_proof!TypeCorrect`, `HistoryTellsTable`, `BoardTakesBlocks`, `DeletionsAreUndone` | of the abstract store |
| `BlockStore_proof!TypeCorrect` | `Spec => []TypeOK`, with and without transactions |
| `BlockStore_proof!TransactionsAreAtomic` | with transactions `Spec => ImplementsAtomic`: the refinement |
| `BlockStore_proof!HistoryTellsTables`, `BoardTakesItsBlocks` | with transactions `Spec => []HistoryMatchesTable`, `Spec => []NoBlocksWithoutBoard` |
| `BlockStore_proof!UndoLosesNothing` | with transactions `Spec => UndoRestores` |
| `LiveUpdates_proof!TypeCorrect`, `ListenersStayConsistent`, `MembersHear` | `Spec => []TypeOK`, `[]ListenersConsistent`, `[]OnlyMembersHear` |
| `UndoManager_proof!HistoryIsLinear` | `Spec => LinearHistory`: the refinement of `AbstractHistory` |
| `UndoManager_proof!GroupsAreWhole` | `Spec => []GroupsStayWhole` |
| `UndoManager_proof!FieldsAreExplained` | `Spec => []FieldsFollow`: every field but the order of the contents |
| `UndoManager_proof!BoardsAreExplained` | `LifeSpec => []BoardsFollowHistory`: any number of boards, acts and changes by others |
| `Sidebar_proof!BoardsListedOnce` | `Spec => []ListedOnce`, whatever overlaps: no board is in two categories, but for the one that was dropped, until the second dispatch of its drag |
| `Sidebar_proof!RemovedAreNotShown`, `BoardsHaveACategory` | `Spec => []RemovedIsNotShown`, `Spec => []BoardsKeepACategory`: two parts of `SidebarAgrees` |
| `WebClient_proof!DatesAreDays` | `DatesSpec => ImplementsDays`: the refinement |
| `WebClient_proof!EveryoneSeesTheDays` | `DatesSpec => []DaysAgree` |
| `WebClient_proof!SettingsStay` | `SettingsSpec => []SettingsAgree`: any tabs and languages |
| `WebClient_proof!ChatIsTrue` | `ChatSpec => []ChatAgrees`: any boards, cards and people |
| `WebClient_proof!TourReachesItsTips` | `TourSpec => []TourGoesOn`: any views, cards and positions |
| `WebClient_proof!TourNeverFallsBack` | `TourSpec => TourMovesOn`: likewise |
| `WebClient_proof!AddedCardsAreListed` | `Spec => []AddedStaysListed` of `CardPage`, and the same of `TourSpec`: any views, cards and number of acts, whichever request fails |
| `WebClient_proof!PageShowsTheServer` | `Spec => []PageFollowsServer` of `CardPage`, and the same of `TourSpec`: likewise |

The arguments:

* *Quiescent.* The tokens in `alive` and the count of the winning Shutdown add up to
  the workers that exited, so the loop ends only when all have; there is one winner,
  because `idone` never goes back.
* *ExecutedAtMostOnce.* What was sent is, without repetition, what started, what is
  held and what is queued; each step moves a callback from one to the next.
* *DrainedOnShutdown.* What was promised is finished, held or queued; a Shutdown that
  returns true has seen an empty queue when, by *Quiescent*, nobody holds.
* *ReceivedInOrder.* `OInv`: the channel is the end of the order of sending, and what
  was sent is in it, held or started. So what was sent earlier than a started callback
  has left the channel before it.
* *LastAdminKept.* What a single request has read stays so until it writes: past the
  check there is another admin, or the target was no member.
* *CreationRecorded.* A row without a "created" entry has a request between its upsert
  and its entry, or one that saw such a row.
* *HistoryInTurn.* `InTurn`: for each user the history alternates and its last entry
  agrees with the row, or the one request is between the two statements on that user.
* *ShareIsAgreed.* `ShareInv` speaks of the state between two acts, while calls and
  broadcasts are under way. Of a person no broadcast is under way about (`Told`) the
  client has the flags of the table, in the state store and in every list it is yet to
  receive, and knows or asks for the user; the last broadcast about any other tells
  what the table has (`NewsTell`). The roles need besides that a member told after the
  last minimum was not given less than it, and that each list answered carries the
  minimum (`RolesKnown`); both fail exactly at the slips the property excuses. The link
  needs that at most one call about it is under way (`LinkKnown`), the persons that
  every call and broadcast names only who was a member (`PersonsKnown`). Assumed is
  that `None` is no person, link or membership (`NoneAssumption`).
* *LoggedOutForGood.* `CallsInv`: a token on its way to the client answers one login, and
  until it arrives it is in no request, in no other answer, not stored and not left
  (`Fresh`), because the server gives a token away once. So the logout that came back
  first cannot have been of a token a later answer stores. Of `Overlaps` the proof uses
  only that it bounds the requests under way, which is what `CallsTypeOK` says.
* *HistoryTellsTable.* Each method writes a row and its entry together; the restored
  rows are those whose last entry is a deletion.
* *DeletionsAreUndone.* A deletion in a history is its last entry or is followed by the
  row it took. So when the query of an undelete looks for the last entry under one
  parent and finds a deletion, it is the last entry of the block: what is restored is
  what was deleted last, and no older state of it.
* *TransactionsAreAtomic.* `TInv` types the tables and the request's list of statements
  still to do; `SInv` tells the tables at each statement by what they were when the
  transaction began (`UnderWay`), so that at its end they are what the abstract
  method makes of `saved`. A failure restores `saved` and is a stutter.
* *UndoLosesNothing* follows with *DeletionsAreUndone* from the abstract step.
* *TypeCorrect* of LiveUpdates needs a count: a client opens a connection only when its
  last is down, so it has opened at most one more than there were faults.
* *ListenersStayConsistent.* A session holds the lock exactly while it is in a critical
  section, and what it checked before it took the lock only its own goroutine changes.
* *MembersHear.* The set of those entitled to a change contains the members from its
  commit on; what a broadcast reads, picks and sends stays within it.
* *HistoryIsLinear, GroupsAreWhole.* `Kept`: the index is within the stack; while a
  replay is under way it stands at the command being replayed (`AtItsCommand`), and
  otherwise between groups. A group's commands are adjacent because `perform` discards
  what is beyond the index before it appends.
* *FieldsAreExplained.* `Explained`. What a list of requests does to the fields is told
  without running it, for no two requests of a command set the same field (`Turns`).
  Every recorded command leads from the fields of the one before it to its own, and
  back (`FieldsLinked`). At rest the fields are those at the index and every script of a
  group sets none (`Resting`); or the one script there is has served a part of its only
  command, and what is left leads to where its undo leads back from (`Working`); or what
  is left of a replay leads to the fields of the command it goes to (`FieldsReplaying`).
* *BoardsAreExplained.* `LifeInv`. A replay under way is of the command next to the
  index, and there is one (`Linked`). As long as nothing was lost, refused, unrecorded,
  crossed, renamed or changed by others (`Calm`), a board is recorded as made at most
  once, and as deleted at most once and later (`Once`); the index tells whether it is
  there (`Told`), unless an answer about it has still to be received (`Settles`): then
  the boards are ahead of the record, by a deletion not yet recorded
  (`DeletionsHold`), by a command half replayed (`ReplaysHold`), or by a board that is
  made and not yet named (`MadeHold`). That no two such answers are about one board is
  why each brings the record level again. The store has the boards there are or
  a list of them is under way, and the open board is loaded or being loaded
  (`StoreHolds`); the preview is shown, asked for, or not to be had (`SelectorHolds`).
  The proof has no bound on boards: the module lost its `MaxBoards` for it. Before it
  was proved the invariant was simulated with eight acts over sixty million states,
  which found one thing the run's two acts do not reach: a template whose deletion is
  undone while it is active in a selector open elsewhere keeps the empty preview it
  got while it was deleted. The property excuses that ("revived").
* *BoardsListedOnce.* Each reducer that puts a board into a category takes it out of the
  others, but for `updateCategoryBoardsOrder`, which only adds it: until `Drop` the store
  is a list but for that board (`ListsBut`), and `Drop` makes it one again (`ListsTold`),
  since nothing else happens to the store in between. That the answers and broadcasts
  themselves list a board once is part of `Typed`, because a broadcast is made from rows,
  of which a board has one.
* *BoardsHaveACategory.* `InStep` says what is true as long as nothing overlapped: a
  broadcast on its way tells what the rows are; a category shown is live or its
  deletion is announced; a deletion that has moved its boards leaves no row behind.
  Where two things are in flight they are about different things (`Apart`).
* *DatesAreDays.* `KeepsDays`: each stored instant, each dialog's and each filter's lies
  on its day at an hour where noon UTC and noon on the reader's clock have one offset
  (`SteadyOffset`), because clocks change in the morning. Writing back what was read
  then returns it. Assumed are zones whose changes lie between noon UTC of the day
  before and noon UTC of the day (`ChangesInTheMorning`), which leaves out those whose
  clocks change at midnight (the Azores, Cuba), and instants away from a change.
* *SettingsStay.* `SettingsInv`: what was chosen is stored and kept, lost settings
  apart (`Lasting`); a page is open only in a window there is (`OpenTabs`); before the
  desktop application keeps anything no page is open and nothing was chosen (`Kept`),
  so the import of its first page changes nothing. So an import never writes what an
  open page does not show. Assumed is that `Unset` is no blob of settings
  (`UnsetAssumption`).
* *ChatIsTrue.* `ChatInv`: what the state store has of the open board "fresh" is what
  the server has (`FreshIsTrue`), kept by every load, in whatever order they come, and
  by every broadcast; so what a question tells is true when it is asked. A question
  under way is the last message, and the errors among the messages are counted out
  (`HistoryOf`), so the conversation sent is the rest of them. Assumed are finitely
  many cards and that `Nothing` is no set of people and no question
  (`NothingAssumption`).
* *TourReachesItsTips, TourNeverFallsBack.* `TourInv`: as long as no patch was sent
  while another one was not answered, at most one is sent or answered
  (`OneAtATime`), and it leads from the client's position to one that can go on, and
  forward unless the user went back (`MaySend`). Where an effect has to move the tour
  its patch is under way (`Begun`), because the effect runs when its component is
  mounted or rendered and a patch is lost only by a refusal. Assumed is that the
  application is opened at a position there is (`TourAssumption`).
* *AddedCardsAreListed, PageShowsTheServer.* `PageInv`. What the broadcasts under way
  leave, in their order, and where there is none what the page has, is what the server
  has (`NewsAreTrue`, `CardsAreTrue`, `OrdersAreTrue`); at rest nothing is under way. A
  card that is open is there, or its deletion still has its page to leave
  (`OpenIsThere`), and the question whether to delete is asked on a page with a view
  (`AskedInView`). A view written from what the user saw at the click loses no card as
  long as nothing excused has happened (`AllListed`): the order an addition will write
  contains what the view has (`AddsWell`) and the additions to it that came before
  (`InTurn`, with `Knows` for every order still to arrive), and an addition taken back
  is alone (`UndoneAlone`). What failed is in `missed`: where the page shows an order
  that nothing will bring, one of those listed it (`OrderIsTrue`), and the server has no
  card in an order that the page lacks (`SeesOrder`), so the next addition loses none.
  Every request and answer takes one script on, or out
  (`Become`), which is all that most of the lemmas need of it. Assumed are a first view
  and cards on boards that have one (`CardPageAssumption`) and, with the tour, that
  the board it makes is a board (`TourAssumption`). The proof found what two acts do
  not reach: with three, an older order of the view, loaded or broadcast, takes out of
  the page a card whose addition is under way, and the third act's order loses it.
  The property now excuses that ("older"), and the observations name it.

* *PageIsOfTheAddress.* `NavInv`. Between a request and its answer the page waits for
  what it needs: while the user is not known, `me` is asked for (`MeKnown`); a board page
  that was rendered for a user with a session has the boards and the views of the server,
  or asks for them, or the views are marked stale (`BoardsAreKnown`, `ViewsAreKnown`).
  The current board and view are those of the last rendering, or the view the redirect
  went to (`CurrentIsRendered`), and a board with views was left an address with one
  (`ViewWasPicked`); at rest the last rendering is the page. The pages of a shared board
  never lead to others without a new start (`SharedApart`), and an address pushed after
  a login or logout meets nothing that was not rendered (`ReturnsWell`). Assumed are
  finitely many views and that `None` is nothing else (`NoneAssumption`). The invariant
  was simulated with six acts over eighteen million states, which found what two acts do
  not reach: the error page of a lost board, reached again with the browser's button
  back, while another board is remembered that was lost since. Its way home leads to the
  error once more; `LostBoardIsForgotten` now speaks of the error page as it is first
  reached.

### Model-checked only

* Every liveness property (`SentIsExecuted`, `ChangesReach`, `SubscriptionsConverge`,
  `ReplayEnds`, `OpenBoardGetsACategory`, `Settles`): liveness under fairness is
  beyond the prover here.
* `HistoryExplainsCard`, but for its groups and its fields: `CardFollows` for the order
  of the contents and the blocks, and `InsertsFollow`.
* `SidebarAgrees`, but for two parts: that a quiet client shows what the server has
  needs, of every pair of reducers and requests, that they commute when they do not
  conflict.
* `ConversionsAgree`, and the properties of `BoardEditor` over sorts and groups: folds
  and recursive functions over data, so inductions over data.
* `CallsAreAnswered`, but for the session: `ServedByItsRoute` and `AnswersKeepKind` are
  about two tables without parameters, and the run tries every call on every route.
* `ContentsStayListed`, `DragLandsWhereDropped`, `CardFollowsServer`: the contents of a
  card are nested sequences that the code flattens and folds over, so inductions over
  data.

## 5. Disagreements and observations

One run is expected to fail: `isLastAdmin` and the deletion are two statements with no
lock, and the guard against a board without admins fails when two requests overlap
(`bm_last_admin`). The others were seen while modelling; the models do what the code
does.

**Server.** `callbackqueue.go:50` says Shutdown stops accepting enqueues: Enqueue loads
the flag and sends later, so it may send after a Shutdown returned, and the callback is
lost. With more than one worker callbacks start out of order, as the comment at
`callbackqueue.go:16` admits. A second Shutdown returns true while the first still
waits. Callbacks that enqueue on a full queue can block every worker until a Shutdown
expires. `deleteBlockChildren` updates `FileInfo`, which the standalone server's
database calls `file_info` (`000017_add_file_info.up.sql:1`): the statement fails after
the board's row is gone, and on SQLite its blocks stay, against `storetests/blocks.go:1238`.
A restored board brings back every block ever deleted in it. `ws/server.go:316` says
subscribing is safe; `ws/server.go:507` reads the map of listeners without the lock the
writers hold. `moveBoardToCategory` into a deleted category writes the row and then
errors; `Else("sort_order")` and its result are discarded; a board whose category was
deleted while it was being moved there keeps a row in a deleted category.

**Undo.** After a failed replay `isExecuting` stays set (`undomanager.ts:52`) and undo is
off until a reload. Redoing the copy of a card makes another card, whose undo deletes
the id `undefined`. Undoing a board's creation is refused as a whole if its view was
deleted; redoing makes a board with a new id while later commands name the old one.
Every board made in the selector records two commands, so one undo shows nothing.
Undoing a deletion opens the board before the undelete is sent, and ends at "Board not
found". A refused copy is recorded with `undefined` and its undo throws. `onDelete` of
the dialogs is never awaited, so their error path is unreachable. `deleteProperty`
leaves values on cards the view does not show, whatever `cardDetailProperties.tsx:109`
tells the user. `UndoRestores` of `BoardEditor` speaks of one undo right after the edit.

**Board.** `manualOrder` is no order (`store/cards.ts:207`). `changePropertyTypeAndName`
loses the options when the view shows no card and leaves hidden cards as they were.
The table's `onDropToGroup` throws when a selected card is not shown, after it changed
others. A patch loses the index of an inserted property. With several sort keys the
earlier ones have no effect.

**Categories.** A custom category named "Boards" takes its boards with it when deleted,
although the dialog (`sidebarCategory.tsx:165`) promises they move back. A drag uses the
index among the visible boards in a list of all. Opening a hidden board of another
category sends the request for the previously open board's category. A broadcast of the
content of a category that overtakes the one of its creation loses the board. A batch of
a removal and an addition applies the removal late (`store/boards.ts:70`). The reordering
of a category's boards has no handler in the client. A `nextBoardId` of index 0 is
falsy, so the next board is none (`sidebarCategory.tsx:191`).

**Card.** Early returns lose what follows in a batch (`contents.ts:29`, `comments.ts:27`);
a broadcast of a deleted block has no type, so every reducer sees it. A dialog nobody
touched overwrites another's title as it closes (`cardDetail.tsx:132`).
`textElement.tsx:31` never takes in a new text. Dropping above or below its own row
leaves an empty row; deleting an element deletes its row; the new editor shows only
the first of a row. Two quick additions lose the first from `cardOrder`, and so does an
addition after the board was loaded anew, or an older order of the view arrived, while
another was under way (`octoClient.ts` sends the whole order of the click); a late answer
throws the user back to the page of the click. When the request for the order fails
(`centerPanel.tsx:216`, `:297`) the card is on the server and in no order, the page keeps
the order it has listed already (`:203`, `:289`), and nobody is told; an unanswered one
is not recorded, so an undo takes back the card only. Undoing a card made from a template
puts the order back and leaves the card: `mutator.ts:1052` looks for the id in the pair
`duplicateCard` returned. The tour is dead at the steps "open a
card" and "copy link", which no component mounts, and at a card without contents.

**Dates.** `displayValue` and the calculations earliest and latest show the stored
instant without the offset: a day later east of UTC+12, in CSV too. The filter of the
time of creation uses UTC days with midnight on neither. Reversed ranges are on no day.
Imported instants (Jira, Deck) are not at noon, so "is" never matches them.

**Conversions.** Todoist with two projects: all blocks get the last board's id. Jira: a
value first seen after an empty field loses its option; one item alone, or none, throws
(`jiraImporter.ts:59`, `:96`), so nothing is imported and the property has nothing to say. Notion:
two cards of one title get the same text. Cards keep the old board's id as parent;
the ids of `cardOrder` are not among those that `GenerateBlockIDs` renews. In CSV quotes
are dropped and commas split; a renamed header becomes "Untitled". `countUniqueValue`
throws on imported text; `percentChecked` of no cards is NaN.

**Navigation.** An expired session sends the user through error, login and home until a
reload, because only `fetchMe` resets `loggedIn` (`Settles` excuses it). A remembered
view that was deleted is a blank page. The loop over categories leaves only the inner
loop. A refusal to join throws the user off the board opened meanwhile. A private board
without blocks is "not found" to its member. The page "board not found" reached again by
going back or reloading leads home to the last board, which may be lost by then too.

**Calls and sharing.** `createBoard`, `patchBlocks`, `getBlocksWithParent`,
`getBlocksWithType`, `getBlocksForBoard`, `getMyTopBoards`, `getTeamTopBoards` (without
callers), `notifyAdminUpgrade` and `getBoardsCloudLimits` (in use) have no route and are
answered the page with 200. The late answer of a logout removes the token of a login
in another tab. Broadcasts carry no minimum role, so a member's role may be shown too
low until a reload. `deleteBoardMember` removes the user from the store even if refused.
A click before the link is loaded makes a new token without the question. The selector
of notifications sends a hard-coded token.

**Settings and chatbot.** Nothing writes the storage's `timestamp`, so the guard against
an older blob (`userSettings.ts:182`) never refuses; "Home" of the Mac application
reverts what was changed since it started. The switch for random icons flips the stored
setting and its own state apart. The content of the open card is never told to the
assistant, although its README says so; errors are shown but not in the conversation,
so two questions follow each other; the conversation survives a logout; between opening
a board and its answers the assistant is told of the board without its cards.

## 6. Not modelled, and why

Input and output (files, webhooks, telemetry, parsing of files), layout and wording,
migrations that run before the server serves, and what belongs to Mattermost (its store
layer, permissions, plugin adapter, notifications). Subscriptions, hints and mentions
have no caller in the repository. Of `LiveUpdates`, subscriptions with a read token,
messages about configuration, the plugin mode of the client; a torn read of the index
is not told apart from a crash. Of `Sidebar`, the order of categories and boards and
the creation of the default category by two first requests. Of `CardPage`, the redo of
an addition, a request served whose answer is lost, a second failure, attachments, the calendar's new cards. Of `Navigation`, several teams, old
addresses, profile and password. Of `BoardLifecycle`, global templates, channels,
guests. In `CardDetail`, failed requests between an insertion and the order. Each
component's `note` in `PROJECT.json` says what is left out.

Properties that were dropped because a stronger one covers them, and what they said:
that callbacks of one worker are executed in order (`OvertakenIsHeld` says it of any
number), that a full queue holds back senders (the shape of the model), that Shutdown
returns (it expires).

## 7. Plan

1. Proofs: the rest of `SidebarAgrees`, starting from `InStep`; of
   `HistoryExplainsCard`, one operation at a time.
2. `SidebarAgrees` for three boards, where a drag past two others differs.
3. A second fault in `live`, for `reopenMaxRetries`.
4. Galleries and calendars in `BoardEditor`.

------------------------------- MODULE Chatbot -------------------------------
(***************************************************************************)
(* The assistant of the web application: a window that is there on every   *)
(* page, a conversation that lasts until the page is loaded anew, and a    *)
(* service elsewhere that answers or fails.  With each question goes the   *)
(* whole conversation and what the state store knows of the open board at  *)
(* that moment: its view, its cards, the first of them by title, and its   *)
(* members.                                                                *)
(*                                                                         *)
(* Meanwhile the user changes boards, whose blocks and members are asked   *)
(* for and answered in any order, and other users add and delete cards and *)
(* join and leave.  Broadcasts reach the page at once and tell of every    *)
(* board of the user, of whom nobody takes the boards away.                *)
(***************************************************************************)
EXTENDS Naturals, Sequences, FiniteSets

CONSTANTS Rooms,       \* boards of the user, each with one view
          Notes,       \* their cards
          RoomOf,      \* the board of each card
          NoteTemplates, \* those that are templates
          People,      \* other users
          NoteLimit,   \* how many cards are told by title: ten
          Nothing,
          MaxQuestions, \* what the user asks
          MaxTurns     \* what else the users do

ASSUME ChatbotAssumption ==
    /\ RoomOf \in [Notes -> Rooms] /\ NoteTemplates \subseteq Notes /\ Nothing \notin Rooms
    /\ {NoteLimit, MaxQuestions, MaxTurns} \subseteq Nat /\ IsFiniteSet(Notes)

VARIABLES talk,    \* the window: whether it is open, something is typed, an answer awaited,
                   \* the messages it shows and the conversation it sends
          asking,  \* the question under way: what was sent and told, and what was true
          looking, \* the state store: the open board, whose views it has, cards, members
                   \* of the boards, users
          loads,   \* what the page asked the server
          notes,   \* the cards at the server
          joined,  \* the members of the boards at the server
          fresh,   \* history: of "cards", "members" and "people", what the store has
                   \* from an answer for the open board that was true when it came
          questions, turns

chatVars == <<talk, asking, looking, loads, notes, joined, fresh, questions, turns>>

NewTalk == [open |-> FALSE, typed |-> FALSE, loading |-> FALSE, messages |-> <<>>, history |-> <<>>]
NothingLooked == [board |-> Nothing, views |-> Nothing, notes |-> {},
                  members |-> [r \in Rooms |-> Nothing], people |-> {}]

-----------------------------------------------------------------------------
(* What the assistant is told.                                             *)

NotesIn(r, ns) == {n \in ns \ NoteTemplates : RoomOf[n] = r}

\* Mutant: cards of other boards, which broadcasts bring into the store, are told.
CurrentNotesOfAll(l) == IF l.board = Nothing THEN {} ELSE l.notes \ NoteTemplates

CurrentNotes(l) == IF l.board = Nothing THEN {} ELSE NotesIn(l.board, l.notes)

\* Mutant: the users of the board opened before are told.
BoardMembersAreUsers(l) == IF l.board = Nothing THEN {} ELSE l.people

\* Members whose user the store does not have are left out; members never loaded
\* are Nothing.
BoardMembers(l) ==
    IF l.board = Nothing \/ l.members[l.board] = Nothing THEN {} ELSE l.members[l.board] \cap l.people

\* collectChatbotContext, and of its cards what formatContextForAI lists.
Told(listed) ==
    [board |-> looking.board,
     view |-> IF looking.views = looking.board THEN looking.views ELSE Nothing,
     total |-> Cardinality(CurrentNotes(looking)), listed |-> listed,
     members |-> BoardMembers(looking)]

\* formatContextForAI: the first cards of the store.
Listings ==
    LET all == CurrentNotes(looking)
        first == IF Cardinality(all) <= NoteLimit THEN Cardinality(all) ELSE NoteLimit
    IN  {ns \in SUBSET all : Cardinality(ns) = first}

-----------------------------------------------------------------------------
(* The window.                                                             *)

ToggleChat ==
    /\ talk' = [talk EXCEPT !.open = ~@]
    /\ UNCHANGED <<asking, looking, loads, notes, joined, fresh, questions, turns>>

\* The field is disabled while an answer is awaited.
Write ==
    /\ talk.open /\ ~talk.loading /\ ~talk.typed
    /\ talk' = [talk EXCEPT !.typed = TRUE]
    /\ UNCHANGED <<asking, looking, loads, notes, joined, fresh, questions, turns>>

\* getResponse and callCerebrasAPI: the conversation and the context as they are now.
GetResponse(history, told) ==
    asking' = [sent |-> history, told |-> told, fresh |-> fresh,
               notes |-> IF looking.board = Nothing THEN {} ELSE NotesIn(looking.board, notes),
               members |-> IF looking.board = Nothing THEN {} ELSE joined[looking.board]]

HandleSendMessage ==
    /\ talk.open /\ talk.typed /\ ~talk.loading /\ questions < MaxQuestions
    /\ questions' = questions + 1
    /\ LET said == [who |-> "user", no |-> questions']
           history == Append(talk.history, said)
       IN  /\ talk' = [talk EXCEPT !.typed = FALSE, !.loading = TRUE, !.history = history,
                                   !.messages = Append(@, said)]
           /\ \E listed \in Listings : GetResponse(history, Told(listed))
    /\ UNCHANGED <<looking, loads, notes, joined, fresh, turns>>

\* Mutant: an error is said in the conversation, too.
RepliedErrorsToo(t, reply) ==
    [t EXCEPT !.loading = FALSE, !.messages = Append(@, reply), !.history = Append(@, reply)]

\* An error is shown, and not part of the conversation.
Replied(t, reply) ==
    [t EXCEPT !.loading = FALSE, !.messages = Append(@, reply),
              !.history = IF reply.who = "error" THEN @ ELSE Append(@, reply)]

\* The service answers or fails; the window may be closed.
Reply ==
    /\ asking # Nothing
    /\ \E who \in {"assistant", "error"} :
         talk' = Replied(talk, [who |-> who, no |-> talk.messages[Len(talk.messages)].no])
    /\ asking' = Nothing
    /\ UNCHANGED <<looking, loads, notes, joined, fresh, questions, turns>>

-----------------------------------------------------------------------------
(* The board page and the server.                                          *)

Turn == turns < MaxTurns /\ turns' = turns + 1
LoadOf(kind, r, p) == [kind |-> kind, board |-> r, person |-> p, no |-> turns', answer |-> Nothing]

\* The page is loaded anew.
ReloadPage ==
    /\ Turn
    /\ talk' = NewTalk /\ asking' = Nothing /\ looking' = NothingLooked /\ loads' = {} /\ fresh' = {}
    /\ UNCHANGED <<notes, joined, questions>>

ShowRoom(r) ==
    /\ Turn /\ r # looking.board
    /\ looking' = [looking EXCEPT !.board = r]
    /\ loads' = loads \cup {LoadOf("blocks", r, Nothing)}
    /\ fresh' = {}
    /\ UNCHANGED <<talk, asking, notes, joined, questions>>

TrueAnswer(l) ==
    CASE l.kind = "blocks" -> {n \in notes : RoomOf[n] = l.board}
      [] l.kind = "members" -> joined[l.board]
      [] l.kind = "user" -> {l.person}

\* The server reads what was asked for.
ServeLoad(l) ==
    /\ l.answer = Nothing
    /\ loads' = (loads \ {l}) \cup {[l EXCEPT !.answer = TrueAnswer(l)]}
    /\ UNCHANGED <<talk, asking, looking, notes, joined, fresh, questions, turns>>

\* The blocks of a board replace views and cards, whichever board is open by
\* then; its members are asked for.
NotesLoaded(l) ==
    /\ l.kind = "blocks" /\ l.answer # Nothing
    /\ looking' = [looking EXCEPT !.views = l.board, !.notes = l.answer \ NoteTemplates]
    /\ loads' = (loads \ {l}) \cup {[l EXCEPT !.kind = "members", !.answer = Nothing]}
    /\ fresh' = IF l.board = looking.board /\ l.answer = TrueAnswer(l) THEN fresh \cup {"cards"}
                ELSE fresh \ {"cards"}
    /\ UNCHANGED <<talk, asking, notes, joined, questions, turns>>

\* fetchBoardMembers: the users replace those of all boards.
MembersLoaded(l) ==
    /\ l.kind = "members" /\ l.answer # Nothing
    /\ looking' = [looking EXCEPT !.members[l.board] = l.answer, !.people = l.answer]
    /\ loads' = loads \ {l}
    /\ fresh' = IF l.board # looking.board THEN fresh \ {"people"}
                ELSE IF l.answer = TrueAnswer(l) THEN fresh \cup {"members", "people"}
                ELSE fresh \ {"members", "people"}
    /\ UNCHANGED <<talk, asking, notes, joined, questions, turns>>

\* addBoardUsers.
UserLoaded(l) ==
    /\ l.kind = "user" /\ l.answer # Nothing
    /\ looking' = [looking EXCEPT !.people = @ \cup l.answer]
    /\ loads' = loads \ {l}
    /\ UNCHANGED <<talk, asking, notes, joined, fresh, questions, turns>>

\* Others add and delete cards of every board; updateCards.
ChangeNote(n) ==
    /\ Turn
    /\ \/ n \notin notes /\ notes' = notes \cup {n}
          /\ looking' = [looking EXCEPT !.notes = IF n \in NoteTemplates THEN @ ELSE @ \cup {n}]
       \/ n \in notes /\ notes' = notes \ {n} /\ looking' = [looking EXCEPT !.notes = @ \ {n}]
    /\ UNCHANGED <<talk, asking, loads, joined, fresh, questions>>

\* Another user joins a board.  Members of a board that were never loaded are not
\* kept; a user the store does not have is asked for.
Join(p, r) ==
    /\ Turn /\ p \notin joined[r]
    /\ joined' = [joined EXCEPT ![r] = @ \cup {p}]
    /\ looking' = [looking EXCEPT !.members[r] = IF @ = Nothing THEN @ ELSE @ \cup {p}]
    /\ IF p \in looking.people THEN UNCHANGED <<loads, fresh>>
       ELSE /\ loads' = loads \cup {LoadOf("user", r, p)}
            /\ fresh' = IF r = looking.board THEN fresh \ {"people"} ELSE fresh
    /\ UNCHANGED <<talk, asking, notes, questions>>

\* Another user leaves a board: the store loses the user for every board.
Leave(p, r) ==
    /\ Turn /\ p \in joined[r]
    /\ joined' = [joined EXCEPT ![r] = @ \ {p}]
    /\ looking' = [looking EXCEPT !.members[r] = IF @ = Nothing THEN @ ELSE @ \ {p},
                                  !.people = @ \ {p}]
    /\ fresh' = IF r # looking.board THEN fresh \ {"people"} ELSE fresh
    /\ UNCHANGED <<talk, asking, loads, notes, questions>>

-----------------------------------------------------------------------------
ChatInit ==
    /\ talk = NewTalk /\ asking = Nothing /\ looking = NothingLooked /\ loads = {} /\ fresh = {}
    /\ notes \in SUBSET Notes /\ joined \in [Rooms -> SUBSET People]
    /\ questions = 0 /\ turns = 0

ChatNext ==
    \/ ToggleChat \/ Write \/ HandleSendMessage \/ Reply \/ ReloadPage
    \/ \E r \in Rooms : ShowRoom(r)
    \/ \E l \in loads : ServeLoad(l) \/ NotesLoaded(l) \/ MembersLoaded(l) \/ UserLoaded(l)
    \/ \E n \in Notes : ChangeNote(n)
    \/ \E p \in People, r \in Rooms : Join(p, r) \/ Leave(p, r)

ChatSpec == ChatInit /\ [][ChatNext]_chatVars
-----------------------------------------------------------------------------
(* Properties.                                                             *)

Saying(who) == [who : who, no : 1 .. MaxQuestions]
Loaded == {"cards", "members", "people"}

\* What is told and a question under way; Nothing stands for none.
Tellings == [board : Rooms \cup {Nothing}, view : Rooms \cup {Nothing}, total : Nat,
             listed : SUBSET Notes, members : SUBSET People]
Askings == [sent : Seq(Saying({"user", "assistant"})), told : Tellings, fresh : SUBSET Loaded,
            notes : SUBSET Notes, members : SUBSET People]
ASSUME NothingAssumption == (\A ps \in SUBSET People : ps # Nothing) /\ Nothing \notin Askings

\* Each variable has the values the code gives it.
ChatTypeOK ==
    /\ talk \in [open : BOOLEAN, typed : BOOLEAN, loading : BOOLEAN,
                 messages : Seq(Saying({"user", "assistant", "error"})),
                 history : Seq(Saying({"user", "assistant"}))]
    /\ asking \in Askings \cup {Nothing}
    /\ looking \in [board : Rooms \cup {Nothing}, views : Rooms \cup {Nothing},
                    notes : SUBSET (Notes \ NoteTemplates),
                    members : [Rooms -> (SUBSET People) \cup {Nothing}], people : SUBSET People]
    /\ \A l \in loads : /\ l.kind \in {"blocks", "members", "user"} /\ l.board \in Rooms
                        /\ l.answer # Nothing => l.answer \subseteq Notes \cup People
    /\ notes \subseteq Notes /\ joined \in [Rooms -> SUBSET People] /\ fresh \subseteq Loaded

\* The messages up to one that are no errors.
Spoken(ms, k) == {j \in 1 .. k : ms[j].who # "error"}

\* The messages are questions and their answers by turns, an answer is awaited
\* exactly while the last question has none, and what is sent is the conversation
\* without the errors, ending in that question.
ChatInTurn ==
    LET ms == talk.messages
    IN  /\ \A i \in DOMAIN ms :
              /\ ms[i].who = "user" <=> i % 2 = 1
              /\ i % 2 = 0 => ms[i].no = ms[i - 1].no
        /\ talk.loading <=> Len(ms) % 2 = 1
        /\ talk.loading <=> asking # Nothing
        /\ Len(talk.history) = Cardinality(Spoken(ms, Len(ms)))
        /\ \A k \in Spoken(ms, Len(ms)) : talk.history[Cardinality(Spoken(ms, k))] = ms[k]
        /\ asking # Nothing => /\ asking.sent = talk.history
                              /\ asking.sent[Len(asking.sent)] = ms[Len(ms)]

\* The assistant is told of the open board, and once the answers for that board
\* came and none outdated or for another board since: how many cards it has, the
\* titles of as many as are told, all of them that board's and there, and of
\* exactly its members, but for those who left another board or just joined.
ToldIsTrue ==
    asking # Nothing =>
        LET told == asking.told
        IN  /\ told.view \in {told.board, Nothing}
            /\ told.board = Nothing => told.total = 0 /\ told.members = {}
            /\ "cards" \in asking.fresh =>
                  /\ told.total = Cardinality(asking.notes) /\ told.listed \subseteq asking.notes
                  /\ Cardinality(told.listed) < told.total => Cardinality(told.listed) = NoteLimit
            /\ "members" \in asking.fresh =>
                  /\ told.members \subseteq asking.members
                  /\ "people" \in asking.fresh => told.members = asking.members

\* The three together: the conversation is in turn and the assistant knows what
\* the page knows.
ChatAgrees == ChatTypeOK /\ ChatInTurn /\ ToldIsTrue
=============================================================================

--------------------------- MODULE MCClientCalls ---------------------------
(* Three parts of one run: the requests of one board's members, each of    *)
(* their database calls a step; the calls of the web client; and the       *)
(* dialog `Share' with its requests, broadcasts and other users.           *)
EXTENDS BoardMembers, ClientCalls, ShareBoard

CONSTANTS Ann, Bob
SomeGrants == {{"admin", "editor"}, {"viewer"}}

\* Boards the dialog opens on: the other member an editor, a viewer below the
\* minimum, or a second administrator; the link on and being loaded, or none.
SomeBoards ==
    LET with(flags) == [p \in People |-> IF p = Me THEN {"admin", "editor"}
                                         ELSE IF p = Ann THEN flags ELSE {}]
    IN  \/ StartOf(with({"editor"}), "viewer", [token |-> 1, on |-> TRUE], FALSE, {Ann})
        \/ StartOf(with({"viewer"}), "editor", None, TRUE, {})
        \/ StartOf(with({"admin", "editor"}), "none", None, TRUE, {Ann})

\* Nobody need act any more.
ShareRests == calls = <<>> /\ news = <<>> /\ UNCHANGED shareVars

VARIABLE part
MCInit == /\ Init /\ CallsInit
          /\ \/ part \in {"members", "calls"}
                /\ StartOf([p \in People |-> {"admin", "editor"}], "none", None, TRUE, {})
             \/ part = "share" /\ SomeBoards
MCNext == /\ \/ part = "members" /\ Next /\ UNCHANGED <<callVars, shareVars>>
             \/ part = "calls" /\ CallsNext /\ UNCHANGED <<vars, shareVars>>
             \/ part = "share" /\ (ShareNext \/ ShareRests)
                /\ UNCHANGED <<vars, callVars>>
          /\ UNCHANGED part
MCSpec == MCInit /\ [][MCNext]_<<vars, callVars, shareVars, part>>
=============================================================================

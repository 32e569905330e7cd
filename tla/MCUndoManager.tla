--------------------------- MODULE MCUndoManager ---------------------------
(***************************************************************************)
(* The instance of UndoManager that TLC checks.                            *)
(***************************************************************************)
EXTENDS UndoManager

\* Left out: "create" is the first half of "addContent", and "reorder" and
\* "hide" are "rename" and "property" on other cells.
CheckedOperations == AllOperations \ {"create", "reorder", "hide"}
=============================================================================

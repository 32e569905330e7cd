------------------------------- MODULE MCSidebar -------------------------------
(* An instance of Sidebar for TLC.  The specification and what is checked   *)
(* treat all boards alike, so of initial states that differ by a            *)
(* permutation of the boards one is enough.                                 *)
EXTENDS Sidebar, SequencesExt

Rank(b) == << IF b \in existing THEN 1 ELSE 0, IF b \in member THEN 1 ELSE 0,
              IF row[b].cat = Default THEN 1 ELSE 0, IF row[b].hidden THEN 1 ELSE 0 >>
Weight(b) == 8 * Rank(b)[1] + 4 * Rank(b)[2] + 2 * Rank(b)[3] + Rank(b)[4]
MCInit == Init /\ LET s == SetToSeq(Boards) IN \A i, j \in DOMAIN s : i < j => Weight(s[i]) <= Weight(s[j])
MCSpec == MCInit /\ [][Next]_vars /\ WF_vars(System /\ raced' = (raced \/ Overlap'))
=============================================================================

------------------------- MODULE UndoManager_proof -------------------------
(***************************************************************************)
(* Proofs about UndoManager, for any operations, any number of them, of    *)
(* undos and redos, and of requests that fail: the recorded commands are a *)
(* history as AbstractHistory promises it, no undo or redo that has ended  *)
(* leaves a group half done, and the recorded commands explain the fields  *)
(* of the card and of the view.                                            *)
(*                                                                         *)
(* And about BoardLifecycle, whose commands the same undo manager records, *)
(* for any number of acts and of changes by others: what is recorded       *)
(* explains which boards there are, and the page shows them.               *)
(***************************************************************************)
EXTENDS UndoManager, BoardLifecycle, SequenceTheorems, FiniteSetTheorems, WellFoundedInduction, TLAPS

\* What the abstract history takes of a list of commands cut at i.
Past(s, i) == [k \in 1 .. i |-> Step(s[k])]
Future(s, i) == [k \in 1 .. Len(s) - i |-> Step(s[i + k])]

\* A list of recorded commands: each has what Step takes.
HasSteps(command) == {"redo", "undo", "group"} \subseteq DOMAIN command
Commands(s) == (\E S : s \in Seq(S)) /\ \A k \in 1 .. Len(s) : HasSteps(s[k])
-----------------------------------------------------------------------------
(* How the cut of a list moves.                                            *)

\* The past and the future are sequences of steps.
LEMMA Cut ==
  ASSUME NEW s, NEW i \in Nat, \E S : s \in Seq(S), i <= Len(s)
  PROVE  \E T : /\ Past(s, i) \in Seq(T) /\ Len(Past(s, i)) = i
                /\ Future(s, i) \in Seq(T) /\ Len(Future(s, i)) = Len(s) - i
<1> DEFINE T == {Step(s[k]) : k \in 1 .. Len(s)}
<1>1. Len(s) \in Nat
  OBVIOUS
<1>2. \A k \in 1 .. Len(s) : Step(s[k]) \in T
  OBVIOUS
<1> HIDE DEF T
<1>3. Past(s, i) \in [1 .. i -> T]
  BY <1>1, <1>2 DEF Past
<1>4. Past(s, i) \in Seq(T) /\ Len(Past(s, i)) = i
  BY <1>3, IsASeq
<1>5. \A k \in 1 .. Len(s) - i : i + k \in 1 .. Len(s)
  BY <1>1
<1>6. Future(s, i) \in [1 .. Len(s) - i -> T]
  BY <1>2, <1>5 DEF Future
<1>7. Len(s) - i \in Nat
  BY <1>1
<1>8. Future(s, i) \in Seq(T) /\ Len(Future(s, i)) = Len(s) - i
  BY <1>6, <1>7, IsASeq
<1>9. QED BY <1>4, <1>8

\* A new command ends the past and empties the future.
LEMMA CutRecorded ==
  ASSUME NEW s, NEW i \in 0 .. Len(s), NEW e, Commands(s), HasSteps(e)
  PROVE  LET t == Append(SubSeq(s, 1, i), e)
         IN  /\ Commands(t) /\ Len(t) = i + 1 /\ t[i + 1] = e
             /\ Past(t, i + 1) # <<>>
             /\ Front(Past(t, i + 1)) = Past(s, i)
             /\ Future(t, i + 1) = <<>>
<1> DEFINE t == Append(SubSeq(s, 1, i), e)
<1>1. PICK S : s \in Seq(S)
  BY DEF Commands
<1>2. Len(s) \in Nat /\ i \in Nat /\ i <= Len(s)
  BY <1>1
<1>3. SubSeq(s, 1, i) \in Seq(S) /\ Len(SubSeq(s, 1, i)) = i /\ \A k \in 1 .. i : SubSeq(s, 1, i)[k] = s[k]
  BY <1>1, <1>2, SubSeqProperties
<1>4. SubSeq(s, 1, i) \in Seq(S \cup {e})
  BY <1>3, SeqMonotonic
<1>5. /\ t \in Seq(S \cup {e}) /\ Len(t) = i + 1
      /\ t[i + 1] = e /\ \A k \in 1 .. i : t[k] = s[k]
  BY <1>3, <1>4, AppendProperties
<1> HIDE DEF t
<1>6. Commands(t)
  <2>1. \A k \in 1 .. i + 1 : k = i + 1 \/ k \in 1 .. i
    BY <1>2
  <2>2. \A k \in 1 .. i : k \in 1 .. Len(s)
    BY <1>2
  <2> QED BY <1>5, <2>1, <2>2 DEF Commands
<1>7. PICK T : Past(t, i + 1) \in Seq(T) /\ Len(Past(t, i + 1)) = i + 1
               /\ Future(t, i + 1) \in Seq(T) /\ Len(Future(t, i + 1)) = 0
  BY <1>2, <1>5, Cut
<1>8. Future(t, i + 1) = <<>>
  BY <1>7, EmptySeq
<1>9. Past(t, i + 1) # <<>>
  BY <1>2, <1>7
<1>10. PICK U : Past(s, i) \in Seq(U) /\ Len(Past(s, i)) = i
  BY <1>1, <1>2, Cut
<1>11. Front(Past(t, i + 1)) = Past(s, i)
  <2>1. Front(Past(t, i + 1)) = SubSeq(Past(t, i + 1), 1, i)
    BY <1>2, <1>7 DEF Front
  <2>2. /\ Front(Past(t, i + 1)) \in Seq(T) /\ Len(Front(Past(t, i + 1))) = i
        /\ \A k \in 1 .. i : Front(Past(t, i + 1))[k] = Past(t, i + 1)[k]
    BY <2>1, <1>2, <1>7, SubSeqProperties, SMTT(40)
  <2>3. \A k \in 1 .. i : Past(t, i + 1)[k] = Past(s, i)[k]
    BY <1>2, <1>5 DEF Past
  <2> HIDE DEF Front
  <2>4. Front(Past(t, i + 1)) \in Seq(T \cup U) /\ Past(s, i) \in Seq(T \cup U)
    BY <1>10, <2>2, SeqMonotonic
  <2> QED BY <1>10, <2>2, <2>3, <2>4, SeqEqual
<1>12. QED BY <1>5, <1>6, <1>8, <1>9, <1>11 DEF t

\* Undo moves the last of the past to the front of the future.
LEMMA CutBack ==
  ASSUME NEW s, NEW i \in 1 .. Len(s), Commands(s)
  PROVE  /\ Past(s, i) # <<>>
         /\ Past(s, i - 1) = Front(Past(s, i))
         /\ Future(s, i - 1) = <<Last(Past(s, i))>> \o Future(s, i)
<1>1. PICK S : s \in Seq(S)
  BY DEF Commands
<1>2. Len(s) \in Nat /\ i \in Nat /\ i <= Len(s) /\ i - 1 \in Nat /\ i >= 1
  BY <1>1
<1>3. PICK T : Past(s, i) \in Seq(T) /\ Len(Past(s, i)) = i
               /\ Future(s, i) \in Seq(T) /\ Len(Future(s, i)) = Len(s) - i
  BY <1>1, <1>2, Cut
<1>4. i - 1 <= Len(s)
  BY <1>2
<1>5. PICK U : Past(s, i - 1) \in Seq(U) /\ Len(Past(s, i - 1)) = i - 1
               /\ Future(s, i - 1) \in Seq(U) /\ Len(Future(s, i - 1)) = Len(s) - (i - 1)
  BY <1>1, <1>2, <1>4, Cut
<1>6. Past(s, i) # <<>>
  BY <1>2, <1>3
<1> DEFINE p == Past(s, i)  f == Future(s, i)  V == T \cup U
<1>7. p \in Seq(V) /\ f \in Seq(V) /\ Past(s, i - 1) \in Seq(V) /\ Future(s, i - 1) \in Seq(V)
  BY <1>3, <1>5, SeqMonotonic
<1> HIDE DEF V
<1>8. Past(s, i - 1) = Front(p)
  <2>1. Front(p) = SubSeq(p, 1, i - 1)
    BY <1>3 DEF Front
  <2>2. /\ Front(p) \in Seq(V) /\ Len(Front(p)) = i - 1
        /\ \A k \in 1 .. i - 1 : Front(p)[k] = p[k]
    BY <2>1, <1>2, <1>3, <1>7, SubSeqProperties
  <2>3. \A k \in 1 .. i - 1 : p[k] = Past(s, i - 1)[k]
    BY <1>2 DEF Past
  <2> HIDE DEF p
  <2> QED BY <1>5, <1>7, <2>2, <2>3, SeqEqual
<1>9. Future(s, i - 1) = <<Last(p)>> \o f
  <2>1. Last(p) = Step(s[i])
    BY <1>2, <1>3 DEF Last, Past
  <2>2. Last(p) \in V
    <3>1. i \in 1 .. Len(p)
      BY <1>2, <1>3
    <3>2. p[i] \in V
      BY <1>7, <3>1, ElementOfSeq
    <3> QED BY <1>3, <3>2 DEF Last
  <2>3. <<Last(p)>> \in Seq(V) /\ Len(<<Last(p)>>) = 1 /\ <<Last(p)>>[1] = Last(p)
    BY <2>2
  <2>4. /\ <<Last(p)>> \o f \in Seq(V) /\ Len(<<Last(p)>> \o f) = 1 + (Len(s) - i)
        /\ \A k \in 1 .. 1 + (Len(s) - i) : (<<Last(p)>> \o f)[k] = IF k <= 1 THEN <<Last(p)>>[k] ELSE f[k - 1]
    <3> DEFINE q == <<Last(p)>>
    <3> HIDE DEF p, f, q
    <3>1. Len(f) = Len(s) - i /\ q \in Seq(V) /\ Len(q) = 1 /\ f \in Seq(V)
      BY <1>3, <1>7, <2>3 DEF p, f, q
    <3>2. /\ q \o f \in Seq(V) /\ Len(q \o f) = 1 + (Len(s) - i)
          /\ \A k \in 1 .. 1 + (Len(s) - i) : (q \o f)[k] = IF k <= 1 THEN q[k] ELSE f[k - 1]
      <4>1. /\ q \o f \in Seq(V) /\ Len(q \o f) = Len(q) + Len(f)
            /\ \A k \in 1 .. Len(q) + Len(f) : (q \o f)[k] = IF k <= Len(q) THEN q[k] ELSE f[k - Len(q)]
        BY <3>1, ConcatProperties
      <4> QED BY <3>1, <4>1
    <3> QED BY <3>2 DEF q
  <2>5. ASSUME NEW k \in 1 .. 1 + (Len(s) - i) PROVE (<<Last(p)>> \o f)[k] = Future(s, i - 1)[k]
    <3>1. Future(s, i - 1)[k] = Step(s[i - 1 + k])
      BY <1>2 DEF Future
    <3>2. CASE k = 1
      BY <1>2, <2>1, <2>3, <2>4, <3>1, <3>2
    <3>3. CASE k > 1
      <4>1. k - 1 \in 1 .. Len(s) - i
        BY <1>2, <3>3
      <4>2. f[k - 1] = Step(s[i + (k - 1)])
        BY <4>1 DEF Future
      <4>3. i + (k - 1) = i - 1 + k
        BY <1>2
      <4>4. (<<Last(p)>> \o f)[k] = f[k - 1]
        <5> DEFINE g == <<Last(p)>> \o f
        <5>1. \A x \in 1 .. 1 + (Len(s) - i) : g[x] = IF x <= 1 THEN <<Last(p)>>[x] ELSE f[x - 1]
          BY <2>4
        <5> HIDE DEF g, p, f
        <5>2. g[k] = f[k - 1]
          BY <5>1, <3>3
        <5> QED BY <5>2 DEF g
      <4>5. f[k - 1] = Future(s, i - 1)[k]
        BY <3>1, <4>2, <4>3
      <4> QED BY <4>4, <4>5
    <3>4. k = 1 \/ k > 1
      BY <1>2
    <3> QED BY <3>2, <3>3, <3>4
  <2>6. 1 + (Len(s) - i) = Len(s) - (i - 1)
    BY <1>2
  <2> HIDE DEF p, f
  <2> QED BY <1>5, <1>7, <2>4, <2>5, <2>6, SeqEqual
<1>10. QED BY <1>6, <1>8, <1>9

\* Redo moves the first of the future to the end of the past.
LEMMA CutForth ==
  ASSUME NEW s, NEW i \in 0 .. Len(s), i < Len(s), Commands(s)
  PROVE  /\ Future(s, i) # <<>>
         /\ Past(s, i + 1) = Append(Past(s, i), Head(Future(s, i)))
         /\ Future(s, i + 1) = Tail(Future(s, i))
<1>1. PICK S : s \in Seq(S)
  BY DEF Commands
<1>2. Len(s) \in Nat /\ i \in Nat /\ i + 1 \in Nat /\ i + 1 <= Len(s)
  BY <1>1
<1>3. PICK T : Past(s, i) \in Seq(T) /\ Len(Past(s, i)) = i
               /\ Future(s, i) \in Seq(T) /\ Len(Future(s, i)) = Len(s) - i
  BY <1>1, <1>2, Cut
<1>4. PICK U : Past(s, i + 1) \in Seq(U) /\ Len(Past(s, i + 1)) = i + 1
               /\ Future(s, i + 1) \in Seq(U) /\ Len(Future(s, i + 1)) = Len(s) - (i + 1)
  BY <1>1, <1>2, Cut
<1> DEFINE p == Past(s, i)  f == Future(s, i)  V == T \cup U
<1>5. p \in Seq(V) /\ f \in Seq(V) /\ Past(s, i + 1) \in Seq(V) /\ Future(s, i + 1) \in Seq(V)
  BY <1>3, <1>4, SeqMonotonic
<1> HIDE DEF V
<1>6. f # <<>>
  BY <1>2, <1>3
<1>7. Head(f) \in V /\ Head(f) = Step(s[i + 1])
  <2>1. Head(f) = f[1] /\ f[1] \in V
    BY <1>2, <1>3, <1>5, <1>6, HeadTailProperties, ElementOfSeq
  <2>2. f[1] = Step(s[i + 1])
    BY <1>2 DEF Future
  <2> QED BY <2>1, <2>2
<1>8. Past(s, i + 1) = Append(p, Head(f))
  <2>1. /\ Append(p, Head(f)) \in Seq(V) /\ Len(Append(p, Head(f))) = i + 1
        /\ \A k \in 1 .. i : Append(p, Head(f))[k] = p[k]
        /\ Append(p, Head(f))[i + 1] = Head(f)
    BY <1>3, <1>5, <1>7, AppendProperties
  <2>2. ASSUME NEW k \in 1 .. i + 1 PROVE Append(p, Head(f))[k] = Past(s, i + 1)[k]
    <3>1. Past(s, i + 1)[k] = Step(s[k])
      BY DEF Past
    <3>2. CASE k = i + 1
      BY <1>7, <2>1, <3>1, <3>2
    <3>3. CASE k # i + 1
      <4>1. k \in 1 .. i
        BY <1>2, <3>3
      <4>2. p[k] = Step(s[k])
        BY <4>1 DEF Past
      <4> QED BY <2>1, <3>1, <4>1, <4>2
    <3> QED BY <3>2, <3>3
  <2> HIDE DEF p, f
  <2> QED BY <1>4, <1>5, <2>1, <2>2, SeqEqual
<1>9. Future(s, i + 1) = Tail(f)
  <2>1. /\ Tail(f) \in Seq(V) /\ Len(Tail(f)) = Len(s) - i - 1
        /\ \A k \in 1 .. Len(s) - i - 1 : Tail(f)[k] = f[k + 1]
    BY <1>3, <1>5, <1>6, HeadTailProperties
  <2>2. ASSUME NEW k \in 1 .. Len(s) - (i + 1) PROVE Future(s, i + 1)[k] = f[k + 1]
    <3>1. k + 1 \in 1 .. Len(s) - i
      BY <1>2
    <3>2. f[k + 1] = Step(s[i + (k + 1)]) /\ Future(s, i + 1)[k] = Step(s[i + 1 + k])
      BY <3>1 DEF Future
    <3>3. i + (k + 1) = i + 1 + k
      BY <1>2
    <3> QED BY <3>2, <3>3
  <2>3. Len(s) - i - 1 = Len(s) - (i + 1)
    BY <1>2
  <2> HIDE DEF f
  <2> QED BY <1>4, <1>5, <2>1, <2>2, <2>3, SeqEqual
<1>10. QED BY <1>6, <1>8, <1>9

Valued(s, j, v) == [s EXCEPT ![j].value = v]

\* What redo() keeps with a command changes no step.
LEMMA CutValued ==
  ASSUME NEW s, NEW j \in 1 .. Len(s), NEW v, Commands(s), NEW t, t = Valued(s, j, v)
  PROVE  /\ Commands(t) /\ Len(t) = Len(s)
         /\ \A k \in 1 .. Len(s) : Step(t[k]) = Step(s[k])
         /\ \A i \in 0 .. Len(s) : Past(t, i) = Past(s, i) /\ Future(t, i) = Future(s, i)
<1> DEFINE e == [s[j] EXCEPT !.value = v]
<1>1. PICK S : s \in Seq(S)
  BY DEF Commands
<1>2. t = [s EXCEPT ![j] = e]
  BY DEF Valued
<1>3. HasSteps(s[j])
  BY DEF Commands
<1>4. HasSteps(e) /\ Step(e) = Step(s[j])
  BY <1>3 DEF HasSteps, Step
<1> HIDE DEF e
<1>5. Len(s) \in Nat /\ DOMAIN s = 1 .. Len(s)
  BY <1>1
<1>6. s \in Seq(S \cup {e})
  BY <1>1, SeqMonotonic
<1>7. t \in Seq(S \cup {e}) /\ Len(t) = Len(s) /\ \A k \in 1 .. Len(s) : t[k] = IF k = j THEN e ELSE s[k]
  BY <1>2, <1>5, <1>6, ExceptSeq
<1>8. \A k \in 1 .. Len(s) : Step(t[k]) = Step(s[k])
  BY <1>4, <1>7
<1>9. Commands(t)
  BY <1>4, <1>7 DEF Commands
<1>10. ASSUME NEW i \in 0 .. Len(s) PROVE Past(t, i) = Past(s, i) /\ Future(t, i) = Future(s, i)
  <2>1. \A k \in 1 .. i : k \in 1 .. Len(s)
    BY <1>5
  <2>2. \A k \in 1 .. Len(s) - i : i + k \in 1 .. Len(s)
    BY <1>5
  <2>3. Past(t, i) = Past(s, i)
    BY <1>8, <2>1 DEF Past
  <2>4. Future(t, i) = Future(s, i)
    BY <1>7, <1>8, <2>2 DEF Future
  <2> QED BY <2>3, <2>4
<1>11. QED BY <1>7, <1>8, <1>9, <1>10
-----------------------------------------------------------------------------
(* The inductive invariant.                                                *)

\* The undo or redo that waits for an answer is at the command the index names,
\* in the group of that command, and holds isExecuting.
AtItsCommand ==
    /\ isExecuting
    /\ {"dir", "group"} \subseteq DOMAIN replay
    /\ \/ replay.dir = "undo" /\ index > 0 /\ replay.group = commands[index].group
       \/ replay.dir = "redo" /\ index < Len(commands) /\ replay.group = commands[index + 1].group

Kept ==
    /\ Commands(commands)
    /\ index \in 0 .. Len(commands)
    /\ replay = NoReplay \/ AtItsCommand
    /\ GroupsStayWhole

\* A step of the abstract history, or none.
Moves == [History!Next]_<<Past(commands, index), Future(commands, index)>>

LEMMA Numbers ==
  ASSUME Kept
  PROVE  /\ Len(commands) \in Nat /\ index \in Nat /\ index <= Len(commands)
         /\ DOMAIN commands = 1 .. Len(commands)
<1>1. PICK S : commands \in Seq(S)
  BY DEF Kept, Commands
<1>2. QED BY <1>1 DEF Kept

\* The operators of the instance are those of the module.
LEMMA SameEnds == \A s : History!Front(s) = Front(s) /\ History!Last(s) = Last(s)
BY DEF History!Front, Front, History!Last, Last

LEMMA NoReplayHasNoDirection == NoReplay.dir = "none"
BY DEF NoReplay

\* What does not touch the manager keeps the history.
LEMMA LeftAlone ==
  ASSUME Kept, UNCHANGED <<manager, replay>>
  PROVE  Kept' /\ Moves
<1>1. commands' = commands /\ index' = index /\ isExecuting' = isExecuting /\ replay' = replay
  BY DEF manager
<1>2. Kept'
  BY <1>1 DEF Kept, AtItsCommand, GroupsStayWhole
<1>3. Moves
  BY <1>1 DEF Moves
<1>4. QED BY <1>2, <1>3

\* A script ends a command: it is recorded unless an undo or redo runs.
LEMMA PerformKeeps ==
  ASSUME Kept, NEW s \in scripts, Perform(s)
  PROVE  Kept' /\ Moves
<1>1. CASE isExecuting
  <2>1. UNCHANGED <<manager, replay>>
    BY <1>1 DEF Perform, RegisterUndo, manager
  <2> QED BY <2>1, LeftAlone
<1>2. CASE ~isExecuting
  <2> DEFINE e == [redo |-> s.todo[1].redo, undo |-> s.todo[1].undo, group |-> s.group,
                   value |-> s.made, result |-> <<cells, present>>]
  <2>1. /\ commands' = Append(SubSeq(commands, 1, index), e)
        /\ index' = index + 1 /\ isExecuting' = isExecuting /\ replay' = replay
    BY <1>2 DEF Perform, RegisterUndo
  <2>2. HasSteps(e)
    BY DEF HasSteps
  <2> HIDE DEF e
  <2>3. /\ Commands(commands') /\ Len(commands') = index + 1
        /\ Past(commands', index') # <<>>
        /\ Front(Past(commands', index')) = Past(commands, index)
        /\ Future(commands', index') = <<>>
    BY <2>1, <2>2, CutRecorded DEF Kept
  <2>4. replay = NoReplay
    BY <1>2 DEF Kept, AtItsCommand
  <2>5. index' \in 0 .. Len(commands')
    BY <2>1, <2>3, Numbers
  <2>6. GroupsStayWhole'
    BY <2>1, <2>3, Numbers DEF GroupsStayWhole
  <2>7. Kept'
    BY <2>1, <2>3, <2>4, <2>5, <2>6 DEF Kept
  <2>8. History!Do
    BY <2>3, SameEnds DEF History!Do, Past, Future
  <2> QED BY <2>7, <2>8 DEF Moves, History!Next
<1>3. QED BY <1>1, <1>2

\* undo() and redo() begin: no command moves yet.
LEMMA BeginKeeps ==
  ASSUME Kept, Undo \/ Redo
  PROVE  Kept' /\ Moves
<1>1. commands' = commands /\ index' = index /\ isExecuting' = TRUE
  BY DEF Undo, Redo, Execute
<1>2. AtItsCommand'
  BY <1>1, Numbers DEF Undo, Redo, Execute, AtItsCommand
<1>3. Kept'
  BY <1>1, <1>2 DEF Kept, GroupsStayWhole
<1>4. Moves
  BY <1>1 DEF Moves
<1>5. QED BY <1>3, <1>4

\* A replay whose request is handled, or that sends its next one, goes on.
LEMMA ReplayGoesOn ==
  ASSUME Kept, ServeReplay \/ ContinueReplay
  PROVE  Kept' /\ Moves
<1>1. commands' = commands /\ index' = index /\ isExecuting' = isExecuting
  BY DEF ServeReplay, ContinueReplay, manager
<1>2. AtItsCommand
  BY DEF Kept, ServeReplay, ContinueReplay
<1>3. /\ {"dir", "group"} \subseteq DOMAIN replay'
      /\ replay'.dir = replay.dir /\ replay'.group = replay.group
  BY <1>2 DEF ServeReplay, ContinueReplay, AtItsCommand
<1>4. AtItsCommand'
  BY <1>1, <1>2, <1>3 DEF AtItsCommand
<1>5. Kept'
  BY <1>1, <1>4 DEF Kept, GroupsStayWhole
<1>6. Moves
  BY <1>1 DEF Moves
<1>7. QED BY <1>5, <1>6

\* The command at the index is undone, and the loop goes on with its group or
\* ends where another group, or none, begins.
LEMMA FinishUndoKeeps ==
  ASSUME Kept, FinishUndo
  PROVE  Kept' /\ Moves
<1>1. /\ AtItsCommand /\ index \in 1 .. Len(commands) /\ replay.group = commands[index].group
      /\ commands' = commands /\ index' = index - 1
  BY Numbers, NoReplayHasNoDirection DEF FinishUndo, Kept, AtItsCommand
<1>2. /\ Past(commands, index) # <<>>
      /\ Past(commands', index') = Front(Past(commands, index))
      /\ Future(commands', index') = <<Last(Past(commands, index))>> \o Future(commands, index)
  BY <1>1, CutBack DEF Kept
<1>3. Moves
  <2>1. History!Back
    BY <1>2, SameEnds DEF History!Back, Past, Future
  <2> QED BY <2>1 DEF Moves, History!Next
<1>4. Kept'
  <2>1. index' \in 0 .. Len(commands')
    BY <1>1, Numbers
  <2>2. CASE InGroup(index - 1, replay.group)
    <3>1. /\ isExecuting' = TRUE /\ index - 1 \in DOMAIN commands
          /\ replay'.dir = "undo" /\ replay'.group = replay.group
          /\ {"dir", "group"} \subseteq DOMAIN replay'
          /\ commands[index - 1].group = replay.group
      BY <2>2 DEF FinishUndo, Execute, InGroup
    <3>2. AtItsCommand'
      BY <1>1, <3>1, Numbers DEF AtItsCommand
    <3>3. GroupsStayWhole'
      BY <3>1 DEF GroupsStayWhole
    <3> QED BY <1>1, <2>1, <3>2, <3>3 DEF Kept
  <2>3. CASE ~InGroup(index - 1, replay.group)
    <3>1. replay' = NoReplay
      BY <2>3 DEF FinishUndo, Stop
    <3>2. ASSUME index' \in 1 .. Len(commands') - 1
          PROVE  commands'[index'].group = NoGroup \/ commands'[index'].group # commands'[index' + 1].group
      <4>1. index - 1 \in DOMAIN commands /\ index' + 1 = index
        BY <1>1, <3>2, Numbers
      <4>2. replay.group = NoGroup \/ commands[index - 1].group # replay.group
        BY <2>3, <4>1 DEF InGroup
      <4> QED BY <1>1, <4>1, <4>2
    <3>3. GroupsStayWhole'
      BY <3>2 DEF GroupsStayWhole
    <3> QED BY <1>1, <2>1, <3>1, <3>3 DEF Kept
  <2> QED BY <2>2, <2>3
<1>5. QED BY <1>3, <1>4

\* The command above the index is redone, likewise.
LEMMA FinishRedoKeeps ==
  ASSUME Kept, FinishRedo
  PROVE  Kept' /\ Moves
<1>1. /\ AtItsCommand /\ index \in 0 .. Len(commands) /\ index < Len(commands)
      /\ replay.group = commands[index + 1].group /\ index' = index + 1
      /\ commands' = [commands EXCEPT ![index + 1].value = replay.made]
  BY Numbers, NoReplayHasNoDirection DEF FinishRedo, Kept, AtItsCommand
<1>2. index + 1 \in 1 .. Len(commands) /\ index + 1 \in 0 .. Len(commands) /\ index \in Nat /\ Len(commands) \in Nat
  BY <1>1, Numbers
<1>3. /\ Commands(commands') /\ Len(commands') = Len(commands)
      /\ \A k \in 1 .. Len(commands) : Step(commands'[k]) = Step(commands[k])
      /\ Past(commands', index + 1) = Past(commands, index + 1)
      /\ Future(commands', index + 1) = Future(commands, index + 1)
  <2>1. Commands(commands)
    BY DEF Kept
  <2>2. \A t : t = Valued(commands, index + 1, replay.made) =>
          /\ Commands(t) /\ Len(t) = Len(commands)
          /\ \A k \in 1 .. Len(commands) : Step(t[k]) = Step(commands[k])
          /\ \A i \in 0 .. Len(commands) : Past(t, i) = Past(commands, i) /\ Future(t, i) = Future(commands, i)
    BY <1>2, <2>1, CutValued
  <2> QED BY <1>1, <1>2, <2>2 DEF Valued
<1>4. Moves
  <2>1. /\ Future(commands, index) # <<>>
        /\ Past(commands, index + 1) = Append(Past(commands, index), Head(Future(commands, index)))
        /\ Future(commands, index + 1) = Tail(Future(commands, index))
    BY <1>1, CutForth DEF Kept
  <2>2. /\ Past(commands', index') = Append(Past(commands, index), Head(Future(commands, index)))
        /\ Future(commands', index') = Tail(Future(commands, index))
    BY <1>1, <1>3, <2>1
  <2>3. History!Forth
    BY <2>1, <2>2 DEF History!Forth, Past, Future
  <2> QED BY <2>3 DEF Moves, History!Next
<1>5. \A k \in 1 .. Len(commands) : commands'[k].group = commands[k].group
  BY <1>3 DEF Step
<1>6. Kept'
  <2>1. index' \in 0 .. Len(commands')
    BY <1>1, <1>2, <1>3
  <2>2. CASE InGroup(index + 2, replay.group)
    <3>1. /\ isExecuting' = TRUE /\ index + 2 \in 1 .. Len(commands)
          /\ replay'.dir = "redo" /\ replay'.group = replay.group
          /\ {"dir", "group"} \subseteq DOMAIN replay'
          /\ commands[index + 2].group = replay.group
      BY <2>2, Numbers DEF FinishRedo, Execute, InGroup
    <3>2. commands'[index + 2].group = replay.group /\ index' + 1 = index + 2 /\ index' < Len(commands')
      BY <1>1, <1>2, <1>3, <1>5, <3>1
    <3>3. AtItsCommand'
      BY <3>1, <3>2 DEF AtItsCommand
    <3>4. GroupsStayWhole'
      BY <3>1 DEF GroupsStayWhole
    <3> QED BY <1>3, <2>1, <3>3, <3>4 DEF Kept
  <2>3. CASE ~InGroup(index + 2, replay.group)
    <3>1. replay' = NoReplay
      BY <2>3 DEF FinishRedo, Stop
    <3>2. ASSUME index' \in 1 .. Len(commands') - 1
          PROVE  commands'[index'].group = NoGroup \/ commands'[index'].group # commands'[index' + 1].group
      <4>1. index + 2 \in 1 .. Len(commands) /\ index' + 1 = index + 2 /\ index' \in 1 .. Len(commands)
        BY <1>1, <1>2, <1>3, <3>2
      <4>2. replay.group = NoGroup \/ commands[index + 2].group # replay.group
        BY <2>3, <4>1, Numbers DEF InGroup
      <4>3. commands'[index'].group = replay.group /\ commands'[index' + 1].group = commands[index + 2].group
        BY <1>1, <1>2, <1>5, <4>1
      <4> QED BY <4>2, <4>3
    <3>3. GroupsStayWhole'
      BY <3>2 DEF GroupsStayWhole
    <3> QED BY <1>3, <2>1, <3>1, <3>3 DEF Kept
  <2> QED BY <2>2, <2>3
<1>7. QED BY <1>4, <1>6

\* A request of a replay fails: nothing moves, and isExecuting stays set.
LEMMA FailReplayKeeps ==
  ASSUME Kept, FailReplay
  PROVE  Kept' /\ Moves
<1>1. commands' = commands /\ index' = index /\ isExecuting' = isExecuting /\ replay' = NoReplay
  BY DEF FailReplay, manager
<1>2. Kept'
  BY <1>1 DEF Kept, GroupsStayWhole
<1>3. Moves
  BY <1>1 DEF Moves
<1>4. QED BY <1>2, <1>3

LEMMA NextKeeps ==
  ASSUME Kept, [Next]_vars
  PROVE  Kept' /\ Moves
<1>1. CASE \E o \in Operations \ {"deleteCards"} : Start(o)
  <2>1. UNCHANGED <<manager, replay>>
    BY <1>1 DEF Start
  <2> QED BY <2>1, LeftAlone
<1>2. CASE DeleteSelected
  <2>1. UNCHANGED <<manager, replay>>
    BY <1>2 DEF DeleteSelected
  <2> QED BY <2>1, LeftAlone
<1>3. CASE \E s \in scripts : Serve(s) \/ Continue(s) \/ Fail(s)
  <2>1. UNCHANGED <<manager, replay>>
    BY <1>3 DEF Serve, Continue, Fail
  <2> QED BY <2>1, LeftAlone
<1>4. CASE \E s \in scripts : Perform(s)
  BY <1>4, PerformKeeps
<1>5. CASE Undo \/ Redo
  BY <1>5, BeginKeeps
<1>6. CASE ServeReplay \/ ContinueReplay
  BY <1>6, ReplayGoesOn
<1>7. CASE FinishUndo
  BY <1>7, FinishUndoKeeps
<1>8. CASE FinishRedo
  BY <1>8, FinishRedoKeeps
<1>9. CASE FailReplay
  BY <1>9, FailReplayKeeps
<1>10. CASE \E row \in Rows : Refresh(row)
  <2>1. UNCHANGED <<manager, replay>>
    BY <1>10 DEF Refresh
  <2> QED BY <2>1, LeftAlone
<1>11. CASE UNCHANGED vars
  <2>1. UNCHANGED <<manager, replay>>
    BY <1>11 DEF vars
  <2> QED BY <2>1, LeftAlone
<1>12. QED
  BY <1>1, <1>2, <1>3, <1>4, <1>5, <1>6, <1>7, <1>8, <1>9, <1>10, <1>11 DEF Next

LEMMA InitKeeps == Init => Kept /\ History!Init
<1> SUFFICES ASSUME Init PROVE Kept /\ History!Init
  OBVIOUS
<1>1. commands = <<>> /\ index = 0 /\ replay = NoReplay
  BY DEF Init
<1>2. commands \in Seq({}) /\ Len(commands) = 0
  BY <1>1
<1>3. Commands(commands)
  BY <1>2 DEF Commands
<1>4. GroupsStayWhole
  BY <1>1 DEF GroupsStayWhole
<1>5. Kept
  BY <1>1, <1>2, <1>3, <1>4 DEF Kept
<1>6. PICK T : /\ Past(commands, index) \in Seq(T) /\ Len(Past(commands, index)) = 0
               /\ Future(commands, index) \in Seq(T) /\ Len(Future(commands, index)) = 0
  <2>1. (\E S : commands \in Seq(S)) /\ 0 \in Nat /\ 0 <= Len(commands) /\ Len(commands) - 0 = 0
    BY <1>2
  <2>2. \E T : /\ Past(commands, 0) \in Seq(T) /\ Len(Past(commands, 0)) = 0
               /\ Future(commands, 0) \in Seq(T) /\ Len(Future(commands, 0)) = Len(commands) - 0
    BY <2>1, Cut
  <2> QED BY <1>1, <2>1, <2>2
<1>7. Past(commands, index) = <<>> /\ Future(commands, index) = <<>>
  BY <1>6, EmptySeq
<1>8. History!Init
  BY <1>7 DEF History!Init, Past, Future
<1>9. QED BY <1>5, <1>8

\* An undo or redo that has ended leaves no group half done, whatever other
\* operations began, ended or failed meanwhile (undomanager.ts).
THEOREM GroupsAreWhole == Spec => []GroupsStayWhole
<1>1. Init => Kept
  BY InitKeeps
<1>2. Kept /\ [Next]_vars => Kept'
  BY NextKeeps
<1>3. Kept => GroupsStayWhole
  BY DEF Kept
<1>4. QED BY <1>1, <1>2, <1>3, PTL DEF Spec

\* The commands are a past and a future that undo and redo move along: a new
\* command forgets the future and nothing else changes, reorders or loses one,
\* however operations, undos and redos overlap and fail (undomanager.ts).
THEOREM HistoryIsLinear == Spec => LinearHistory
<1>1. Init => Kept /\ History!Init
  BY InitKeeps
<1>2. Kept /\ [Next]_vars => Kept'
  BY NextKeeps
<1>3. Kept /\ [Next]_vars =>
        [History!Next]_<<[k \in 1 .. index |-> Step(commands[k])],
                         [k \in 1 .. Len(commands) - index |-> Step(commands[index + k])]>>
  BY NextKeeps DEF Moves, Past, Future
<1>4. QED BY <1>1, <1>2, <1>3, PTL DEF Spec, LinearHistory, History!Spec
-----------------------------------------------------------------------------
(* The fields of the card and of the view: what a list of requests does to *)
(* them is told without running it, for no two requests of a command set    *)
(* the same field.                                                         *)

Fields == Cells \ {"order"}
Sets(r, c) == r.op = "patch" /\ c \in DOMAIN r.cells

\* The requests of list turn the fields v into the fields w.
Turns(list, v, w) ==
    \A c \in Fields :
        /\ (\A i \in 1 .. Len(list) : ~Sets(list[i], c)) => w[c] = v[c]
        /\ \A i \in 1 .. Len(list) : Sets(list[i], c) => w[c] = list[i].cells[c]

SameFields(v, w) == \A c \in Fields : v[c] = w[c]
FieldsOf(v) == \A c \in Fields : v[c] \in {0, 1}

\* A list of requests, not empty, that sets fields to values they may have.
Sound(r) == \A c \in Fields : Sets(r, c) => r.cells[c] \in {0, 1}
Requests(list) ==
    (\E S : list \in Seq(S)) /\ Len(list) > 0 /\ \A i \in 1 .. Len(list) : Sound(list[i])

\* Requests that set no field.
SetsNothing(list) == \A i \in 1 .. Len(list) : \A c \in Fields : ~Sets(list[i], c)
PlainCommand(d) == SetsNothing(d.redo) /\ SetsNothing(d.undo)

\* What is left of the requests of a script or a replay.
Left(r) == IF r.answered THEN Tail(r.requests) ELSE r.requests

\* The fields after k commands, as they were recorded, and what a command does.
Held(s, k) == IF k = 0 THEN [c \in Fields |-> 0] ELSE s[k].result[1]
Leads(d, v, w) == Turns(d.redo, v, w) /\ Turns(d.undo, w, v)
FieldsLinked(s) == \A k \in 1 .. Len(s) : Leads(s[k], Held(s, k - 1), Held(s, k))

CommandSound(d) == Requests(d.redo) /\ Requests(d.undo)
ScriptSound(s) ==
    /\ DOMAIN s = {"id", "opens", "todo", "group", "requests", "made", "answered"}
    /\ (\E S : s.todo \in Seq(S)) /\ Len(s.todo) > 0
    /\ \A k \in 1 .. Len(s.todo) : CommandSound(s.todo[k])
    /\ Requests(s.requests)

\* Whatever overlaps or fails: fields have their values, lists are lists.
CellsSound == DOMAIN cells = Cells /\ FieldsOf(cells) /\ FieldsOf(copy)
ScriptsSound == \A s \in scripts : ScriptSound(s)
CommandsSound ==
    \A k \in 1 .. Len(commands) : CommandSound(commands[k]) /\ "result" \in DOMAIN commands[k]
ReplaySound ==
    replay # NoReplay =>
        /\ DOMAIN replay = {"dir", "group", "answered", "requests", "made"}
        /\ Requests(replay.requests)
AllSound == CellsSound /\ ScriptsSound /\ CommandsSound /\ ReplaySound

\* A script that sets no field, and one whose only command does.
PlainScript(s) == SetsNothing(s.requests) /\ \A k \in 1 .. Len(s.todo) : PlainCommand(s.todo[k])
Midway(s, v) ==
    /\ Len(s.todo) = 1
    /\ \E w \in [Fields -> {0, 1}] : Turns(Left(s), cells, w) /\ Leads(s.todo[1], v, w)

\* What a user who works alone sees of the fields, at every step.
Resting ==
    /\ SameFields(cells, Held(commands, index))
    /\ \A s \in scripts : PlainScript(s)
Working == \E s \in scripts : scripts = {s} /\ Midway(s, Held(commands, index))
FieldsReplaying ==
    /\ scripts = {}
    /\ replay # NoReplay
    /\ Turns(Left(replay), cells,
             Held(commands, IF replay.dir = "undo" THEN index - 1 ELSE index + 1))

Explained ==
    ~disturbed =>
        /\ FieldsLinked(commands)
        /\ IF isExecuting THEN FieldsReplaying ELSE Resting \/ Working
-----------------------------------------------------------------------------
(* Lists of requests.                                                      *)

LEMMA OneRequest ==
  ASSUME NEW r, Sound(r)
  PROVE  Requests(<<r>>) /\ ((\A c \in Fields : ~Sets(r, c)) => SetsNothing(<<r>>))
<1>1. <<r>> \in Seq({r}) /\ Len(<<r>>) = 1 /\ <<r>>[1] = r
  OBVIOUS
<1>2. \A i \in 1 .. 1 : i = 1
  OBVIOUS
<1>3. \E S : <<r>> \in Seq(S)
  BY <1>1
<1> DEFINE l == <<r>>
<1>4. (\E S : l \in Seq(S)) /\ Len(l) = 1 /\ l[1] = r
  BY <1>1, <1>3
<1> HIDE DEF l
<1>5. Requests(l) /\ ((\A c \in Fields : ~Sets(r, c)) => SetsNothing(l))
  BY <1>2, <1>4 DEF Requests, SetsNothing
<1>6. QED BY <1>5 DEF l

LEMMA TwoRequests ==
  ASSUME NEW r, NEW q, Sound(r), Sound(q)
  PROVE  /\ Requests(<<r, q>>)
         /\ (\A c \in Fields : ~Sets(r, c) /\ ~Sets(q, c)) => SetsNothing(<<r, q>>)
<1>1. <<r, q>> \in Seq({r, q}) /\ Len(<<r, q>>) = 2 /\ <<r, q>>[1] = r /\ <<r, q>>[2] = q
  OBVIOUS
<1>2. \A i \in 1 .. 2 : i = 1 \/ i = 2
  OBVIOUS
<1>3. \E S : <<r, q>> \in Seq(S)
  BY <1>1
<1> DEFINE l == <<r, q>>
<1>4. (\E S : l \in Seq(S)) /\ Len(l) = 2 /\ l[1] = r /\ l[2] = q
  BY <1>1, <1>3
<1> HIDE DEF l
<1>5. Requests(l) /\ ((\A c \in Fields : ~Sets(r, c) /\ ~Sets(q, c)) => SetsNothing(l))
  BY <1>2, <1>4 DEF Requests, SetsNothing
<1>6. QED BY <1>5 DEF l

\* SetsNothing requests leave the fields as they are.
LEMMA PlainTurns ==
  ASSUME NEW list, SetsNothing(list), NEW v, NEW w
  PROVE  Turns(list, v, w) <=> SameFields(w, v)
BY DEF SetsNothing, Turns, SameFields

\* What the requests do depends on the fields only.
LEMMA TurnsAlike ==
  ASSUME NEW list, NEW v, NEW w, NEW x, NEW y, Turns(list, v, w), SameFields(x, v), SameFields(y, w)
  PROVE  Turns(list, x, y)
BY DEF Turns, SameFields

\* One request is served, the others are left.
LEMMA TurnsOn ==
  ASSUME NEW list, Requests(list), NEW v, NEW w, NEW x, Turns(list, v, w),
         \A c \in Fields : x[c] = IF Sets(list[1], c) THEN list[1].cells[c] ELSE v[c]
  PROVE  Turns(Tail(list), x, w)
<1>1. PICK S : list \in Seq(S)
  BY DEF Requests
<1>2. Len(list) \in Nat /\ Len(list) > 0
  BY <1>1 DEF Requests
<1>3. list # <<>>
  BY <1>2
<1>4. Len(Tail(list)) = Len(list) - 1 /\ \A i \in 1 .. Len(list) - 1 : Tail(list)[i] = list[i + 1]
  BY <1>1, <1>3, HeadTailProperties
<1>5. ASSUME NEW c \in Fields
      PROVE  /\ (\A i \in 1 .. Len(Tail(list)) : ~Sets(Tail(list)[i], c)) => w[c] = x[c]
             /\ \A i \in 1 .. Len(Tail(list)) : Sets(Tail(list)[i], c) => w[c] = Tail(list)[i].cells[c]
  <2>1. ASSUME NEW i \in 1 .. Len(Tail(list)), Sets(Tail(list)[i], c)
        PROVE  w[c] = Tail(list)[i].cells[c]
    <3>1. i + 1 \in 1 .. Len(list) /\ Tail(list)[i] = list[i + 1]
      BY <1>2, <1>4
    <3> QED BY <2>1, <3>1 DEF Turns
  <2>2. ASSUME \A i \in 1 .. Len(Tail(list)) : ~Sets(Tail(list)[i], c)
        PROVE  w[c] = x[c]
    <3>1. CASE Sets(list[1], c)
      <4>1. 1 \in 1 .. Len(list)
        BY <1>2
      <4> QED BY <3>1, <4>1 DEF Turns
    <3>2. CASE ~Sets(list[1], c)
      <4>1. ASSUME NEW i \in 1 .. Len(list) PROVE ~Sets(list[i], c)
        <5>1. CASE i = 1
          BY <3>2, <5>1
        <5>2. CASE i # 1
          <6>1. i - 1 \in 1 .. Len(Tail(list)) /\ (i - 1) + 1 = i
            BY <1>2, <1>4, <5>2
          <6>2. Tail(list)[i - 1] = list[i]
            BY <1>4, <6>1
          <6> QED BY <2>2, <6>1, <6>2
        <5> QED BY <5>1, <5>2
      <4> QED BY <3>2, <4>1 DEF Turns
    <3> QED BY <3>1, <3>2
  <2> QED BY <2>1, <2>2
<1>6. QED BY <1>5 DEF Turns

\* The last request is served: nothing is left.
LEMMA TurnsEnd ==
  ASSUME NEW list, Requests(list), Len(list) = 1, NEW v, NEW w, Turns(Tail(list), v, w)
  PROVE  SameFields(w, v)
<1>1. PICK S : list \in Seq(S)
  BY DEF Requests
<1>2. list # <<>>
  BY <1>1
<1>3. Len(Tail(list)) = 0
  BY <1>1, <1>2, HeadTailProperties
<1> DEFINE t == Tail(list)
<1>4. 1 .. Len(t) = {}
  <2>1. 1 .. 0 = {}
    OBVIOUS
  <2>2. Len(t) = 0
    BY <1>3
  <2> QED BY <2>1, <2>2
<1>5. Turns(t, v, w)
  OBVIOUS
<1> HIDE DEF t
<1>6. QED BY <1>4, <1>5 DEF Turns, SameFields

\* The tail of a list.
LEMMA RequestsLeft ==
  ASSUME NEW list, Requests(list), Len(list) > 1
  PROVE  Requests(Tail(list)) /\ (SetsNothing(list) => SetsNothing(Tail(list)))
<1>1. PICK S : list \in Seq(S)
  BY DEF Requests
<1>2. Len(list) \in Nat /\ list # <<>>
  BY <1>1
<1>3. /\ Tail(list) \in Seq(S) /\ Len(Tail(list)) = Len(list) - 1
      /\ \A i \in 1 .. Len(list) - 1 : Tail(list)[i] = list[i + 1]
  BY <1>1, <1>2, HeadTailProperties
<1>4. \A i \in 1 .. Len(Tail(list)) : i + 1 \in 1 .. Len(list) /\ Tail(list)[i] = list[i + 1]
  BY <1>2, <1>3
<1>5. Len(Tail(list)) > 0
  BY <1>2, <1>3
<1>6. \A i \in 1 .. Len(Tail(list)) : Sound(Tail(list)[i])
  BY <1>4 DEF Requests
<1>7. SetsNothing(list) => SetsNothing(Tail(list))
  BY <1>4 DEF SetsNothing
<1>8. QED BY <1>3, <1>5, <1>6, <1>7 DEF Requests
-----------------------------------------------------------------------------
(* The commands of the Mutator, and the scripts the user may start.        *)

Silent(r) == \A c \in Fields : ~Sets(r, c)

\* Only a patch sets fields, and a patch of the order sets none.
LEMMA SilentRequests ==
  /\ \A v : Silent(PatchOne("order", v))
  /\ \A n : Silent(Insert(n))
  /\ \A ids : Silent(Delete(ids))
  /\ \A id : Silent(Undelete(id))
  /\ \A id, where, dst : Silent(MoveTo(id, where, dst))
  /\ Silent(Patch(<<>>))
<1>1. \A v : Silent(PatchOne("order", v))
  BY DEF Silent, PatchOne, Patch, Sets, Fields
<1>2. \A n : Silent(Insert(n))
  BY DEF Silent, Insert, Sets
<1>3. \A ids : Silent(Delete(ids))
  BY DEF Silent, Delete, Sets
<1>4. \A id : Silent(Undelete(id))
  BY DEF Silent, Undelete, Sets
<1>5. \A id, where, dst : Silent(MoveTo(id, where, dst))
  BY DEF Silent, MoveTo, Sets
<1>6. Silent(Patch(<<>>))
  <2>1. DOMAIN <<>> = {}
    OBVIOUS
  <2> QED BY <2>1 DEF Silent, Patch, Sets
<1>7. QED BY <1>1, <1>2, <1>3, <1>4, <1>5, <1>6

LEMMA SilentSound == ASSUME NEW r, Silent(r) PROVE Sound(r)
BY DEF Silent, Sound

LEMMA SilentOne == ASSUME NEW r, Silent(r) PROVE Requests(<<r>>) /\ SetsNothing(<<r>>)
BY SilentSound, OneRequest DEF Silent

LEMMA SilentTwo ==
  ASSUME NEW r, NEW q, Silent(r), Silent(q)
  PROVE  Requests(<<r, q>>) /\ SetsNothing(<<r, q>>)
BY SilentSound, TwoRequests DEF Silent

LEMMA SilentCommand ==
  ASSUME NEW r, NEW q, Silent(r), Silent(q)
  PROVE  CommandSound(Command(r, q)) /\ PlainCommand(Command(r, q))
BY SilentOne DEF Command, CommandSound, PlainCommand

\* A patch of fields and its reverse, with the old values of v.
LEMMA FieldCommand ==
  ASSUME NEW v, FieldsOf(v), NEW g, NEW h, NEW d,
         d.redo = <<Patch(g)>>, d.undo = <<Patch(h)>>, DOMAIN g = DOMAIN h,
         \A c \in Fields : c \in DOMAIN g => g[c] \in {0, 1} /\ h[c] = v[c]
  PROVE  CommandSound(d) /\ \E w \in [Fields -> {0, 1}] : Leads(d, v, w)
<1> DEFINE w == [c \in Fields |-> IF c \in DOMAIN g THEN g[c] ELSE v[c]]
<1>1. w \in [Fields -> {0, 1}]
  BY DEF FieldsOf
<1>2. /\ \A c : Sets(Patch(g), c) <=> c \in DOMAIN g
      /\ \A c : Sets(Patch(h), c) <=> c \in DOMAIN g
      /\ Patch(g).cells = g /\ Patch(h).cells = h
  BY DEF Sets, Patch
<1>3. Sound(Patch(g)) /\ Sound(Patch(h))
  BY <1>2 DEF Sound, FieldsOf
<1>4. CommandSound(d)
  BY <1>3, OneRequest DEF CommandSound
<1> DEFINE r == Patch(g)  q == Patch(h)
<1> HIDE DEF r, q
<1>5. /\ Len(<<r>>) = 1 /\ <<r>>[1] = r /\ Len(<<q>>) = 1 /\ <<q>>[1] = q
      /\ \A i \in 1 .. 1 : i = 1
  OBVIOUS
<1>6. \A c \in Fields : w[c] = IF c \in DOMAIN g THEN g[c] ELSE v[c]
  OBVIOUS
<1> HIDE DEF w
<1>7. Turns(<<r>>, v, w)
  BY <1>2, <1>5, <1>6 DEF Turns, r
<1>8. Turns(<<q>>, w, v)
  BY <1>2, <1>5, <1>6 DEF Turns, q
<1>9. Leads(d, v, w)
  BY <1>7, <1>8 DEF Leads, r, q
<1>10. QED BY <1>1, <1>4, <1>9

\* What every script the user may start is.
Startable(todo, v) ==
    /\ (\E S : todo \in Seq(S)) /\ Len(todo) > 0
    /\ \A k \in 1 .. Len(todo) : CommandSound(todo[k])
    /\ \/ \A k \in 1 .. Len(todo) : PlainCommand(todo[k])
       \/ Len(todo) = 1 /\ \E w \in [Fields -> {0, 1}] : Leads(todo[1], v, w)

LEMMA OneCommand ==
  ASSUME NEW d, NEW v, CommandSound(d),
         PlainCommand(d) \/ \E w \in [Fields -> {0, 1}] : Leads(d, v, w)
  PROVE  Startable(<<d>>, v)
<1> DEFINE l == <<d>>
<1>1. l \in Seq({d}) /\ Len(l) = 1 /\ l[1] = d
  OBVIOUS
<1> HIDE DEF l
<1>2. \E S : l \in Seq(S)
  BY <1>1
<1>3. \A k \in 1 .. Len(l) : l[k] = d
  BY <1>1
<1>4. Startable(l, v)
  BY <1>1, <1>2, <1>3 DEF Startable
<1>5. QED BY <1>4 DEF l

LEMMA TwoCommands ==
  ASSUME NEW d, NEW e, NEW v, CommandSound(d), CommandSound(e), PlainCommand(d), PlainCommand(e)
  PROVE  Startable(<<d, e>>, v)
<1> DEFINE l == <<d, e>>
<1>1. l \in Seq({d, e}) /\ Len(l) = 2 /\ l[1] = d /\ l[2] = e
  OBVIOUS
<1> HIDE DEF l
<1>2. \E S : l \in Seq(S)
  BY <1>1
<1>3. \A k \in 1 .. Len(l) : l[k] = d \/ l[k] = e
  BY <1>1
<1>4. Startable(l, v)
  BY <1>1, <1>2, <1>3 DEF Startable
<1>5. QED BY <1>4 DEF l

\* One field changed, with the old value of the client's copy.
LEMMA OneField ==
  ASSUME NEW v, FieldsOf(v), NEW c \in Fields, NEW d, NEW new \in {0, 1}, NEW old, old = v[c],
         d.redo = <<PatchOne(c, new)>>, d.undo = <<PatchOne(c, old)>>
  PROVE  Startable(<<d>>, v)
<1> DEFINE g == [x \in {c} |-> new]  h == [x \in {c} |-> old]
<1>1. DOMAIN g = DOMAIN h /\ \A x \in Fields : x \in DOMAIN g => g[x] \in {0, 1} /\ h[x] = v[x]
  OBVIOUS
<1>2. d.redo = <<Patch(g)>> /\ d.undo = <<Patch(h)>>
  BY DEF PatchOne
<1> HIDE DEF g, h
<1>3. CommandSound(d) /\ \E w \in [Fields -> {0, 1}] : Leads(d, v, w)
  BY <1>1, <1>2, FieldCommand
<1>4. QED BY <1>3, OneCommand

\* updateBlock: the patch sets the field and what the constructor has cloned.
LEMMA UpdateStartable ==
  ASSUME FieldsOf(copy), NEW c \in Fields, NEW new \in {0, 1}
  PROVE  Startable(<<UpdateBlock(c, new)>>, copy)
<1> DEFINE g == [x \in Patched(c) |-> IF x = c THEN new ELSE copy[x]]  h == [x \in Patched(c) |-> copy[x]]
           d == UpdateBlock(c, new)
<1>0. c \in Patched(c)
  BY DEF Patched
<1>1. DOMAIN g = DOMAIN h /\ \A x \in Fields : x \in DOMAIN g => g[x] \in {0, 1} /\ h[x] = copy[x]
  BY DEF FieldsOf
<1>2. d.redo = <<Patch(g)>> /\ d.undo = <<Patch(h)>>
  BY DEF UpdateBlock
<1> HIDE DEF g, h, d
<1>3. CommandSound(d) /\ \E w \in [Fields -> {0, 1}] : Leads(d, copy, w)
  BY <1>1, <1>2, FieldCommand
<1>4. Startable(<<d>>, copy)
  BY <1>3, OneCommand
<1>5. QED BY <1>4 DEF d

\* Two lists of one joined.
LEMMA JoinedOnes == \A a, b : Append(<<a>>, b) = <<a, b>> /\ <<a>> \o <<b>> = <<a, b>>
<1> TAKE a, b
<1> DEFINE S == {a, b}  x == <<a>>  y == <<b>>  z == <<a, b>>
<1>1. /\ x \in Seq(S) /\ Len(x) = 1 /\ x[1] = a
      /\ y \in Seq(S) /\ Len(y) = 1 /\ y[1] = b
      /\ z \in Seq(S) /\ Len(z) = 2 /\ z[1] = a /\ z[2] = b
      /\ b \in S
  OBVIOUS
<1> HIDE DEF S, x, y, z
<1>2. /\ Append(x, b) \in Seq(S) /\ Len(Append(x, b)) = 2
      /\ Append(x, b)[1] = a /\ Append(x, b)[2] = b
  <2>1. /\ Append(x, b) \in Seq(S) /\ Len(Append(x, b)) = Len(x) + 1
        /\ \A i \in 1 .. Len(x) : Append(x, b)[i] = x[i]
        /\ Append(x, b)[Len(x) + 1] = b
    BY <1>1, AppendProperties
  <2>2. 1 \in 1 .. Len(x) /\ Len(x) + 1 = 2
    BY <1>1
  <2> QED BY <1>1, <2>1, <2>2
<1>3. x \o y \in Seq(S) /\ Len(x \o y) = 2 /\ (x \o y)[1] = a /\ (x \o y)[2] = b
  <2>1. /\ x \o y \in Seq(S) /\ Len(x \o y) = Len(x) + Len(y)
        /\ \A i \in 1 .. Len(x) + Len(y) : (x \o y)[i] = IF i <= Len(x) THEN x[i] ELSE y[i - Len(x)]
    BY <1>1, ConcatProperties
  <2>2. 1 \in 1 .. Len(x) + Len(y) /\ 2 \in 1 .. Len(x) + Len(y) /\ Len(x) + Len(y) = 2
        /\ 1 <= Len(x) /\ ~(2 <= Len(x)) /\ 2 - Len(x) = 1
    BY <1>1
  <2> QED BY <1>1, <2>1, <2>2
<1>4. \A i \in 1 .. 2 : i = 1 \/ i = 2
  OBVIOUS
<1> DEFINE p == Append(x, b)  q == x \o y
<1>5. p = z
  <2>1. p \in Seq(S) /\ Len(p) = Len(z) /\ \A i \in 1 .. Len(p) : p[i] = z[i]
    BY <1>1, <1>2, <1>4
  <2> HIDE DEF p
  <2> QED BY <1>1, <2>1, SeqEqual
<1>6. q = z
  <2>1. q \in Seq(S) /\ Len(q) = Len(z) /\ \A i \in 1 .. Len(q) : q[i] = z[i]
    BY <1>1, <1>3, <1>4
  <2> HIDE DEF q
  <2> QED BY <1>1, <2>1, SeqEqual
<1>7. QED BY <1>5, <1>6 DEF x, y, z

\* The requests of an addition to the contents.
LEMMA AddContentIs ==
  \A k : /\ AddContent(k).redo = <<Insert(1), PatchOne("order", InsertAt(copy["order"], k, NewId))>>
         /\ AddContent(k).undo = <<PatchOne("order", copy["order"]), Delete({NewId})>>
         /\ AddContent(k).grouped
<1> TAKE k
<1>1. PICK a, b, c, e : /\ a = Insert(1) /\ b = Delete({NewId})
                        /\ c = PatchOne("order", InsertAt(copy["order"], k, NewId)) /\ e = PatchOne("order", copy["order"])
  OBVIOUS
<1>2. InsertBlock = [redo |-> <<a>>, undo |-> <<b>>, grouped |-> TRUE]
  BY <1>1 DEF InsertBlock, Command
<1>3. PICK x, y : x = <<a>> /\ y = <<b>>
  OBVIOUS
<1>4. AddContent(k) = [InsertBlock EXCEPT !.redo = Append(@, c), !.undo = <<e>> \o @]
  BY <1>1 DEF AddContent
<1>5. /\ AddContent(k).redo = Append(x, c) /\ AddContent(k).undo = <<e>> \o y /\ AddContent(k).grouped
  BY <1>2, <1>3, <1>4
<1>6. Append(x, c) = <<a, c>> /\ <<e>> \o y = <<e, b>>
  BY <1>3, JoinedOnes
<1>7. QED BY <1>1, <1>5, <1>6

\* Every operation gives such a script.
LEMMA AllStartable ==
  ASSUME FieldsOf(copy), NEW o \in AllOperations \ {"deleteCards"}, NEW todo \in ScriptsOf(o)
  PROVE  Startable(todo, copy)
<1>0. \A c \in Fields : copy[c] \in {0, 1} /\ Other(copy[c]) \in {0, 1} /\ Other(Other(copy[c])) = copy[c]
  BY DEF FieldsOf, Other
<1>a. /\ "title" \in Fields /\ "props" \in Fields /\ "hidden" \in Fields
      /\ "cardOrder" \in Fields /\ "display" \in Fields /\ "follow" \in Fields
  BY DEF Fields, Cells, CardCells, ViewCells
<1> USE SilentRequests
<1>1. CASE o = "rename"
  <2> DEFINE d == ChangeBlockField("title", Other(copy["title"]))
  <2>1. todo = <<d>>
    BY <1>1 DEF ScriptsOf
  <2>2. d.redo = <<PatchOne("title", Other(copy["title"]))>> /\ d.undo = <<PatchOne("title", copy["title"])>>
    BY DEF ChangeBlockField, Command
  <2> HIDE DEF d
  <2> QED BY <2>1, <2>2, <1>0, <1>a, OneField
<1>2. CASE o = "property"
  BY <1>2, <1>0, <1>a, UpdateStartable DEF ScriptsOf
<1>3. CASE o = "hide"
  BY <1>3, <1>0, <1>a, UpdateStartable DEF ScriptsOf
<1>4. CASE o = "reorder"
  <2> DEFINE d == ChangeViewField("cardOrder", Other(copy["cardOrder"]))
  <2>1. todo = <<d>>
    BY <1>4 DEF ScriptsOf
  <2>2. d.redo = <<PatchOne("cardOrder", Other(copy["cardOrder"]))>> /\ d.undo = <<PatchOne("cardOrder", copy["cardOrder"])>>
    BY DEF ChangeViewField, Command
  <2> HIDE DEF d
  <2> QED BY <2>1, <2>2, <1>0, <1>a, OneField
<1>5. CASE o = "display"
  <2> DEFINE d == ChangeDisplay(Other(copy["display"]))
  <2>1. todo = <<d>>
    BY <1>5 DEF ScriptsOf
  <2>2. d.redo = <<PatchOne("display", Other(copy["display"]))>> /\ d.undo = <<PatchOne("display", copy["display"])>>
    BY DEF ChangeDisplay, ChangeViewField, Command
  <2> HIDE DEF d
  <2> QED BY <2>1, <2>2, <1>0, <1>a, OneField
<1>6. CASE o = "follow"
  <2> DEFINE d == Follow(Other(copy["follow"]))
  <2>1. todo = <<d>>
    BY <1>6 DEF ScriptsOf
  <2>2. d.redo = <<PatchOne("follow", Other(copy["follow"]))>> /\ d.undo = <<PatchOne("follow", Other(Other(copy["follow"])))>>
    BY DEF Follow, Command
  <2> HIDE DEF d
  <2> QED BY <2>1, <2>2, <1>0, <1>a, OneField
<1>7. CASE o = "create"
  BY <1>7, SilentCommand, OneCommand DEF ScriptsOf, InsertBlock
<1>8. CASE o = "duplicate"
  <2>1. todo = <<DuplicateCard>>
    BY <1>8 DEF ScriptsOf
  <2>2. DuplicateCard.redo = <<Insert(1), Patch(<<>>)>> /\ DuplicateCard.undo = <<Delete({})>>
    BY DEF DuplicateCard
  <2>3. CommandSound(DuplicateCard) /\ PlainCommand(DuplicateCard)
    BY <2>2, SilentOne, SilentTwo DEF CommandSound, PlainCommand
  <2> QED BY <2>1, <2>3, OneCommand
<1>9. CASE o = "addContent"
  <2>1. PICK k : todo = <<AddContent(k)>>
    BY <1>9 DEF ScriptsOf
  <2>2. PICK r, q : AddContent(k).redo = <<Insert(1), PatchOne("order", r)>>
                    /\ AddContent(k).undo = <<PatchOne("order", q), Delete({NewId})>>
    BY AddContentIs
  <2>3. CommandSound(AddContent(k)) /\ PlainCommand(AddContent(k))
    BY <2>2, SilentTwo DEF CommandSound, PlainCommand
  <2> QED BY <2>1, <2>3, OneCommand
<1>10. CASE o = "paste"
  <2>1. todo = <<PasteImages>>
    BY <1>10 DEF ScriptsOf
  <2>2. PICK r, q : PasteImages.redo = <<Insert(2), PatchOne("order", r)>>
                    /\ PasteImages.undo = <<PatchOne("order", q), Delete({NewId, OtherNewId})>>
    BY DEF PasteImages
  <2>3. CommandSound(PasteImages) /\ PlainCommand(PasteImages)
    BY <2>2, SilentTwo DEF CommandSound, PlainCommand
  <2> QED BY <2>1, <2>3, OneCommand
<1>11. CASE o = "deleteContent"
  <2>1. PICK k : todo = DeleteContent(k)
    BY <1>11 DEF ScriptsOf
  <2>2. \A x, y : LET d == ChangeBlockField("order", x) e == DeleteBlock(y)
                  IN  CommandSound(d) /\ PlainCommand(d) /\ CommandSound(e) /\ PlainCommand(e)
    BY SilentCommand DEF ChangeBlockField, DeleteBlock
  <2> QED BY <2>1, <2>2, TwoCommands DEF DeleteContent
<1>12. CASE o = "shift"
  <2>1. PICK k : todo = <<ShiftContent(k)>>
    BY <1>12 DEF ScriptsOf
  <2>2. \A x : LET d == ChangeBlockField("order", x) IN CommandSound(d) /\ PlainCommand(d)
    BY SilentCommand DEF ChangeBlockField
  <2> QED BY <2>1, <2>2, OneCommand DEF ShiftContent
<1>13. CASE o = "move"
  <2>1. PICK k, where, dst : todo = <<MoveContent(k, where, dst)>>
    BY <1>13 DEF ScriptsOf
  <2>2. CommandSound(MoveContent(k, where, dst)) /\ PlainCommand(MoveContent(k, where, dst))
    BY SilentCommand DEF MoveContent
  <2> QED BY <2>1, <2>2, OneCommand
<1>14. QED
  BY <1>1, <1>2, <1>3, <1>4, <1>5, <1>6, <1>7, <1>8, <1>9, <1>10, <1>11, <1>12, <1>13 DEF AllOperations
-----------------------------------------------------------------------------
(* Fields keep their values and lists stay lists, whatever overlaps.       *)

\* What the server does with a request.
LEMMA ServedFields ==
  ASSUME CellsSound, NEW req, NEW made, Handle(req, made)
  PROVE  /\ DOMAIN cells' = Cells
         /\ \A c \in Fields : cells'[c] = IF Sets(req, c) THEN req.cells[c] ELSE cells[c]
<1> DEFINE m == MadeBy(req, made)
<1>0. cells' = CellsAfter(cells, present, req, m)
  BY DEF Handle
<1> HIDE DEF m
<1>1. CASE req.op = "patch"
  <2>1. cells' = [c \in Cells |-> IF c \in DOMAIN req.cells
                                  THEN NamedCell(c, req.cells[c], m) ELSE cells[c]]
    BY <1>0, <1>1 DEF CellsAfter
  <2>2. \A c \in Fields : c \in Cells /\ NamedCell(c, req.cells[c], m) = req.cells[c]
    BY DEF Fields, NamedCell
  <2>3. \A c \in Fields : Sets(req, c) <=> c \in DOMAIN req.cells
    BY <1>1 DEF Sets
  <2> QED BY <2>1, <2>2, <2>3
<1>2. CASE req.op # "patch"
  <2>1. \/ cells' = [cells EXCEPT !["order"] = Moved(@, present, req)]
        \/ cells' = cells
    BY <1>0, <1>2 DEF CellsAfter
  <2>2. \A c \in Fields : c \in Cells /\ c # "order" /\ ~Sets(req, c)
    BY <1>2 DEF Fields, Sets
  <2> QED BY <2>1, <2>2 DEF CellsSound
<1>3. QED BY <1>1, <1>2

LEMMA ServedSound ==
  ASSUME CellsSound, NEW req, NEW made, Handle(req, made), Sound(req), copy' = copy
  PROVE  CellsSound'
BY ServedFields DEF CellsSound, FieldsOf, Sound

LEMMA FirstSound ==
  ASSUME NEW list, Requests(list)
  PROVE  Sound(list[1]) /\ (SetsNothing(list) => \A c \in Fields : ~Sets(list[1], c))
<1>1. 1 \in 1 .. Len(list)
  BY DEF Requests
<1>2. QED BY <1>1 DEF Requests, SetsNothing

\* A list cut and continued.
LEMMA RecordedList ==
  ASSUME NEW s, \E S : s \in Seq(S), NEW i \in 0 .. Len(s), NEW e, NEW t, t = Append(SubSeq(s, 1, i), e)
  PROVE  Len(t) = i + 1 /\ t[i + 1] = e /\ \A k \in 1 .. i : t[k] = s[k]
<1>1. PICK S : s \in Seq(S)
  OBVIOUS
<1>2. Len(s) \in Nat /\ i \in Nat /\ i <= Len(s)
  BY <1>1
<1>3. SubSeq(s, 1, i) \in Seq(S) /\ Len(SubSeq(s, 1, i)) = i /\ \A k \in 1 .. i : SubSeq(s, 1, i)[k] = s[k]
  BY <1>1, <1>2, SubSeqProperties
<1>4. SubSeq(s, 1, i) \in Seq(S \cup {e})
  BY <1>3, SeqMonotonic
<1>5. QED BY <1>3, <1>4, AppendProperties

\* The rest of a list of commands.
LEMMA RestOfCommands ==
  ASSUME NEW todo, \E S : todo \in Seq(S), Len(todo) > 1
  PROVE  /\ \E S : Tail(todo) \in Seq(S)
         /\ Len(Tail(todo)) > 0
         /\ \A k \in 1 .. Len(Tail(todo)) : k + 1 \in 1 .. Len(todo) /\ Tail(todo)[k] = todo[k + 1]
         /\ 2 \in 1 .. Len(todo)
<1>1. PICK S : todo \in Seq(S)
  OBVIOUS
<1>2. Len(todo) \in Nat /\ todo # <<>>
  BY <1>1
<1>3. /\ Tail(todo) \in Seq(S) /\ Len(Tail(todo)) = Len(todo) - 1
      /\ \A k \in 1 .. Len(todo) - 1 : Tail(todo)[k] = todo[k + 1]
  BY <1>1, <1>2, HeadTailProperties
<1>4. Len(Tail(todo)) > 0 /\ 2 \in 1 .. Len(todo)
  BY <1>2, <1>3
<1>5. \A k \in 1 .. Len(Tail(todo)) : k + 1 \in 1 .. Len(todo) /\ Tail(todo)[k] = todo[k + 1]
  BY <1>2, <1>3
<1>6. \E T : Tail(todo) \in Seq(T)
  BY <1>3
<1>7. QED BY <1>4, <1>5, <1>6

LEMMA ScriptStarts ==
  ASSUME NEW todo, NEW v, Startable(todo, v), NEW id, NEW opens, NEW group, NEW s, s = Script(id, opens, todo, group)
  PROVE  /\ ScriptSound(s) /\ s.todo = todo /\ Left(s) = s.requests /\ s.requests = todo[1].redo
         /\ 1 \in 1 .. Len(todo)
<1>1. /\ DOMAIN s = {"id", "opens", "todo", "group", "requests", "made", "answered"}
      /\ s.todo = todo /\ s.requests = todo[1].redo /\ s.answered = FALSE
  BY DEF Script
<1>2. 1 \in 1 .. Len(todo)
  BY DEF Startable
<1>3. Requests(todo[1].redo)
  BY <1>2 DEF Startable, CommandSound
<1>4. (\E S : todo \in Seq(S)) /\ Len(todo) > 0 /\ \A k \in 1 .. Len(todo) : CommandSound(todo[k])
  BY DEF Startable
<1>5. ScriptSound(s)
  BY <1>1, <1>3, <1>4 DEF ScriptSound
<1>6. Left(s) = s.requests
  BY <1>1 DEF Left
<1>7. QED BY <1>1, <1>2, <1>5, <1>6

\* The scripts that delete the selected cards.
LEMMA DeleteStartable == \A id, v : Startable(<<DeleteBlock(id)>>, v) /\ PlainCommand(DeleteBlock(id))
<1> TAKE id, v
<1>1. CommandSound(DeleteBlock(id)) /\ PlainCommand(DeleteBlock(id))
  BY SilentCommand, SilentRequests DEF DeleteBlock
<1>2. QED BY <1>1, OneCommand

\* What becomes of a script when its request is served, when it sends the next
\* one and when it goes on to its next command.
AnsweredFields(s, made) == [s EXCEPT !.answered = TRUE, !.made = made]
Sending(s) == [s EXCEPT !.answered = FALSE, !.requests = Tail(@)]
GoingOn(s, group) ==
    [s EXCEPT !.todo = Tail(@), !.group = group, !.requests = s.todo[2].redo, !.made = <<>>, !.answered = FALSE]

LEMMA ScriptGoesOn ==
  ASSUME NEW s, ScriptSound(s)
  PROVE  /\ \A made : LET t == AnsweredFields(s, made)
                      IN  ScriptSound(t) /\ t.todo = s.todo /\ t.requests = s.requests /\ t.answered = TRUE
         /\ Len(s.requests) > 1 =>
              LET t == Sending(s)
              IN  ScriptSound(t) /\ t.todo = s.todo /\ t.requests = Tail(s.requests) /\ t.answered = FALSE
         /\ Len(s.todo) > 1 => \A group :
              LET t == GoingOn(s, group)
              IN  ScriptSound(t) /\ t.todo = Tail(s.todo) /\ t.requests = s.todo[2].redo /\ t.answered = FALSE
<1>1. ASSUME NEW made, NEW t, t = AnsweredFields(s, made)
      PROVE  ScriptSound(t) /\ t.todo = s.todo /\ t.requests = s.requests /\ t.answered = TRUE
  <2>1. DOMAIN t = DOMAIN s /\ t.todo = s.todo /\ t.requests = s.requests /\ t.answered = TRUE
    BY <1>1 DEF AnsweredFields, ScriptSound
  <2> QED BY <2>1 DEF ScriptSound
<1>2. ASSUME Len(s.requests) > 1, NEW t, t = Sending(s)
      PROVE  ScriptSound(t) /\ t.todo = s.todo /\ t.requests = Tail(s.requests) /\ t.answered = FALSE
  <2>1. DOMAIN t = DOMAIN s /\ t.todo = s.todo /\ t.requests = Tail(s.requests) /\ t.answered = FALSE
    BY <1>2 DEF Sending, ScriptSound
  <2>2. Requests(Tail(s.requests))
    BY <1>2, RequestsLeft DEF ScriptSound
  <2> QED BY <2>1, <2>2 DEF ScriptSound
<1>3. ASSUME Len(s.todo) > 1, NEW group, NEW t, t = GoingOn(s, group)
      PROVE  ScriptSound(t) /\ t.todo = Tail(s.todo) /\ t.requests = s.todo[2].redo /\ t.answered = FALSE
  <2>1. DOMAIN t = DOMAIN s /\ t.todo = Tail(s.todo) /\ t.requests = s.todo[2].redo /\ t.answered = FALSE
    BY <1>3 DEF GoingOn, ScriptSound
  <2> DEFINE r == Tail(s.todo)
  <2>2. /\ \E S : r \in Seq(S)
        /\ Len(r) > 0
        /\ \A k \in 1 .. Len(r) : k + 1 \in 1 .. Len(s.todo) /\ r[k] = s.todo[k + 1]
        /\ 2 \in 1 .. Len(s.todo)
    BY <1>3, RestOfCommands DEF ScriptSound
  <2>3. \A k \in 1 .. Len(r) : CommandSound(r[k])
    BY <2>2 DEF ScriptSound
  <2>4. Requests(s.todo[2].redo)
    BY <2>2 DEF ScriptSound, CommandSound
  <2>5. t.todo = r
    BY <2>1
  <2> HIDE DEF r
  <2> QED BY <2>1, <2>2, <2>3, <2>4, <2>5 DEF ScriptSound
<1>4. QED BY <1>1, <1>2, <1>3
\* A command is recorded, or an undo or redo runs and nothing is.
LEMMA RecordSound ==
  ASSUME Kept, CommandsSound, NEW d, CommandSound(d), NEW group, NEW made, RegisterUndo(d, group, made)
  PROVE  CommandsSound'
<1>1. CASE isExecuting
  BY <1>1 DEF RegisterUndo, CommandsSound
<1>2. CASE ~isExecuting
  <2> DEFINE e == [redo |-> d.redo, undo |-> d.undo, group |-> group,
                   value |-> made, result |-> <<cells, present>>]
  <2>1. commands' = Append(SubSeq(commands, 1, index), e)
    BY <1>2 DEF RegisterUndo
  <2>2. CommandSound(e) /\ "result" \in DOMAIN e
    BY DEF CommandSound
  <2> HIDE DEF e
  <2>3. Len(commands') = index + 1 /\ commands'[index + 1] = e /\ \A k \in 1 .. index : commands'[k] = commands[k]
    BY <2>1, RecordedList DEF Kept, Commands
  <2>4. \A k \in 1 .. index + 1 : k = index + 1 \/ (k \in 1 .. index /\ k \in 1 .. Len(commands))
    BY Numbers
  <2> QED BY <2>2, <2>3, <2>4 DEF CommandsSound
<1>3. QED BY <1>1, <1>2

\* What redo() returns takes the place of what a command keeps.
LEMMA RevaluedCommands ==
  ASSUME Kept, CommandsSound, NEW j \in 1 .. Len(commands), NEW v, commands' = [commands EXCEPT ![j].value = v]
  PROVE  /\ Len(commands') = Len(commands)
         /\ \A k \in 1 .. Len(commands) :
               /\ commands'[k].redo = commands[k].redo /\ commands'[k].undo = commands[k].undo
               /\ commands'[k].group = commands[k].group /\ commands'[k].result = commands[k].result
               /\ DOMAIN commands'[k] = DOMAIN commands[k]
<1>1. PICK S : commands \in Seq(S)
  BY DEF Kept, Commands
<1> DEFINE e == [commands[j] EXCEPT !.value = v]
<1>2. commands' = [commands EXCEPT ![j] = e]
  OBVIOUS
<1>3. {"redo", "undo", "group", "result"} \subseteq DOMAIN commands[j]
  BY DEF Kept, Commands, HasSteps, CommandsSound
<1>4. /\ e.redo = commands[j].redo /\ e.undo = commands[j].undo
      /\ e.group = commands[j].group /\ e.result = commands[j].result
      /\ DOMAIN e = DOMAIN commands[j]
  BY <1>3
<1> HIDE DEF e
<1>5. commands \in Seq(S \cup {e})
  BY <1>1, SeqMonotonic
<1>6. Len(commands') = Len(commands) /\ \A k \in 1 .. Len(commands) : commands'[k] = IF k = j THEN e ELSE commands[k]
  BY <1>2, <1>5, ExceptSeq
<1>7. QED BY <1>4, <1>6

\* execute() takes the requests of a command there is.
LEMMA ExecuteSound ==
  ASSUME CommandsSound, NEW dir, NEW k \in 1 .. Len(commands), NEW group, Execute(dir, k, group)
  PROVE  /\ ReplaySound' /\ replay' # NoReplay /\ isExecuting' /\ replay'.dir = dir
         /\ Left(replay') = IF dir = "undo" THEN commands[k].undo ELSE commands[k].redo
<1>1. replay' = [dir |-> dir, group |-> group, answered |-> FALSE,
                 requests |-> IF dir = "undo" THEN commands[k].undo ELSE commands[k].redo,
                 made |-> commands[k].value]
  BY DEF Execute
<1>2. /\ DOMAIN replay' = {"dir", "group", "answered", "requests", "made"}
      /\ replay'.requests = IF dir = "undo" THEN commands[k].undo ELSE commands[k].redo
      /\ replay'.answered = FALSE /\ replay'.dir = dir
  BY <1>1
<1>3. Requests(replay'.requests)
  BY <1>2 DEF CommandsSound, CommandSound
<1>4. replay' # NoReplay
  <2>1. DOMAIN NoReplay = {"dir"}
    BY DEF NoReplay
  <2> QED BY <1>2, <2>1
<1>5. ReplaySound'
  BY <1>2, <1>3 DEF ReplaySound
<1>6. isExecuting' = TRUE
  BY DEF Execute
<1>7. QED BY <1>2, <1>4, <1>5, <1>6 DEF Left

\* A replay is answered, or sends its next request.
LEMMA ReplayStepSound ==
  ASSUME ReplaySound, ServeReplay \/ ContinueReplay
  PROVE  /\ ReplaySound' /\ replay' # NoReplay /\ replay'.dir = replay.dir
         /\ ServeReplay => Left(replay') = Tail(Left(replay)) /\ Left(replay) = replay.requests
         /\ ContinueReplay => Left(replay') = Left(replay)
<1>1. /\ DOMAIN replay = {"dir", "group", "answered", "requests", "made"} /\ Requests(replay.requests)
  BY DEF ReplaySound, ServeReplay, ContinueReplay
<1>2. DOMAIN replay' = DOMAIN replay /\ replay'.dir = replay.dir
  BY <1>1 DEF ServeReplay, ContinueReplay
<1>3. replay' # NoReplay
  <2>1. DOMAIN NoReplay = {"dir"}
    BY DEF NoReplay
  <2> QED BY <1>1, <1>2, <2>1
<1>4. CASE ServeReplay
  <2>1. replay'.requests = replay.requests /\ replay'.answered = TRUE /\ ~replay.answered
    BY <1>1, <1>4 DEF ServeReplay
  <2>2. ~ContinueReplay
    BY <1>4 DEF ServeReplay, ContinueReplay
  <2> QED BY <1>1, <1>2, <1>3, <2>1, <2>2 DEF ReplaySound, Left
<1>5. CASE ContinueReplay
  <2>1. replay'.requests = Tail(replay.requests) /\ replay'.answered = FALSE /\ replay.answered
        /\ Len(replay.requests) > 1
    BY <1>1, <1>5 DEF ContinueReplay
  <2>2. ~ServeReplay
    BY <1>5 DEF ServeReplay, ContinueReplay
  <2>3. Requests(replay'.requests)
    BY <1>1, <2>1, RequestsLeft
  <2> QED BY <1>1, <1>2, <1>3, <2>1, <2>2, <2>3 DEF ReplaySound, Left
<1>6. QED BY <1>4, <1>5

LEMMA InitSound == Init => AllSound
<1> SUFFICES ASSUME Init PROVE AllSound
  OBVIOUS
<1>1. CellsSound
  BY DEF Init, CellsSound, FieldsOf, Fields
<1>2. scripts = {} /\ commands = <<>> /\ replay = NoReplay
  BY DEF Init
<1>3. 1 .. Len(commands) = {}
  <2>1. Len(commands) = 0
    BY <1>2
  <2>2. 1 .. 0 = {}
    OBVIOUS
  <2> QED BY <2>1, <2>2
<1>4. CommandsSound
  BY <1>3 DEF CommandsSound
<1>5. ScriptsSound /\ ReplaySound
  BY <1>2 DEF ScriptsSound, ReplaySound
<1>6. QED BY <1>1, <1>4, <1>5 DEF AllSound

\* The steps of scripts.
LEMMA ScriptStepSound ==
  ASSUME Kept, AllSound, NEW s \in scripts, Serve(s) \/ Continue(s) \/ Perform(s) \/ Fail(s)
  PROVE  AllSound'
<1> USE DEF AllSound
<1>0. ScriptSound(s)
  BY DEF ScriptsSound
<1>1. CASE Serve(s)
  <2>1. Handle(s.requests[1], s.made) /\ copy' = copy
    BY <1>1 DEF Serve
  <2>2. Sound(s.requests[1])
    BY <1>0, FirstSound DEF ScriptSound
  <2>3. CellsSound'
    BY <2>1, <2>2, ServedSound
  <2>4. scripts' = (scripts \ {s}) \cup {AnsweredFields(s, MadeBy(s.requests[1], s.made))}
    BY <1>1 DEF Serve, AnsweredFields
  <2>5. ScriptsSound'
    BY <1>0, <2>4, ScriptGoesOn DEF ScriptsSound
  <2>6. UNCHANGED <<commands, replay>>
    BY <1>1 DEF Serve, manager
  <2> QED BY <2>3, <2>5, <2>6 DEF CommandsSound, ReplaySound
<1>2. CASE Continue(s)
  <2>1. scripts' = (scripts \ {s}) \cup {Sending(s)} /\ Len(s.requests) > 1
    BY <1>2 DEF Continue, Sending
  <2>2. ScriptsSound'
    BY <1>0, <2>1, ScriptGoesOn DEF ScriptsSound
  <2>3. UNCHANGED <<cells, copy, commands, replay>>
    BY <1>2 DEF Continue, manager, server
  <2> QED BY <2>2, <2>3 DEF CommandsSound, ReplaySound, CellsSound
<1>3. CASE Perform(s)
  <2>1. UNCHANGED <<cells, copy, replay>> /\ RegisterUndo(s.todo[1], s.group, s.made)
    BY <1>3 DEF Perform, server
  <2>2. CommandSound(s.todo[1])
    <3>1. (\E S : s.todo \in Seq(S)) /\ Len(s.todo) > 0
      BY <1>0 DEF ScriptSound
    <3>2. 1 \in 1 .. Len(s.todo)
      BY <3>1
    <3> QED BY <1>0, <3>2 DEF ScriptSound
  <2>3. CommandsSound'
    BY <2>1, <2>2, RecordSound
  <2>4. \/ scripts' = scripts \ {s}
        \/ Len(s.todo) > 1 /\ scripts' = (scripts \ {s}) \cup {GoingOn(s, GroupOf(s.todo[2], undoGroupId))}
    BY <1>3 DEF Perform, GoingOn
  <2>5. Len(s.todo) > 1 => \A group : ScriptSound(GoingOn(s, group))
    BY <1>0, ScriptGoesOn
  <2>6. ScriptsSound'
    BY <2>4, <2>5 DEF ScriptsSound
  <2> QED BY <2>1, <2>3, <2>6 DEF ReplaySound, CellsSound
<1>4. CASE Fail(s)
  <2>1. UNCHANGED <<cells, copy, commands, replay>> /\ scripts' = scripts \ {s}
    BY <1>4 DEF Fail, manager, server
  <2> QED BY <2>1 DEF ScriptsSound, CommandsSound, ReplaySound, CellsSound
<1>5. QED BY <1>1, <1>2, <1>3, <1>4

\* The script the user starts: one that sets no field, or one whose only command
\* leads from what the client's copy holds to other values and back.
LEMMA StartGives ==
  ASSUME FieldsOf(copy), NEW o \in Operations \ {"deleteCards"}, Start(o)
  PROVE  \E s, todo : /\ scripts' = scripts \cup {s} /\ ScriptSound(s) /\ Startable(todo, copy)
                      /\ s.todo = todo /\ s.requests = todo[1].redo /\ Left(s) = s.requests
                      /\ 1 \in 1 .. Len(todo)
<1>1. o \in AllOperations \ {"deleteCards"}
  BY OperationsAssumption
<1>0. PICK todo \in ScriptsOf(o) :
        \E opens, group : scripts' = scripts \cup {Script(started + 1, opens, todo, group)}
  BY DEF Start
<1>2. PICK opens, group : scripts' = scripts \cup {Script(started + 1, opens, todo, group)}
  BY <1>0
<1>3. Startable(todo, copy)
  BY <1>1, AllStartable
<1> DEFINE s == Script(started + 1, opens, todo, group)
<1>4. /\ ScriptSound(s) /\ s.todo = todo /\ Left(s) = s.requests /\ s.requests = todo[1].redo
      /\ 1 \in 1 .. Len(todo)
  BY <1>3, ScriptStarts
<1> HIDE DEF s
<1>5. scripts' = scripts \cup {s}
  BY <1>2 DEF s
<1>6. QED BY <1>3, <1>4, <1>5

LEMMA DeleteGives ==
  ASSUME DeleteSelected
  PROVE  \A t \in scripts' : t \in scripts \/ (ScriptSound(t) /\ PlainScript(t))
<1>1. PICK group : scripts' = scripts \cup
         {Script(started + k, FALSE, <<DeleteBlock(2 + k)>>, group) : k \in {1, 2}}
  BY DEF DeleteSelected
<1>2. ASSUME NEW k \in {1, 2}, NEW t, t = Script(started + k, FALSE, <<DeleteBlock(2 + k)>>, group)
      PROVE  ScriptSound(t) /\ PlainScript(t)
  <2> DEFINE d == DeleteBlock(2 + k)  l == <<d>>
  <2>1. Startable(l, copy) /\ PlainCommand(d)
    BY DeleteStartable
  <2>2. l[1] = d /\ Len(l) = 1
    OBVIOUS
  <2> HIDE DEF d, l
  <2>3. PICK id, opens : t = Script(id, opens, l, group)
    BY <1>2 DEF d, l
  <2>4. ScriptSound(t) /\ t.todo = l /\ t.requests = l[1].redo
    BY <2>1, <2>3, ScriptStarts
  <2>5. \A i \in 1 .. Len(l) : i = 1
    BY <2>2
  <2> QED BY <2>1, <2>2, <2>4, <2>5 DEF PlainScript, PlainCommand
<1>3. QED BY <1>1, <1>2
\* The steps of undos and redos.
LEMMA ReplaySteps ==
  ASSUME Kept, AllSound, Undo \/ Redo \/ ServeReplay \/ ContinueReplay \/ FinishUndo \/ FinishRedo \/ FailReplay
  PROVE  AllSound'
<1> USE DEF AllSound
<1>1. CASE Undo \/ Redo
  <2>1. UNCHANGED <<cells, copy, commands, scripts>>
    BY <1>1 DEF Undo, Redo, server
  <2>2. CASE Undo
    <3>1. index \in 1 .. Len(commands) /\ Execute("undo", index, commands[index].group)
      BY <2>2, Numbers DEF Undo
    <3> QED BY <2>1, <3>1, ExecuteSound DEF CellsSound, ScriptsSound, CommandsSound
  <2>3. CASE Redo
    <3>1. index + 1 \in 1 .. Len(commands) /\ Execute("redo", index + 1, commands[index + 1].group)
      BY <2>3, Numbers DEF Redo
    <3> QED BY <2>1, <3>1, ExecuteSound DEF CellsSound, ScriptsSound, CommandsSound
  <2> QED BY <1>1, <2>2, <2>3
<1>2. CASE ServeReplay
  <2>1. Handle(replay.requests[1], replay.made) /\ copy' = copy
    BY <1>2 DEF ServeReplay
  <2>2. Sound(replay.requests[1])
    BY <1>2, FirstSound DEF ReplaySound, ServeReplay
  <2>3. CellsSound'
    BY <2>1, <2>2, ServedSound
  <2>4. ReplaySound'
    BY <1>2, ReplayStepSound
  <2>5. UNCHANGED <<commands, scripts>>
    BY <1>2 DEF ServeReplay, manager
  <2> QED BY <2>3, <2>4, <2>5 DEF ScriptsSound, CommandsSound
<1>3. CASE ContinueReplay
  <2>1. UNCHANGED <<cells, copy, commands, scripts>>
    BY <1>3 DEF ContinueReplay, server, manager
  <2>2. ReplaySound'
    BY <1>3, ReplayStepSound
  <2> QED BY <2>1, <2>2 DEF CellsSound, ScriptsSound, CommandsSound
<1>4. CASE FinishUndo
  <2>1. UNCHANGED <<cells, copy, commands, scripts>>
    BY <1>4 DEF FinishUndo, server
  <2>2. ReplaySound'
    <3>1. CASE InGroup(index - 1, replay.group)
      <4>1. index - 1 \in 1 .. Len(commands)
        BY <3>1, Numbers DEF InGroup
      <4>2. Execute("undo", index - 1, replay.group)
        BY <1>4, <3>1 DEF FinishUndo
      <4> QED BY <4>1, <4>2, ExecuteSound
    <3>2. CASE ~InGroup(index - 1, replay.group)
      BY <1>4, <3>2 DEF FinishUndo, Stop, ReplaySound
    <3> QED BY <3>1, <3>2
  <2> QED BY <2>1, <2>2 DEF CellsSound, ScriptsSound, CommandsSound
<1>5. CASE FinishRedo
  <2>1. UNCHANGED <<cells, copy, scripts>>
    BY <1>5 DEF FinishRedo, server
  <2>2. AtItsCommand /\ index + 1 \in 1 .. Len(commands)
    BY <1>5, Numbers, NoReplayHasNoDirection DEF Kept, AtItsCommand, FinishRedo
  <2>3. commands' = [commands EXCEPT ![index + 1].value = replay.made]
    BY <1>5 DEF FinishRedo
  <2>4. CommandsSound'
    <3>1. /\ Len(commands') = Len(commands)
          /\ \A k \in 1 .. Len(commands) :
               /\ commands'[k].redo = commands[k].redo /\ commands'[k].undo = commands[k].undo
               /\ DOMAIN commands'[k] = DOMAIN commands[k]
      BY <2>2, <2>3, RevaluedCommands
    <3> QED BY <3>1 DEF CommandsSound, CommandSound
  <2>5. ReplaySound'
    <3>1. CASE InGroup(index + 2, replay.group)
      <4>1. index + 2 \in 1 .. Len(commands)
        BY <3>1, Numbers DEF InGroup
      <4>2. Execute("redo", index + 2, replay.group)
        BY <1>5, <3>1 DEF FinishRedo
      <4> QED BY <4>1, <4>2, ExecuteSound
    <3>2. CASE ~InGroup(index + 2, replay.group)
      BY <1>5, <3>2 DEF FinishRedo, Stop, ReplaySound
    <3> QED BY <3>1, <3>2
  <2> QED BY <2>1, <2>4, <2>5 DEF CellsSound, ScriptsSound
<1>6. CASE FailReplay
  <2>1. UNCHANGED <<cells, copy, commands, scripts>> /\ replay' = NoReplay
    BY <1>6 DEF FailReplay, server, manager
  <2> QED BY <2>1 DEF CellsSound, ScriptsSound, CommandsSound, ReplaySound
<1>7. QED BY <1>1, <1>2, <1>3, <1>4, <1>5, <1>6

LEMMA NextSound ==
  ASSUME Kept, AllSound, [Next]_vars
  PROVE  AllSound'
<1> USE DEF AllSound
<1>1. CASE \E o \in Operations \ {"deleteCards"} : Start(o)
  <2>1. PICK o \in Operations \ {"deleteCards"} : Start(o)
    BY <1>1
  <2>2. PICK s : scripts' = scripts \cup {s} /\ ScriptSound(s)
    BY <2>1, StartGives DEF CellsSound
  <2>3. UNCHANGED <<cells, copy, commands, replay>>
    BY <2>1 DEF Start, server, manager
  <2> QED BY <2>2, <2>3 DEF CellsSound, ScriptsSound, CommandsSound, ReplaySound
<1>2. CASE DeleteSelected
  <2>1. UNCHANGED <<cells, copy, commands, replay>>
    BY <1>2 DEF DeleteSelected, server, manager
  <2>2. ScriptsSound'
    BY <1>2, DeleteGives DEF ScriptsSound
  <2> QED BY <2>1, <2>2 DEF CellsSound, CommandsSound, ReplaySound
<1>3. CASE \E s \in scripts : Serve(s) \/ Continue(s) \/ Perform(s) \/ Fail(s)
  BY <1>3, ScriptStepSound
<1>4. CASE Undo \/ Redo \/ ServeReplay \/ ContinueReplay \/ FinishUndo \/ FinishRedo \/ FailReplay
  BY <1>4, ReplaySteps
<1>5. CASE \E row \in Rows : Refresh(row)
  <2>1. PICK row : copy' = [c \in Cells |-> IF c \in row THEN cells[c] ELSE copy[c]]
    BY <1>5 DEF Refresh
  <2>2. UNCHANGED <<cells, commands, replay, scripts>>
    BY <1>5 DEF Refresh, server, manager
  <2>3. CellsSound'
    BY <2>1, <2>2 DEF CellsSound, FieldsOf, Fields
  <2> QED BY <2>2, <2>3 DEF ScriptsSound, CommandsSound, ReplaySound
<1>6. CASE UNCHANGED vars
  BY <1>6 DEF vars, server, manager, CellsSound, ScriptsSound, CommandsSound, ReplaySound
<1>7. QED
  BY <1>1, <1>2, <1>3, <1>4, <1>5, <1>6 DEF Next
-----------------------------------------------------------------------------
(* What is recorded explains the fields of a user who works alone.         *)

\* A command that leads from what is held at i to what it recorded extends a
\* linked list.
LEMMA RecordedLinks ==
  ASSUME NEW s, \E S : s \in Seq(S), FieldsLinked(s), NEW i \in 0 .. Len(s), NEW e,
         Leads(e, Held(s, i), e.result[1]), NEW t, t = Append(SubSeq(s, 1, i), e)
  PROVE  FieldsLinked(t) /\ Held(t, i + 1) = e.result[1]
<1>1. Len(t) = i + 1 /\ t[i + 1] = e /\ \A k \in 1 .. i : t[k] = s[k]
  BY RecordedList
<1>2. Len(s) \in Nat /\ i \in Nat /\ i <= Len(s)
  OBVIOUS
<1>3. \A k \in 0 .. i : Held(t, k) = Held(s, k)
  BY <1>1, <1>2 DEF Held
<1>4. Held(t, i + 1) = e.result[1]
  BY <1>1, <1>2 DEF Held
<1>5. ASSUME NEW k \in 1 .. i + 1 PROVE Leads(t[k], Held(t, k - 1), Held(t, k))
  <2>1. CASE k = i + 1
    <3>1. Held(t, k - 1) = Held(s, i)
      BY <1>2, <1>3, <2>1
    <3> QED BY <1>1, <1>4, <2>1, <3>1
  <2>2. CASE k # i + 1
    <3>1. k \in 1 .. i /\ k \in 1 .. Len(s) /\ k \in 0 .. i /\ k - 1 \in 0 .. i
      BY <1>2, <2>2
    <3> QED BY <1>1, <1>3, <3>1 DEF FieldsLinked
  <2> QED BY <2>1, <2>2
<1>6. QED BY <1>1, <1>4, <1>5 DEF FieldsLinked

\* A command whose results are the same is held the same.
LEMMA SameLinks ==
  ASSUME NEW s, NEW t, FieldsLinked(s), Len(s) \in Nat, Len(t) = Len(s),
         \A k \in 1 .. Len(s) : t[k].redo = s[k].redo /\ t[k].undo = s[k].undo /\ t[k].result = s[k].result
  PROVE  FieldsLinked(t) /\ \A k \in 0 .. Len(s) : Held(t, k) = Held(s, k)
<1>1. \A k \in 0 .. Len(s) : k = 0 \/ k \in 1 .. Len(s)
  OBVIOUS
<1>2. \A k \in 0 .. Len(s) : Held(t, k) = Held(s, k)
  BY <1>1 DEF Held
<1>3. \A k \in 1 .. Len(s) : k \in 0 .. Len(s) /\ k - 1 \in 0 .. Len(s)
  OBVIOUS
<1>4. FieldsLinked(t)
  BY <1>2, <1>3 DEF FieldsLinked, Leads
<1>5. QED BY <1>2, <1>4
\* A user who works alone asks for an operation.
LEMMA StartExplained ==
  ASSUME Kept, AllSound, Explained, NEW o \in Operations \ {"deleteCards"}, Start(o)
  PROVE  Explained'
<1> SUFFICES ASSUME ~disturbed' PROVE (FieldsLinked(commands) /\ IF isExecuting THEN FieldsReplaying ELSE Resting \/ Working)'
  BY DEF Explained
<1>1. /\ ~disturbed /\ scripts = {} /\ ~isExecuting /\ copy = cells
      /\ cells' = cells /\ commands' = commands /\ index' = index /\ isExecuting' = isExecuting
  BY DEF Start, Quiet, server, manager
<1>2. FieldsLinked(commands) /\ SameFields(cells, Held(commands, index))
  BY <1>1 DEF Explained, Resting, Working
<1>3. PICK s, todo : /\ scripts' = scripts \cup {s} /\ ScriptSound(s) /\ Startable(todo, copy)
                     /\ s.todo = todo /\ s.requests = todo[1].redo /\ Left(s) = s.requests
                     /\ 1 \in 1 .. Len(todo)
  BY StartGives DEF AllSound, CellsSound
<1>4. scripts' = {s}
  BY <1>1, <1>3
<1>5. CASE \A k \in 1 .. Len(todo) : PlainCommand(todo[k])
  <2>1. PlainScript(s)
    BY <1>3, <1>5 DEF PlainScript, PlainCommand
  <2>2. Resting'
    BY <1>1, <1>2, <1>4, <2>1 DEF Resting
  <2> QED BY <1>1, <1>2, <2>2
<1>6. CASE Len(todo) = 1 /\ \E w \in [Fields -> {0, 1}] : Leads(todo[1], copy, w)
  <2>1. PICK w \in [Fields -> {0, 1}] : Leads(todo[1], cells, w)
    BY <1>1, <1>6
  <2>2. Turns(Left(s), cells, w)
    BY <1>3, <2>1 DEF Leads
  <2>3. SameFields(Held(commands, index), cells) /\ SameFields(w, w)
    BY <1>2 DEF SameFields
  <2>4. Leads(todo[1], Held(commands, index), w)
    BY <2>1, <2>3, TurnsAlike DEF Leads
  <2>5. Len(s.todo) = 1 /\ Leads(s.todo[1], Held(commands, index), w)
    BY <1>3, <1>6, <2>4
  <2>6. Working'
    BY <1>1, <1>4, <2>2, <2>5 DEF Working, Midway
  <2> QED BY <1>1, <1>2, <2>6
<1>7. QED BY <1>3, <1>5, <1>6 DEF Startable

LEMMA DeleteExplained ==
  ASSUME Kept, AllSound, Explained, DeleteSelected
  PROVE  Explained'
<1> SUFFICES ASSUME ~disturbed' PROVE (FieldsLinked(commands) /\ IF isExecuting THEN FieldsReplaying ELSE Resting \/ Working)'
  BY DEF Explained
<1>1. /\ ~disturbed /\ scripts = {} /\ ~isExecuting
      /\ cells' = cells /\ commands' = commands /\ index' = index /\ isExecuting' = isExecuting
  BY DEF DeleteSelected, Quiet, server, manager
<1>2. FieldsLinked(commands) /\ SameFields(cells, Held(commands, index))
  BY <1>1 DEF Explained, Resting, Working
<1>3. Resting'
  BY <1>1, <1>2, DeleteGives DEF Resting
<1>4. QED BY <1>1, <1>2, <1>3

\* While scripts wait, no undo or redo runs.
LEMMA ScriptsAlone ==
  ASSUME Explained, ~disturbed, NEW s \in scripts
  PROVE  FieldsLinked(commands) /\ ~isExecuting /\ (Resting \/ Working)
BY DEF Explained, FieldsReplaying

\* The request of a script is served.
LEMMA ServeExplained ==
  ASSUME Kept, AllSound, Explained, NEW s \in scripts, Serve(s)
  PROVE  Explained'
<1> SUFFICES ASSUME ~disturbed' PROVE (FieldsLinked(commands) /\ IF isExecuting THEN FieldsReplaying ELSE Resting \/ Working)'
  BY DEF Explained
<1>1. /\ ~disturbed /\ commands' = commands /\ index' = index /\ isExecuting' = isExecuting
      /\ Handle(s.requests[1], s.made) /\ ~s.answered
  BY DEF Serve, manager, history
<1>2. FieldsLinked(commands) /\ ~isExecuting /\ (Resting \/ Working)
  BY <1>1, ScriptsAlone
<1>3. ScriptSound(s) /\ CellsSound
  BY DEF AllSound, ScriptsSound
<1> DEFINE t == AnsweredFields(s, MadeBy(s.requests[1], s.made))
<1>4. scripts' = (scripts \ {s}) \cup {t}
  BY DEF Serve, AnsweredFields
<1>5. t.todo = s.todo /\ t.requests = s.requests /\ t.answered = TRUE
  BY <1>3, ScriptGoesOn
<1> HIDE DEF t
<1>6. \A c \in Fields : cells'[c] = IF Sets(s.requests[1], c) THEN s.requests[1].cells[c] ELSE cells[c]
  BY <1>1, <1>3, ServedFields
<1>7. CASE Resting
  <2>1. PlainScript(s)
    BY <1>7 DEF Resting
  <2>2. \A c \in Fields : cells'[c] = cells[c]
    BY <1>3, <1>6, <2>1, FirstSound DEF ScriptSound, PlainScript
  <2>3. SameFields(cells', Held(commands, index))
    BY <1>7, <2>2 DEF Resting, SameFields
  <2>4. PlainScript(t)
    BY <1>5, <2>1 DEF PlainScript
  <2>5. Resting'
    BY <1>1, <1>4, <1>7, <2>3, <2>4 DEF Resting
  <2> QED BY <1>1, <1>2, <2>5
<1>8. CASE Working
  <2>1. scripts = {s} /\ Midway(s, Held(commands, index))
    BY <1>8 DEF Working
  <2>2. PICK w \in [Fields -> {0, 1}] : Turns(Left(s), cells, w) /\ Leads(s.todo[1], Held(commands, index), w)
    BY <2>1 DEF Midway
  <2>3. Turns(s.requests, cells, w) /\ Requests(s.requests)
    BY <1>1, <1>3, <2>2 DEF Left, ScriptSound
  <2>4. Turns(Tail(s.requests), cells', w)
    BY <1>6, <2>3, TurnsOn
  <2>5. Turns(Left(t), cells', w)
    BY <1>5, <2>4 DEF Left
  <2>6. scripts' = {t}
    BY <1>4, <2>1
  <2>7. Len(t.todo) = 1 /\ Leads(t.todo[1], Held(commands, index), w)
    BY <1>5, <2>1, <2>2 DEF Midway
  <2>8. Working'
    BY <1>1, <2>5, <2>6, <2>7 DEF Working, Midway
  <2> QED BY <1>1, <1>2, <2>8
<1>9. QED BY <1>2, <1>7, <1>8

\* A script sends its next request.
LEMMA ContinueExplained ==
  ASSUME Kept, AllSound, Explained, NEW s \in scripts, Continue(s)
  PROVE  Explained'
<1> SUFFICES ASSUME ~disturbed' PROVE (FieldsLinked(commands) /\ IF isExecuting THEN FieldsReplaying ELSE Resting \/ Working)'
  BY DEF Explained
<1>1. /\ ~disturbed /\ commands' = commands /\ index' = index /\ isExecuting' = isExecuting
      /\ cells' = cells /\ s.answered /\ Len(s.requests) > 1
  BY DEF Continue, manager, history, server
<1>2. FieldsLinked(commands) /\ ~isExecuting /\ (Resting \/ Working)
  BY <1>1, ScriptsAlone
<1>3. ScriptSound(s)
  BY DEF AllSound, ScriptsSound
<1> DEFINE t == Sending(s)
<1>4. scripts' = (scripts \ {s}) \cup {t}
  BY DEF Continue, Sending
<1>5. t.todo = s.todo /\ t.requests = Tail(s.requests) /\ t.answered = FALSE
  BY <1>1, <1>3, ScriptGoesOn
<1> HIDE DEF t
<1>6. Left(t) = Left(s)
  BY <1>1, <1>5 DEF Left
<1>7. CASE Resting
  <2>1. PlainScript(s)
    BY <1>7 DEF Resting
  <2>2. SetsNothing(Tail(s.requests))
    BY <1>1, <1>3, <2>1, RequestsLeft DEF ScriptSound, PlainScript
  <2>3. PlainScript(t)
    BY <1>5, <2>1, <2>2 DEF PlainScript
  <2>4. Resting'
    BY <1>1, <1>4, <1>7, <2>3 DEF Resting
  <2> QED BY <1>1, <1>2, <2>4
<1>8. CASE Working
  <2>1. scripts = {s} /\ Midway(s, Held(commands, index))
    BY <1>8 DEF Working
  <2>2. Midway(t, Held(commands, index))
    BY <1>5, <1>6, <2>1 DEF Midway
  <2>3. scripts' = {t}
    BY <1>4, <2>1
  <2>4. Working'
    BY <1>1, <2>2, <2>3 DEF Working, Midway
  <2> QED BY <1>1, <1>2, <2>4
<1>9. QED BY <1>2, <1>7, <1>8

\* A command is recorded: it leads from what was held to what there is.
LEMMA PerformExplained ==
  ASSUME Kept, AllSound, Explained, NEW s \in scripts, Perform(s)
  PROVE  Explained'
<1> SUFFICES ASSUME ~disturbed' PROVE (FieldsLinked(commands) /\ IF isExecuting THEN FieldsReplaying ELSE Resting \/ Working)'
  BY DEF Explained
<1>1. ~disturbed /\ cells' = cells /\ isExecuting' = isExecuting /\ s.answered /\ Len(s.requests) = 1
  BY DEF Perform, history, server
<1>2. FieldsLinked(commands) /\ ~isExecuting /\ (Resting \/ Working)
  BY <1>1, ScriptsAlone
<1>3. ScriptSound(s)
  BY DEF AllSound, ScriptsSound
<1>4. 1 \in 1 .. Len(s.todo) /\ Requests(s.requests)
  <2>1. (\E S : s.todo \in Seq(S)) /\ Len(s.todo) > 0
    BY <1>3 DEF ScriptSound
  <2> QED BY <1>3, <2>1 DEF ScriptSound
<1> DEFINE d == s.todo[1]
           e == [redo |-> d.redo, undo |-> d.undo, group |-> s.group,
                 value |-> s.made, result |-> <<cells, present>>]
<1>5. commands' = Append(SubSeq(commands, 1, index), e) /\ index' = index + 1
  BY <1>2 DEF Perform, RegisterUndo
<1>6. e.redo = d.redo /\ e.undo = d.undo /\ e.result[1] = cells
  OBVIOUS
<1> HIDE DEF e
<1>7. ASSUME Leads(d, Held(commands, index), cells)
      PROVE  FieldsLinked(commands') /\ SameFields(cells', Held(commands', index'))
  <2>1. Leads(e, Held(commands, index), e.result[1])
    BY <1>6, <1>7 DEF Leads
  <2>2. \E S : commands \in Seq(S)
    BY DEF Kept, Commands
  <2>3. index \in 0 .. Len(commands)
    BY DEF Kept
  <2>4. FieldsLinked(commands') /\ Held(commands', index + 1) = e.result[1]
    BY <1>2, <1>5, <2>1, <2>2, <2>3, RecordedLinks
  <2> QED BY <1>1, <1>5, <1>6, <2>4 DEF SameFields
<1>8. CASE Resting
  <2>1. PlainScript(s) /\ SameFields(cells, Held(commands, index))
    BY <1>8 DEF Resting
  <2>2. PlainCommand(d)
    BY <1>4, <2>1 DEF PlainScript
  <2>3. SameFields(Held(commands, index), cells)
    BY <2>1 DEF SameFields
  <2>4. Leads(d, Held(commands, index), cells)
    BY <2>1, <2>2, <2>3, PlainTurns DEF Leads, PlainCommand
  <2>5. ASSUME Len(s.todo) > 1, NEW group PROVE PlainScript(GoingOn(s, group))
    <3> DEFINE t == GoingOn(s, group)  r == Tail(s.todo)
    <3>1. t.todo = r /\ t.requests = s.todo[2].redo
      BY <1>3, <2>5, ScriptGoesOn
    <3>2. /\ \A k \in 1 .. Len(r) : k + 1 \in 1 .. Len(s.todo) /\ r[k] = s.todo[k + 1]
          /\ 2 \in 1 .. Len(s.todo)
      BY <1>3, <2>5, RestOfCommands DEF ScriptSound
    <3> HIDE DEF t, r
    <3>3. SetsNothing(t.requests)
      BY <2>1, <3>1, <3>2 DEF PlainScript, PlainCommand
    <3>4. \A k \in 1 .. Len(r) : PlainCommand(r[k])
      BY <2>1, <3>2 DEF PlainScript
    <3>5. PlainScript(t)
      BY <3>1, <3>3, <3>4 DEF PlainScript
    <3> QED BY <3>5 DEF t
  <2>6. \/ scripts' = scripts \ {s}
        \/ Len(s.todo) > 1 /\ scripts' = (scripts \ {s}) \cup {GoingOn(s, GroupOf(s.todo[2], undoGroupId))}
    BY DEF Perform, GoingOn
  <2>7. \A t \in scripts' : PlainScript(t)
    BY <1>8, <2>5, <2>6 DEF Resting
  <2>8. Resting'
    BY <1>7, <2>4, <2>7 DEF Resting
  <2> QED BY <1>1, <1>2, <1>7, <2>4, <2>8
<1>9. CASE Working
  <2>1. scripts = {s} /\ Midway(s, Held(commands, index))
    BY <1>9 DEF Working
  <2>2. PICK w \in [Fields -> {0, 1}] : Turns(Left(s), cells, w) /\ Leads(d, Held(commands, index), w)
    BY <2>1 DEF Midway
  <2>3. SameFields(w, cells)
    BY <1>1, <1>4, <2>2, TurnsEnd DEF Left
  <2>4. SameFields(cells, w) /\ \A v : SameFields(v, v)
    BY <2>3 DEF SameFields
  <2>5. Leads(d, Held(commands, index), cells)
    BY <2>2, <2>4, TurnsAlike DEF Leads
  <2>6. scripts' = {}
    BY <2>1 DEF Perform, Midway
  <2>7. Resting'
    BY <1>7, <2>5, <2>6 DEF Resting
  <2> QED BY <1>1, <1>2, <1>7, <2>5, <2>7
<1>10. QED BY <1>2, <1>8, <1>9
\* undo() and redo() begin: what is left leads to what is held below, or above.
LEMMA BeginExplained ==
  ASSUME Kept, AllSound, Explained, Undo \/ Redo
  PROVE  Explained'
<1> SUFFICES ASSUME ~disturbed' PROVE (FieldsLinked(commands) /\ IF isExecuting THEN FieldsReplaying ELSE Resting \/ Working)'
  BY DEF Explained
<1>1. /\ ~disturbed /\ scripts = {} /\ ~isExecuting /\ scripts' = scripts
      /\ cells' = cells /\ commands' = commands /\ index' = index
  BY DEF Undo, Redo, server
<1>2. FieldsLinked(commands) /\ SameFields(cells, Held(commands, index))
  BY <1>1 DEF Explained, Resting, Working
<1>3. CommandsSound
  BY DEF AllSound
<1>4. \A v : SameFields(v, v)
  BY DEF SameFields
<1>5. CASE Undo
  <2>1. index \in 1 .. Len(commands) /\ Execute("undo", index, commands[index].group)
    BY <1>5, Numbers DEF Undo
  <2>2. replay' # NoReplay /\ isExecuting' /\ replay'.dir = "undo" /\ Left(replay') = commands[index].undo
    BY <1>3, <2>1, ExecuteSound
  <2>3. Turns(commands[index].undo, Held(commands, index), Held(commands, index - 1))
    BY <1>2, <2>1 DEF FieldsLinked, Leads
  <2>4. Turns(commands[index].undo, cells, Held(commands, index - 1))
    BY <1>2, <1>4, <2>3, TurnsAlike
  <2>5. FieldsReplaying'
    BY <1>1, <2>2, <2>4 DEF FieldsReplaying
  <2> QED BY <1>1, <1>2, <2>2, <2>5
<1>6. CASE Redo
  <2>1. index + 1 \in 1 .. Len(commands) /\ Execute("redo", index + 1, commands[index + 1].group)
    BY <1>6, Numbers DEF Redo
  <2>2. replay' # NoReplay /\ isExecuting' /\ replay'.dir = "redo" /\ Left(replay') = commands[index + 1].redo
    BY <1>3, <2>1, ExecuteSound
  <2>3. (index + 1) - 1 = index
    BY Numbers
  <2>4. Turns(commands[index + 1].redo, Held(commands, index), Held(commands, index + 1))
    BY <1>2, <2>1, <2>3 DEF FieldsLinked, Leads
  <2>5. Turns(commands[index + 1].redo, cells, Held(commands, index + 1))
    BY <1>2, <1>4, <2>4, TurnsAlike
  <2>6. FieldsReplaying'
    BY <1>1, <2>2, <2>5 DEF FieldsReplaying
  <2> QED BY <1>1, <1>2, <2>2, <2>6
<1>7. QED BY <1>5, <1>6

\* Where a replay leads.
Aim == IF replay.dir = "undo" THEN index - 1 ELSE index + 1

LEMMA ReplayGoesOnExplained ==
  ASSUME Kept, AllSound, Explained, ServeReplay \/ ContinueReplay
  PROVE  Explained'
<1> SUFFICES ASSUME ~disturbed' PROVE (FieldsLinked(commands) /\ IF isExecuting THEN FieldsReplaying ELSE Resting \/ Working)'
  BY DEF Explained
<1>1. /\ ~disturbed /\ replay # NoReplay /\ scripts' = scripts
      /\ commands' = commands /\ index' = index /\ isExecuting' = isExecuting
  BY DEF ServeReplay, ContinueReplay, manager, history
<1>2. isExecuting
  BY <1>1 DEF Kept, AtItsCommand
<1>3. FieldsLinked(commands) /\ scripts = {} /\ Turns(Left(replay), cells, Held(commands, Aim))
  BY <1>1, <1>2 DEF Explained, FieldsReplaying, Aim
<1>4. ReplaySound /\ CellsSound
  BY DEF AllSound
<1>5. replay' # NoReplay /\ replay'.dir = replay.dir
  BY <1>4, ReplayStepSound
<1>6. Turns(Left(replay'), cells', Held(commands, Aim))
  <2>1. CASE ServeReplay
    <3>1. Left(replay') = Tail(Left(replay)) /\ Left(replay) = replay.requests
      BY <1>4, <2>1, ReplayStepSound
    <3>2. Requests(replay.requests)
      BY <1>1, <1>4 DEF ReplaySound
    <3>3. Handle(replay.requests[1], replay.made)
      BY <2>1 DEF ServeReplay
    <3>4. \A c \in Fields : cells'[c] = IF Sets(replay.requests[1], c) THEN replay.requests[1].cells[c] ELSE cells[c]
      BY <1>4, <3>3, ServedFields
    <3> QED BY <1>3, <3>1, <3>2, <3>4, TurnsOn
  <2>2. CASE ContinueReplay
    <3>1. Left(replay') = Left(replay) /\ cells' = cells
      BY <1>4, <2>2, ReplayStepSound DEF ContinueReplay, server
    <3> QED BY <1>3, <3>1
  <2> QED BY <2>1, <2>2
<1>7. FieldsReplaying'
  BY <1>1, <1>3, <1>5, <1>6 DEF FieldsReplaying, Aim
<1>8. QED BY <1>1, <1>2, <1>3, <1>7

\* A replay that has nothing left is where it led.
LEMMA ReplayArrives ==
  ASSUME Kept, AllSound, Explained, ~disturbed, FinishUndo \/ FinishRedo
  PROVE  /\ FieldsLinked(commands) /\ scripts = {} /\ SameFields(cells, Held(commands, Aim))
         /\ replay # NoReplay /\ AtItsCommand
<1>1. replay # NoReplay /\ replay.answered /\ Len(replay.requests) = 1
  BY NoReplayHasNoDirection DEF FinishUndo, FinishRedo
<1>2. AtItsCommand /\ isExecuting
  BY <1>1 DEF Kept, AtItsCommand
<1>3. FieldsLinked(commands) /\ scripts = {} /\ Turns(Left(replay), cells, Held(commands, Aim))
  BY <1>2 DEF Explained, FieldsReplaying, Aim
<1>4. Requests(replay.requests)
  BY <1>1 DEF AllSound, ReplaySound
<1>5. Turns(Tail(replay.requests), cells, Held(commands, Aim))
  BY <1>1, <1>3 DEF Left
<1>6. SameFields(Held(commands, Aim), cells)
  BY <1>1, <1>4, <1>5, TurnsEnd
<1>7. SameFields(cells, Held(commands, Aim))
  BY <1>6 DEF SameFields
<1>8. QED BY <1>1, <1>2, <1>3, <1>7

LEMMA FinishUndoExplained ==
  ASSUME Kept, AllSound, Explained, FinishUndo
  PROVE  Explained'
<1> SUFFICES ASSUME ~disturbed' PROVE (FieldsLinked(commands) /\ IF isExecuting THEN FieldsReplaying ELSE Resting \/ Working)'
  BY DEF Explained
<1>1. /\ ~disturbed /\ replay.dir = "undo" /\ scripts' = scripts
      /\ cells' = cells /\ commands' = commands /\ index' = index - 1
  BY DEF FinishUndo, server
<1>2. FieldsLinked(commands) /\ scripts = {} /\ SameFields(cells, Held(commands, index - 1))
  BY <1>1, ReplayArrives DEF Aim
<1>3. \A v : SameFields(v, v)
  BY DEF SameFields
<1>4. CASE InGroup(index - 1, replay.group)
  <2>1. index - 1 \in 1 .. Len(commands)
    BY <1>4, Numbers DEF InGroup
  <2>2. Execute("undo", index - 1, replay.group)
    BY <1>4 DEF FinishUndo
  <2>3. replay' # NoReplay /\ isExecuting' /\ replay'.dir = "undo" /\ Left(replay') = commands[index - 1].undo
    BY <2>1, <2>2, ExecuteSound DEF AllSound
  <2>4. Turns(commands[index - 1].undo, Held(commands, index - 1), Held(commands, (index - 1) - 1))
    BY <1>2, <2>1 DEF FieldsLinked, Leads
  <2>5. Turns(commands[index - 1].undo, cells, Held(commands, (index - 1) - 1))
    BY <1>2, <1>3, <2>4, TurnsAlike
  <2>6. FieldsReplaying'
    BY <1>1, <1>2, <2>3, <2>5 DEF FieldsReplaying
  <2> QED BY <1>1, <1>2, <2>3, <2>6
<1>5. CASE ~InGroup(index - 1, replay.group)
  <2>1. ~isExecuting'
    BY <1>5 DEF FinishUndo, Stop
  <2>2. Resting'
    BY <1>1, <1>2 DEF Resting
  <2> QED BY <1>1, <1>2, <2>1, <2>2
<1>6. QED BY <1>4, <1>5

LEMMA FinishRedoExplained ==
  ASSUME Kept, AllSound, Explained, FinishRedo
  PROVE  Explained'
<1> SUFFICES ASSUME ~disturbed' PROVE (FieldsLinked(commands) /\ IF isExecuting THEN FieldsReplaying ELSE Resting \/ Working)'
  BY DEF Explained
<1>1. /\ ~disturbed /\ replay.dir = "redo" /\ scripts' = scripts
      /\ cells' = cells /\ commands' = [commands EXCEPT ![index + 1].value = replay.made] /\ index' = index + 1
  BY DEF FinishRedo, server
<1>2. FieldsLinked(commands) /\ scripts = {} /\ SameFields(cells, Held(commands, index + 1)) /\ AtItsCommand
  BY <1>1, ReplayArrives DEF Aim
<1>3. index + 1 \in 1 .. Len(commands) /\ index + 1 \in 0 .. Len(commands) /\ Len(commands) \in Nat
  BY <1>1, <1>2, Numbers DEF AtItsCommand
<1>4. /\ Len(commands') = Len(commands)
      /\ \A k \in 1 .. Len(commands) :
           /\ commands'[k].redo = commands[k].redo /\ commands'[k].undo = commands[k].undo
           /\ commands'[k].result = commands[k].result
  BY <1>1, <1>3, RevaluedCommands DEF AllSound
<1>5. FieldsLinked(commands') /\ \A k \in 0 .. Len(commands) : Held(commands', k) = Held(commands, k)
  BY <1>2, <1>3, <1>4, SameLinks
<1>6. SameFields(cells, Held(commands', index + 1)) /\ \A v : SameFields(v, v)
  BY <1>2, <1>3, <1>5 DEF SameFields
<1>7. CASE InGroup(index + 2, replay.group)
  <2>1. index + 2 \in 1 .. Len(commands) /\ index + 2 \in 0 .. Len(commands) /\ (index + 2) - 1 = index + 1
        /\ index' + 1 = index + 2
    BY <1>1, <1>7, Numbers DEF InGroup
  <2>2. Execute("redo", index + 2, replay.group)
    BY <1>7 DEF FinishRedo
  <2>3. replay' # NoReplay /\ isExecuting' /\ replay'.dir = "redo" /\ Left(replay') = commands[index + 2].redo
    BY <2>1, <2>2, ExecuteSound DEF AllSound
  <2>4. Turns(commands[index + 2].redo, Held(commands, index + 1), Held(commands, index + 2))
    BY <1>2, <2>1 DEF FieldsLinked, Leads
  <2>5. Turns(commands[index + 2].redo, cells, Held(commands', index + 2))
    BY <1>2, <1>5, <1>6, <2>1, <2>4, TurnsAlike
  <2>6. FieldsReplaying'
    BY <1>1, <1>2, <2>1, <2>3, <2>5 DEF FieldsReplaying
  <2> QED BY <1>5, <2>3, <2>6
<1>8. CASE ~InGroup(index + 2, replay.group)
  <2>1. ~isExecuting'
    BY <1>8 DEF FinishRedo, Stop
  <2>2. Resting'
    BY <1>1, <1>2, <1>6 DEF Resting
  <2> QED BY <1>5, <2>1, <2>2
<1>9. QED BY <1>7, <1>8

LEMMA NextExplained ==
  ASSUME Kept, AllSound, Explained, [Next]_vars
  PROVE  Explained'
<1>1. CASE \E o \in Operations \ {"deleteCards"} : Start(o)
  BY <1>1, StartExplained
<1>2. CASE DeleteSelected
  BY <1>2, DeleteExplained
<1>3. CASE \E s \in scripts : Serve(s) \/ Continue(s) \/ Perform(s)
  BY <1>3, ServeExplained, ContinueExplained, PerformExplained
<1>4. CASE (\E s \in scripts : Fail(s)) \/ FailReplay
  <2>1. disturbed'
    BY <1>4 DEF Fail, FailReplay
  <2> QED BY <2>1 DEF Explained
<1>5. CASE Undo \/ Redo
  BY <1>5, BeginExplained
<1>6. CASE ServeReplay \/ ContinueReplay
  BY <1>6, ReplayGoesOnExplained
<1>7. CASE FinishUndo
  BY <1>7, FinishUndoExplained
<1>8. CASE FinishRedo
  BY <1>8, FinishRedoExplained
<1>9. CASE (\E row \in Rows : Refresh(row)) \/ UNCHANGED vars
  <2>1. UNCHANGED <<cells, commands, index, isExecuting, replay, scripts, disturbed>>
    BY <1>9 DEF Refresh, vars, server, manager, history
  <2> QED BY <2>1 DEF Explained, FieldsReplaying, Resting, Working, Midway
<1>10. QED
  BY <1>1, <1>2, <1>3, <1>4, <1>5, <1>6, <1>7, <1>8, <1>9 DEF Next

LEMMA InitExplained == Init => Explained
<1> SUFFICES ASSUME Init PROVE Explained
  OBVIOUS
<1>1. /\ cells = [c \in Cells |-> IF c = "order" THEN Contents ELSE 0]
      /\ scripts = {} /\ commands = <<>> /\ index = 0 /\ ~isExecuting
  BY DEF Init
<1>2. 1 .. Len(commands) = {}
  <2>1. Len(commands) = 0
    BY <1>1
  <2>2. 1 .. 0 = {}
    OBVIOUS
  <2> QED BY <2>1, <2>2
<1>3. FieldsLinked(commands)
  BY <1>2 DEF FieldsLinked
<1>4. Resting
  BY <1>1 DEF Resting, SameFields, Held, Fields
<1>5. QED BY <1>1, <1>3, <1>4 DEF Explained

LEMMA ExplainedFollow == ASSUME Explained PROVE FieldsFollow
<1> SUFFICES ASSUME Quiet, ~disturbed
             PROVE  \A c \in Cells \ {"order"} : cells[c] = IF index = 0 THEN 0 ELSE commands[index].result[1][c]
  BY DEF FieldsFollow
<1>1. Resting
  BY DEF Explained, Quiet, Working
<1>2. QED BY <1>1 DEF Resting, SameFields, Held, Fields

\* Whoever works alone and waits for the answers finds the title, the properties,
\* who follows the card and the fields of the view as they were when the command
\* at the index was recorded, after any number of operations, undos and redos,
\* whatever they do to blocks (mutator.ts, undomanager.ts).
THEOREM FieldsAreExplained == Spec => []FieldsFollow
<1>1. Init => Kept /\ AllSound /\ Explained
  BY InitKeeps, InitSound, InitExplained
<1>2. Kept /\ AllSound /\ Explained /\ [Next]_vars => (Kept /\ AllSound /\ Explained)'
  BY NextKeeps, NextSound, NextExplained
<1>3. Explained => FieldsFollow
  BY ExplainedFollow
<1>4. QED BY <1>1, <1>2, <1>3, PTL DEF Spec
-----------------------------------------------------------------------------
(* Boards: the least and the greatest of a set, and other helpers.         *)

LEMMA LeastOf == ASSUME NEW S, S \subseteq Nat, S # {} PROVE \E m \in S : \A k \in S : m <= k
<1> DEFINE R == OpToRel(<, Nat)
<1>1. IsWellFoundedOn(R, Nat)
  BY NatLessThanWellFounded
<1>2. \A m, k \in Nat : <<k, m>> \in R <=> k < m
  BY DEF OpToRel
<1> HIDE DEF R
<1>3. \E m \in S : \A k \in S : ~(<<k, m>> \in R)
  BY <1>1, WFMin
<1>4. PICK m \in S : \A k \in S : ~(<<k, m>> \in R)
  BY <1>3
<1>5. ASSUME NEW k \in S PROVE m <= k
  <2>1. ~(k < m) /\ k \in Nat /\ m \in Nat
    BY <1>2, <1>4
  <2>2. QED BY <2>1
<1>6. QED BY <1>5

LEMMA MinIs == ASSUME NEW S, S \subseteq Nat, S # {} PROVE Min(S) \in S /\ \A k \in S : Min(S) <= k
BY LeastOf DEF Min
LEMMA MaxIs == ASSUME NEW n \in Nat, NEW S, S \subseteq 1 .. n, S # {} PROVE Max(S) \in S /\ \A k \in S : Max(S) >= k
<1> DEFINE T == {n - k : k \in S}
<1>1. T \subseteq Nat /\ T # {}
  OBVIOUS
<1>2. PICK m \in T : \A k \in T : m <= k
  BY <1>1, LeastOf
<1>3. PICK k \in S : m = n - k
  BY <1>2
<1>4. ASSUME NEW j \in S PROVE k >= j
  <2>1. n - j \in T
    OBVIOUS
  <2>2. m <= n - j
    BY <1>2, <2>1
  <2>3. k \in Int /\ j \in Int
    OBVIOUS
  <2>4. QED BY <1>3, <2>2, <2>3
<1>5. \E x \in S : \A y \in S : x >= y
  BY <1>4
<1>6. QED BY <1>5 DEF Max
LEMMA FirstIs == ASSUME NEW S, S \subseteq Nat PROVE First(S) \in S \cup {NoBoard} /\ (First(S) = NoBoard => S = {} \/ 0 \in S)
BY MinIs DEF First, NoBoard
LEMMA FirstOfOne == ASSUME NEW n \in Nat PROVE First({n}) = n
BY MinIs DEF First

-----------------------------------------------------------------------------
(* What the state consists of.                                             *)

\* Boards have numbers up to n.
CommandsTo(n) ==
    {c \in [kind : {"create", "copy", "delete", "link"}, board : 0 .. n, source : 0 .. n, template : BOOLEAN,
            back : 0 .. n, picked : BOOLEAN, next : 0 .. n] : c.kind = "delete" => c.board # NoBoard}
RequestsTo(n) ==
    [do : {"command"}, by : {"perform", "undo", "redo"}, board : 0 .. n, command : CommandsTo(n), at : Nat,
     answer : {"none", "ok", "refused"}, ids : SUBSET (1 .. n)]
    \cup [do : {"page", "preview", "timer"}, by : {"page"}, board : 0 .. n, command : {NoCommand}, at : Nat,
          answer : {"none", "ok", "refused"}, ids : SUBSET (1 .. n)]
ServerTyped == used \in Nat /\ lives \subseteq 1 .. used /\ templates \subseteq 1 .. used /\ viewed \subseteq 1 .. used
PageTyped == /\ known \subseteq 1 .. used /\ picking \in BOOLEAN
             /\ page \in [board : 0 .. used, error : BOOLEAN, loaded : BOOLEAN, last : 0 .. used]
SelectorTyped == selector \in [active : 0 .. used, asked : 0 .. used, shown : 0 .. used]
UndosTyped == /\ undos \in [commands : Seq(CommandsTo(used)), index : Nat, busy : BOOLEAN]
              /\ undos.index <= Len(undos.commands)
LifeTyped == /\ ServerTyped /\ PageTyped /\ SelectorTyped /\ UndosTyped
             /\ requests \subseteq RequestsTo(used) /\ acts \in Nat /\ meddled \in Nat

LEMMA CommandsGrow == ASSUME NEW m \in Nat, NEW n \in Nat, m <= n PROVE CommandsTo(m) \subseteq CommandsTo(n)
BY DEF CommandsTo
LEMMA RequestsGrow == ASSUME NEW m \in Nat, NEW n \in Nat, m <= n PROVE RequestsTo(m) \subseteq RequestsTo(n)
BY CommandsGrow DEF RequestsTo
LEMMA SeqsGrow == ASSUME NEW S, NEW T, S \subseteq T PROVE Seq(S) \subseteq Seq(T)
OBVIOUS
LEMMA UndosGrow == ASSUME UndosTyped, used \in Nat, used' \in Nat, used <= used', UNCHANGED undos PROVE UndosTyped'
<1>1. Seq(CommandsTo(used)) \subseteq Seq(CommandsTo(used'))
  BY CommandsGrow, SeqsGrow
<1>2. QED BY <1>1 DEF UndosTyped
LEMMA CommandIs == ASSUME NEW n \in Nat, NEW r \in RequestsTo(n), r.do = "command" PROVE r.command \in CommandsTo(n) /\ r.by \in {"perform", "undo", "redo"}
BY DEF RequestsTo
LEMMA RequestIs ==
    ASSUME NEW n \in Nat, NEW r \in RequestsTo(n)
    PROVE  /\ r.board \in 0 .. n /\ r.ids \subseteq 1 .. n /\ r.answer \in {"none", "ok", "refused"}
           /\ r.do = "command" \/ (r.do \in {"page", "preview", "timer"} /\ r.by = "page")
BY DEF RequestsTo
LEMMA AskingIs ==
    ASSUME NEW n \in Nat, NEW c \in CommandsTo(n), NEW by \in {"perform", "undo", "redo"}, acts \in Nat
    PROVE  /\ Asking("command", by, NoBoard, c) \in RequestsTo(n)
           /\ Asking("command", by, NoBoard, c).do = "command" /\ Asking("command", by, NoBoard, c).by = by
           /\ Asking("command", by, NoBoard, c).command = c /\ Asking("command", by, NoBoard, c).answer = "none"
BY DEF Asking, RequestsTo, NoBoard
LEMMA LoadingIs ==
    ASSUME NEW n \in Nat, NEW b \in 0 .. n, NEW do \in {"page", "preview"}, acts \in Nat
    PROVE  /\ Loading(do, b) \in RequestsTo(n) /\ Loading(do, b).do = do /\ Loading(do, b).board = b /\ Loading(do, b).by = "page"
           /\ Loading(do, b).answer = "none"
BY DEF Loading, Asking, RequestsTo
LEMMA TimerIs ==
    ASSUME NEW n \in Nat, NEW b \in 0 .. n, acts \in Nat
    PROVE  /\ [Asking("timer", "page", b, NoCommand) EXCEPT !.answer = "ok"] \in RequestsTo(n)
           /\ [Asking("timer", "page", b, NoCommand) EXCEPT !.answer = "ok"].do = "timer"
BY DEF Asking, RequestsTo
LEMMA AnswerIs ==
    ASSUME NEW n \in Nat, NEW r \in RequestsTo(n), NEW a \in {"ok", "refused"}, NEW ids, ids \subseteq 1 .. n
    PROVE  /\ [r EXCEPT !.answer = a, !.ids = ids] \in RequestsTo(n)
           /\ [r EXCEPT !.answer = a, !.ids = ids].answer = a /\ [r EXCEPT !.answer = a, !.ids = ids].ids = ids
           /\ [r EXCEPT !.answer = a, !.ids = ids].do = r.do /\ [r EXCEPT !.answer = a, !.ids = ids].by = r.by
           /\ [r EXCEPT !.answer = a, !.ids = ids].command = r.command /\ [r EXCEPT !.answer = a, !.ids = ids].board = r.board
           /\ [r EXCEPT !.answer = a, !.ids = ids].at = r.at
BY DEF RequestsTo

-----------------------------------------------------------------------------
(* What the requests under way say of the undo manager and of the boards.  *)

Records == undos.commands
Here == undos.index
Replaying(r) == r.do = "command" /\ r.by \in {"undo", "redo"}
\* What is replayed is the command before the index or after it, one at a time.
Linked ==
    \A r \in requests :
        Replaying(r) => /\ undos.busy
                        /\ r.by = "undo" => Here > 0 /\ r.command = Records[Here]
                        /\ r.by = "redo" => Here < Len(Records) /\ r.command = Records[Here + 1]
                        /\ \A s \in requests : Replaying(s) => s = r

Makers == {"create", "copy"}
Answered == {r \in requests : r.do = "command" /\ r.answer # "none"}
\* Answered and not yet received: a deletion, what is undone or redone of b, and what is made.
Deletion(r, b) == r.by = "perform" /\ r.command.kind = "delete" /\ r.command.board = b
Unmade(r, b) == r.by = "undo" /\ r.command.kind \in Makers /\ r.command.board = b
Revived(r, b) == r.by = "undo" /\ r.command.kind = "delete" /\ r.command.board = b
Redeleted(r, b) == r.by = "redo" /\ r.command.kind = "delete" /\ r.command.board = b
Made(r) == r.by # "undo" /\ r.command.kind \in Makers

Makes(i, b) == i \in DOMAIN Records /\ Records[i].board = b /\ Records[i].kind \in Makers
Deletes(i, b) == i \in DOMAIN Records /\ Records[i].board = b /\ Records[i].kind = "delete"

\* What is recorded of a board: that it was made, and then that it was deleted.
Once(b) == \A i, j \in DOMAIN Records :
    /\ Makes(i, b) /\ Makes(j, b) => i = j
    /\ Deletes(i, b) /\ Deletes(j, b) => i = j
    /\ Makes(i, b) /\ Deletes(j, b) => i < j
Told(b) == \A i \in DOMAIN Records :
    /\ Deletes(i, b) /\ i <= Here => b \notin lives
    /\ Makes(i, b) /\ i <= Here => (b \in lives \/ \E j \in DOMAIN Records : Deletes(j, b) /\ j <= Here)
    /\ Makes(i, b) /\ Here < i => b \notin lives
    /\ Deletes(i, b) /\ Here < i => (b \in lives \/ \E j \in DOMAIN Records : Makes(j, b) /\ Here < j)

Settles(b) == \A r \in Answered : ~Deletion(r, b) /\ ~Unmade(r, b) /\ ~Revived(r, b) /\ ~Redeleted(r, b)
DeletionsHold(b) ==
    \A r \in Answered : Deletion(r, b) =>
        /\ b \notin lives
        /\ \A i \in DOMAIN Records : Deletes(i, b) /\ i <= Here => i = Here /\ \E s \in Answered : Revived(s, b)
        /\ \A s \in Answered : Deletion(s, b) => s = r
ReplaysHold(b) ==
    \A r \in Answered :
        /\ Unmade(r, b) => b \notin lives
        /\ Redeleted(r, b) => b \notin lives /\ \A s \in Answered : ~Deletion(s, b)
        /\ Revived(r, b) => b \in lives \/ \E s \in Answered : Deletion(s, b)
BoardTold(b) == Once(b) /\ (Settles(b) => Told(b)) /\ DeletionsHold(b) /\ ReplaysHold(b)
\* What was made and is not yet recorded.
MadeHold(r) ==
    \E n \in 1 .. used :
        /\ r.ids = {n}
        /\ \A s \in Answered : Made(s) /\ n \in s.ids => s = r
        /\ \A i \in DOMAIN Records : ~Makes(i, n)
        /\ \/ n \in lives \/ \E s \in Answered : Deletion(s, n)
           \/ \E i \in DOMAIN Records : Deletes(i, n)

Calm == meddled = 0 /\ faults \cap {"lost", "refused", "unrecorded", "crossed", "renamed"} = {}
HistoryHolds == Calm => /\ \A b \in 1 .. used : BoardTold(b)
                        /\ \A r \in Answered : Made(r) => MadeHold(r)

\* The store and the page.
Pages == {r \in requests : r.do = "page"}
StoreHolds ==
    /\ "stale" \notin faults =>
        /\ \A r \in Pages : r.answer # "none" => r.ids = lives
        /\ ~page.error => known = lives \/ Pages # {}
    /\ meddled = 0 /\ ~page.error /\ page.board # NoBoard => page.loaded \/ \E r \in Pages : r.board = page.board

\* The selector and its preview.
Previewing == {r \in requests : r.do = "preview"}
SelectorHolds ==
    /\ ~Selecting => selector = NoSelector
    /\ selector.shown \in {NoBoard, selector.active}
    /\ selector.asked \in {NoBoard, selector.active}
    /\ Selecting /\ selector.active = NoBoard => known \cap templates = {}
    /\ \A r \in Previewing : r.board # NoBoard
    /\ meddled = 0 /\ "revived" \notin faults /\ selector.asked = selector.active /\ selector.active # NoBoard =>
           \/ selector.shown = selector.active \/ selector.active \notin lives \cap viewed
           \/ \E r \in Previewing : r.board = selector.active /\ r.answer # "refused"

LifeInv == LifeTyped /\ Linked /\ HistoryHolds /\ StoreHolds /\ SelectorHolds
-----------------------------------------------------------------------------
(* The page that is opened, and the store that is told.                    *)

\* What a step of the page leaves: the requests of before, and maybe that of a page.
Opened(rest) ==
    \E more \in SUBSET RequestsTo(used) :
        /\ requests' = rest \cup more /\ \A r \in more : r.do = "page" /\ r.answer = "none"
        /\ page' = page \/ (~page'.error /\ \E r \in more : r.board = page'.board)
PageIsTyped == /\ picking' \in BOOLEAN
               /\ page' \in [board : 0 .. used, error : BOOLEAN, loaded : BOOLEAN, last : 0 .. used]

LEMMA HomeIs == ASSUME ServerTyped, PageTyped PROVE HomeBoard \in 0 .. used
<1>1. CASE page.last # NoBoard \/ known \ templates = {}
  BY <1>1 DEF HomeBoard, NoBoard, PageTyped, ServerTyped
<1>2. CASE page.last = NoBoard /\ known \ templates # {}
  <2>1. known \ templates \subseteq Nat
    BY DEF PageTyped, ServerTyped
  <2>2. Min(known \ templates) \in known \ templates
    BY <1>2, <2>1, MinIs
  <2>3. HomeBoard = Min(known \ templates)
    BY <1>2 DEF HomeBoard
  <2>4. \A k \in known : k \in 0 .. used
    BY DEF PageTyped, ServerTyped
  <2>5. QED BY <2>2, <2>3, <2>4
<1>3. QED BY <1>1, <1>2

LEMMA ShowIs ==
    ASSUME ServerTyped, PageTyped, acts \in Nat, NEW b \in 0 .. used, NEW rest, showBoard(b, rest)
    PROVE  Opened(rest) /\ PageIsTyped
<1> DEFINE to == IF b = NoBoard THEN HomeBoard ELSE b
<1>1. to \in 0 .. used /\ used \in Nat
  BY HomeIs DEF ServerTyped
<1>2. CASE page' = page /\ requests' = rest /\ picking' = picking
  <2>1. requests' = rest \cup {}
    BY <1>2
  <2>2. {} \in SUBSET RequestsTo(used)
    OBVIOUS
  <2>3. Opened(rest)
    BY <1>2, <2>1, <2>2 DEF Opened
  <2>4. QED BY <1>2, <2>3 DEF PageIsTyped, PageTyped
<1>3. CASE /\ page' = [page EXCEPT !.board = to, !.error = FALSE, !.loaded = FALSE]
           /\ requests' = rest \cup {Loading("page", to)} /\ picking' = FALSE
  <2> HIDE DEF to
  <2>1. page' \in [board : 0 .. used, error : BOOLEAN, loaded : BOOLEAN, last : 0 .. used]
        /\ page'.board = to /\ ~page'.error
    BY <1>1, <1>3 DEF PageTyped
  <2>2. Loading("page", to) \in RequestsTo(used) /\ Loading("page", to).do = "page"
        /\ Loading("page", to).board = to /\ Loading("page", to).answer = "none"
    BY <1>1, LoadingIs
  <2>3. QED BY <1>3, <2>1, <2>2 DEF Opened, PageIsTyped
<1>4. QED BY <1>2, <1>3 DEF showBoard

LEMMA StaysIs == ASSUME PageTyped, NEW rest, Stays(rest) PROVE Opened(rest) /\ PageIsTyped
<1>1. requests' = rest \cup {}
  BY DEF Stays
<1>2. {} \in SUBSET RequestsTo(used) /\ page' = page /\ picking' = picking
  BY DEF Stays
<1>3. Opened(rest)
  BY <1>1, <1>2 DEF Opened
<1>4. QED BY <1>2, <1>3 DEF PageIsTyped, PageTyped

LEMMA TellIs ==
    ASSUME ServerTyped, PageTyped, NEW b, NEW alive \in BOOLEAN, NEW withBlocks \in BOOLEAN, Tell(b, alive, withBlocks),
           used' \in Nat, used <= used', b \in 1 .. used'
    PROVE  /\ PageTyped'
           /\ known' = IF page.error THEN known ELSE IF alive THEN known \cup {b} ELSE known \ {b}
           /\ page'.board = page.board /\ page'.error = page.error /\ page'.last = page.last
           /\ picking' = (picking /\ b # page.board)
           /\ ~withBlocks \/ b # page.board => page'.loaded = page.loaded
<1>1. known' = IF page.error THEN known ELSE IF alive THEN known \cup {b} ELSE known \ {b}
  BY DEF Tell, heard
<1>2. known' \subseteq 1 .. used'
  BY <1>1 DEF PageTyped, ServerTyped
<1> DEFINE loaded == IF ~page.error /\ withBlocks /\ b = page.board THEN b \in viewed' ELSE page.loaded
<1>3. page' = [page EXCEPT !.loaded = loaded] /\ loaded \in BOOLEAN
      /\ (~withBlocks \/ b # page.board => loaded = page.loaded)
  BY DEF Tell, heard, PageTyped
<1> HIDE DEF loaded
<1>4. page' \in [board : 0 .. used', error : BOOLEAN, loaded : BOOLEAN, last : 0 .. used']
  BY <1>3 DEF PageTyped, ServerTyped
<1>5. page'.board = page.board /\ page'.error = page.error /\ page'.last = page.last /\ page'.loaded = loaded
  BY <1>3 DEF PageTyped
<1>6. picking' = (picking /\ b # page.board) /\ picking' \in BOOLEAN
  BY DEF Tell, PageTyped
<1>7. QED BY <1>1, <1>2, <1>3, <1>4, <1>5, <1>6 DEF PageTyped
-----------------------------------------------------------------------------
(* What a command does on the server: a board is made, comes back or goes, *)
(* or none does.                                                           *)

IsBorn(c, by) ==
    /\ by # "undo" /\ c.kind \in Makers /\ used' = used + 1 /\ lives' = lives \cup {used'}
    /\ templates' \in {templates, templates \cup {used'}} /\ viewed' \in {viewed, viewed \cup {used'}}
    /\ Tell(used', TRUE, TRUE)
IsBack(c, by) ==
    /\ by = "undo" /\ c.kind = "delete" /\ c.board \notin lives /\ lives' = lives \cup {c.board}
    /\ UNCHANGED <<used, templates, viewed>> /\ Tell(c.board, TRUE, FALSE)
IsGone(c, by) ==
    /\ (by # "undo" /\ c.kind = "delete") \/ (by = "undo" /\ c.kind \in Makers)
    /\ c.board \in lives /\ lives' = lives \ {c.board}
    /\ UNCHANGED <<used, templates, viewed>> /\ Tell(c.board, FALSE, FALSE)
IsSame(c, by) ==
    /\ c.kind = "link" \/ (by = "undo" /\ c.kind = "delete" /\ c.board \in lives)
       \/ (by = "undo" /\ c.kind \in Makers /\ c.board \notin lives)
    /\ UNCHANGED serverBoards
    /\ Silence \/ (c.board \in lives /\ Tell(c.board, TRUE, FALSE))

LEMMA ObeyIs ==
    ASSUME NEW n \in Nat, NEW c \in CommandsTo(n), NEW by \in {"perform", "undo", "redo"}, Granted(c, by), Obey(c, by)
    PROVE  IsBorn(c, by) \/ IsBack(c, by) \/ IsGone(c, by) \/ IsSame(c, by)
<1>1. c.kind \in {"create", "copy", "delete", "link"}
  BY DEF CommandsTo
<1>2. CASE by # "undo" /\ c.kind = "create"
  BY <1>2 DEF Obey, Born, IsBorn, Makers
<1>3. CASE by # "undo" /\ c.kind = "copy"
  BY <1>3 DEF Obey, Born, IsBorn, Makers
<1>4. CASE by = "undo" /\ c.kind = "delete"
  <2>1. IF c.board \in lives THEN NoChange
        ELSE /\ lives' = lives \cup {c.board} /\ UNCHANGED <<used, templates, viewed>>
             /\ Tell(c.board, TRUE, FALSE)
    BY <1>4 DEF Obey
  <2>2. QED BY <1>4, <2>1 DEF NoChange, IsBack, IsSame
<1>5. CASE c.kind = "link"
  <2>1. UNCHANGED serverBoards /\ IF c.board \in lives THEN Tell(c.board, TRUE, FALSE) ELSE Silence
    BY <1>5 DEF Obey
  <2>2. QED BY <1>5, <2>1 DEF IsSame
<1>6. CASE by # "undo" /\ c.kind = "delete"
  <2>1. IF c.board \in lives THEN Dies(c.board) ELSE NoChange
    BY <1>6 DEF Obey
  <2>2. c.board \in lives
    BY <1>6 DEF Granted
  <2>3. QED BY <1>6, <2>1, <2>2 DEF Dies, IsGone
<1>7. CASE by = "undo" /\ c.kind \in Makers
  <2>1. IF c.board \in lives THEN Dies(c.board) ELSE NoChange
    BY <1>7 DEF Obey, Makers
  <2>2. QED BY <1>7, <2>1 DEF Dies, NoChange, IsGone, IsSame
<1>8. QED BY <1>1, <1>2, <1>3, <1>4, <1>5, <1>6, <1>7 DEF Makers

LEMMA ServerMoves ==
    ASSUME ServerTyped, PageTyped, NEW c \in CommandsTo(used), NEW by \in {"perform", "undo", "redo"},
           IsBorn(c, by) \/ IsBack(c, by) \/ IsGone(c, by) \/ IsSame(c, by)
    PROVE  ServerTyped' /\ PageTyped' /\ used <= used'
<1>1. CASE IsBorn(c, by)
  <2>1. used' \in Nat /\ used <= used' /\ used' \in 1 .. used' /\ ServerTyped'
    BY <1>1 DEF IsBorn, ServerTyped
  <2>2. PageTyped'
    BY <1>1, <2>1, TellIs DEF IsBorn
  <2>3. QED BY <2>1, <2>2
<1>2. CASE IsBack(c, by)
  <2>1. c.board \in 1 .. used
    BY <1>2 DEF IsBack, CommandsTo, ServerTyped, NoBoard
  <2>2. used' = used /\ used \in Nat /\ ServerTyped'
    BY <1>2, <2>1 DEF IsBack, ServerTyped
  <2>4. used' \in Nat /\ used <= used' /\ c.board \in 1 .. used'
    BY <2>1, <2>2
  <2>3. PageTyped'
    BY <1>2, <2>4, TellIs DEF IsBack
  <2>5. QED BY <2>2, <2>3, <2>4
<1>3. CASE IsGone(c, by)
  <2>1. c.board \in 1 .. used
    BY <1>3 DEF IsGone, ServerTyped
  <2>2. used' = used /\ used \in Nat /\ ServerTyped'
    BY <1>3, <2>1 DEF IsGone, ServerTyped
  <2>4. used' \in Nat /\ used <= used' /\ c.board \in 1 .. used'
    BY <2>1, <2>2
  <2>3. PageTyped'
    BY <1>3, <2>4, TellIs DEF IsGone
  <2>5. QED BY <2>2, <2>3, <2>4
<1>4. CASE IsSame(c, by)
  <2>1. used' = used /\ used' \in Nat /\ ServerTyped'
    BY <1>4 DEF IsSame, serverBoards, ServerTyped
  <2>2. CASE Silence
    BY <2>1, <2>2 DEF Silence, PageTyped
  <2>3. CASE c.board \in lives /\ Tell(c.board, TRUE, FALSE)
    <3>3. c.board \in 1 .. used
      BY <2>3 DEF ServerTyped
    <3>1. c.board \in 1 .. used' /\ used <= used'
      BY <2>1, <3>3
    <3>2. PageTyped'
      BY <2>1, <2>3, <3>1, TellIs
    <3>4. QED BY <2>1, <3>2
  <2>4. QED BY <1>4, <2>1, <2>2, <2>3 DEF IsSame
<1>5. QED BY <1>1, <1>2, <1>3, <1>4

\* What an answer is: of a command that is obeyed, of one that is refused, of a page or a preview.
ObeyedAnswer(r) ==
    /\ r.do = "command" /\ r.answer = "none"
    /\ IsBorn(r.command, r.by) \/ IsBack(r.command, r.by) \/ IsGone(r.command, r.by) \/ IsSame(r.command, r.by)
    /\ requests' = (requests \ {r}) \cup {[r EXCEPT !.answer = "ok", !.ids = lives' \ lives]}
    /\ faults' = faults \cup Stale(requests) \cup (IF Revives(r) THEN {"revived"} ELSE {})
    /\ UNCHANGED <<undos, acts, meddled>>
RefusedAnswer(r) ==
    /\ r.do = "command" /\ r.answer = "none" /\ NoChange
    /\ requests' = (requests \ {r}) \cup {[r EXCEPT !.answer = "refused", !.ids = {}]}
    /\ "refused" \in faults' /\ faults \subseteq faults'
    /\ UNCHANGED <<undos, acts, meddled>>
LoadAnswer(r) ==
    /\ r.do # "command" /\ r.answer = "none" /\ NoChange /\ faults' = faults
    /\ requests' = (requests \ {r}) \cup
                  {[r EXCEPT !.answer = IF Found(r.board) THEN "ok" ELSE "refused", !.ids = lives]}
    /\ UNCHANGED <<undos, acts, meddled>>

LEMMA AnswersAre ==
    ASSUME ServerTyped, requests \subseteq RequestsTo(used), NEW r \in requests, Answer(r)
    PROVE  ObeyedAnswer(r) \/ RefusedAnswer(r) \/ LoadAnswer(r)
<1>1. r.answer = "none" /\ UNCHANGED <<undos, acts, meddled>> /\ used \in Nat
  BY DEF Answer, ServerTyped
<1>2. CASE r.do # "command"
  <2>1. NoChange /\ faults' = faults /\ requests' = (requests \ {r}) \cup
                  {[r EXCEPT !.answer = IF Found(r.board) THEN "ok" ELSE "refused", !.ids = lives]}
    BY <1>2 DEF Answer
  <2>2. QED BY <1>1, <1>2, <2>1 DEF LoadAnswer
<1>3. CASE r.do = "command" /\ Granted(r.command, r.by)
  <2>1. /\ Obey(r.command, r.by)
        /\ requests' = (requests \ {r}) \cup {[r EXCEPT !.answer = "ok", !.ids = lives' \ lives]}
        /\ faults' = faults \cup Stale(requests) \cup (IF Revives(r) THEN {"revived"} ELSE {})
    BY <1>3 DEF Answer
  <2>2. r.command \in CommandsTo(used) /\ r.by \in {"perform", "undo", "redo"}
    BY <1>1, <1>3, CommandIs
  <2>3. IsBorn(r.command, r.by) \/ IsBack(r.command, r.by) \/ IsGone(r.command, r.by) \/ IsSame(r.command, r.by)
    BY <1>1, <1>3, <2>1, <2>2, ObeyIs
  <2>4. QED BY <1>1, <1>3, <2>1, <2>3 DEF ObeyedAnswer
<1>4. CASE r.do = "command" /\ ~Granted(r.command, r.by)
  <2>1. NoChange /\ requests' = (requests \ {r}) \cup {[r EXCEPT !.answer = "refused", !.ids = lives' \ lives]}
        /\ faults' = faults \cup {"refused"} \cup (IF Revives(r) THEN {"revived"} ELSE {})
    BY <1>4 DEF Answer
  <2>2. lives' \ lives = {}
    BY <2>1 DEF NoChange, serverBoards
  <2>3. QED BY <1>1, <1>4, <2>1, <2>2 DEF RefusedAnswer
<1>5. QED BY <1>2, <1>3, <1>4

LEMMA AnswerTyped ==
    ASSUME LifeTyped, NEW r \in requests, Answer(r)
    PROVE  ServerTyped' /\ PageTyped' /\ UndosTyped' /\ requests' \subseteq RequestsTo(used') /\ used <= used'
           /\ acts' \in Nat /\ meddled' \in Nat
<1>1. ServerTyped /\ PageTyped /\ UndosTyped /\ requests \subseteq RequestsTo(used) /\ used \in Nat /\ acts \in Nat /\ meddled \in Nat
  BY DEF LifeTyped, ServerTyped
<1>2. ObeyedAnswer(r) \/ RefusedAnswer(r) \/ LoadAnswer(r)
  BY <1>1, AnswersAre
<1>3. UNCHANGED <<undos, acts, meddled>>
  BY DEF Answer
<1>4. ServerTyped' /\ PageTyped' /\ used <= used'
  <2>1. CASE ObeyedAnswer(r)
    <3>1. r.do = "command" /\ (IsBorn(r.command, r.by) \/ IsBack(r.command, r.by) \/ IsGone(r.command, r.by) \/ IsSame(r.command, r.by))
      BY <2>1 DEF ObeyedAnswer
    <3>2. r.command \in CommandsTo(used) /\ r.by \in {"perform", "undo", "redo"}
      BY <1>1, <3>1, CommandIs
    <3>3. QED BY <1>1, <3>1, <3>2, ServerMoves
  <2>2. CASE RefusedAnswer(r) \/ LoadAnswer(r)
    <3>1. UNCHANGED <<serverBoards, known, page, picking>>
      BY <2>2 DEF RefusedAnswer, LoadAnswer, NoChange, Silence
    <3>2. QED BY <1>1, <3>1 DEF serverBoards, ServerTyped, PageTyped
  <2>3. QED BY <1>2, <2>1, <2>2
<1>5. used' \in Nat /\ RequestsTo(used) \subseteq RequestsTo(used')
  BY <1>1, <1>4, RequestsGrow DEF ServerTyped
<1>6. UndosTyped'
  BY <1>1, <1>3, <1>4, <1>5, UndosGrow
<1>7. requests' \subseteq RequestsTo(used')
  <2>1. PICK a \in {"ok", "refused"}, ids \in SUBSET (1 .. used') : requests' = (requests \ {r}) \cup {[r EXCEPT !.answer = a, !.ids = ids]}
    <3>1. lives' \subseteq 1 .. used'
      BY <1>4 DEF ServerTyped
    <3>2. CASE ObeyedAnswer(r)
      BY <3>1, <3>2 DEF ObeyedAnswer
    <3>3. CASE RefusedAnswer(r)
      BY <3>3 DEF RefusedAnswer
    <3>4. CASE LoadAnswer(r)
      BY <3>1, <3>4 DEF LoadAnswer, NoChange, serverBoards
    <3>5. QED BY <1>2, <3>2, <3>3, <3>4
  <2>2. [r EXCEPT !.answer = a, !.ids = ids] \in RequestsTo(used')
    BY <1>1, <1>5, AnswerIs
  <2>3. QED BY <1>1, <1>5, <2>1, <2>2
<1>8. QED BY <1>1, <1>3, <1>4, <1>6, <1>7
-----------------------------------------------------------------------------
(* Steps that leave the server's boards and the store.                     *)

TypedStep == /\ ServerTyped' /\ PageTyped' /\ UndosTyped' /\ requests' \subseteq RequestsTo(used')
             /\ used <= used' /\ acts' \in Nat /\ meddled' \in Nat
LifeMoves ==
    /\ UNCHANGED <<serverBoards, known, meddled>> /\ faults \subseteq faults'
    /\ Pages \subseteq Pages' /\ (\A r \in Pages' : r \in Pages \/ r.answer = "none")
    /\ Previewing' = Previewing
    /\ page' = page \/ (~page'.error /\ \E r \in Pages' : r.board = page'.board)
\* ... and what is recorded and answered.
Quietly == /\ LifeMoves /\ faults' = faults /\ Answered' = Answered
           /\ undos'.commands = undos.commands /\ undos'.index = undos.index
\* Nothing more is replayed.
Keeps == undos' = undos /\ \A r \in requests' : Replaying(r) => r \in requests

LEMMA LinkedKept == ASSUME Linked, Keeps PROVE Linked'
<1>1. undos' = undos /\ (\A r \in requests' : Replaying(r) => r \in requests)
  BY DEF Keeps
<1>2. QED BY <1>1 DEF Linked, Records, Here, Replaying

LEMMA UndosKept == ASSUME UndosTyped, used' = used, undos' = undos PROVE UndosTyped'
BY DEF UndosTyped

\* What is asked besides: no page or preview, and maybe a command that is not answered.
Asked(rest) ==
    /\ rest \subseteq RequestsTo(used)
    /\ \A r \in RequestsTo(used) :
           r.do \in {"page", "preview"} \/ (r.do = "command" /\ r.answer # "none") => (r \in rest <=> r \in requests)

LEMMA OpenedMoves ==
    ASSUME LifeTyped, NEW rest, rest \subseteq RequestsTo(used), Opened(rest), PageIsTyped,
           UNCHANGED <<serverBoards, known, meddled>>, faults \subseteq faults',
           \A r \in RequestsTo(used) : r.do \in {"page", "preview"} => (r \in rest <=> r \in requests)
    PROVE  LifeMoves /\ ServerTyped' /\ PageTyped' /\ requests' \subseteq RequestsTo(used') /\ used' = used /\ used <= used' /\ meddled' \in Nat
<1>1. ServerTyped /\ PageTyped /\ requests \subseteq RequestsTo(used) /\ used \in Nat /\ meddled \in Nat
  BY DEF LifeTyped, ServerTyped
<1>2. UNCHANGED <<lives, used, templates, viewed>> /\ known' = known /\ meddled' = meddled
  BY DEF serverBoards
<1>3. PICK more \in SUBSET RequestsTo(used) :
        /\ requests' = rest \cup more /\ \A r \in more : r.do = "page" /\ r.answer = "none"
        /\ page' = page \/ (~page'.error /\ \E r \in more : r.board = page'.board)
  BY DEF Opened
<1>4. ServerTyped'
  BY <1>1, <1>2 DEF ServerTyped
<1>5. PageTyped'
  BY <1>1, <1>2 DEF PageIsTyped, PageTyped
<1>6. requests' \subseteq RequestsTo(used')
  BY <1>2, <1>3
<1>7. Pages \subseteq Pages' /\ (\A r \in Pages' : r \in Pages \/ r.answer = "none") /\ Previewing' = Previewing
  BY <1>1, <1>3 DEF Pages, Previewing
<1>8. page' = page \/ (~page'.error /\ \E r \in Pages' : r.board = page'.board)
  BY <1>3 DEF Pages
<1>9. QED BY <1>1, <1>2, <1>4, <1>5, <1>6, <1>7, <1>8 DEF LifeMoves

LEMMA OpenedQuietly ==
    ASSUME LifeTyped, NEW rest, Asked(rest), Opened(rest), PageIsTyped,
           UNCHANGED <<serverBoards, known, meddled, faults>>,
           undos'.commands = undos.commands, undos'.index = undos.index, acts' \in Nat
    PROVE  Quietly /\ (UndosTyped' => TypedStep) /\ used' = used
           /\ (undos' = undos /\ (\A r \in rest : Replaying(r) => r \in requests) => Keeps)
<1>1. rest \subseteq RequestsTo(used) /\ requests \subseteq RequestsTo(used)
      /\ \A r \in RequestsTo(used) : r.do \in {"page", "preview"} => (r \in rest <=> r \in requests)
  BY DEF Asked, LifeTyped
<1>2. LifeMoves /\ ServerTyped' /\ PageTyped' /\ requests' \subseteq RequestsTo(used') /\ used' = used /\ used <= used' /\ meddled' \in Nat
  BY <1>1, OpenedMoves
<1>3. PICK more \in SUBSET RequestsTo(used) :
        /\ requests' = rest \cup more /\ \A r \in more : r.do = "page"
  BY DEF Opened
<1>4. Answered' = Answered
  BY <1>1, <1>3 DEF Answered, Asked
<1>5. (\A r \in rest : Replaying(r) => r \in requests) => \A r \in requests' : Replaying(r) => r \in requests
  BY <1>3 DEF Replaying
<1>6. QED BY <1>2, <1>4, <1>5 DEF Quietly, TypedStep, Keeps

LEMMA AskedMore ==
    ASSUME requests \subseteq RequestsTo(used), NEW r \in RequestsTo(used), r.do = "command", r.answer = "none"
    PROVE  Asked(requests \cup {r})
BY DEF Asked
LEMMA AskedSame == ASSUME requests \subseteq RequestsTo(used) PROVE Asked(requests) /\ Asked(requests \cup {})
BY DEF Asked

UserStep == TypedStep /\ Quietly /\ Keeps
LEMMA AsksIs == ASSUME LifeTyped, NEW c \in CommandsTo(used), Asks(c) PROVE UserStep
<1>1. requests \subseteq RequestsTo(used) /\ acts \in Nat /\ UndosTyped /\ PageTyped /\ used \in Nat
  BY DEF LifeTyped, ServerTyped
<1>2. acts' \in Nat /\ UNCHANGED <<serverBoards, known, meddled, faults>> /\ Stays(requests \cup {Performing(c)}) /\ undos' = undos
  BY <1>1 DEF Asks, Acts
<1>3. Performing(c) \in RequestsTo(used) /\ Performing(c).do = "command" /\ Performing(c).answer = "none" /\ Performing(c).by = "perform"
  BY <1>1, AskingIs DEF Performing
<1>4. Asked(requests \cup {Performing(c)}) /\ Opened(requests \cup {Performing(c)}) /\ PageIsTyped
  BY <1>1, <1>2, <1>3, AskedMore, StaysIs
<1>5. \A r \in requests \cup {Performing(c)} : Replaying(r) => r \in requests
  BY <1>3 DEF Replaying
<1>6. QED BY <1>1, <1>2, <1>4, <1>5, OpenedQuietly, UndosKept DEF UserStep

LEMMA CommandsAre ==
    ASSUME NEW n \in Nat, NEW a \in 0 .. n, NEW b \in 0 .. n, NEW t \in BOOLEAN, NEW p \in BOOLEAN
    PROVE  /\ CreateCommand(t, a) \in CommandsTo(n) /\ CopyCommand(a, t, b, p) \in CommandsTo(n)
           /\ LinkCommand(a) \in CommandsTo(n) /\ (a # NoBoard => DeleteCommand(a, b) \in CommandsTo(n))
<1> DEFINE Plain == [kind : {"none", "create", "copy", "delete", "link"}, board : 0 .. n, source : 0 .. n, template : BOOLEAN,
                     back : 0 .. n, picked : BOOLEAN, next : 0 .. n]
<1>1. NoCommand \in Plain /\ NoBoard \in 0 .. n /\ NoCommand.kind = "none"
  BY DEF NoCommand, NoBoard
<1>2. \A c \in Plain : c.kind \in {"create", "copy", "link"} \/ (c.kind = "delete" /\ c.board # NoBoard) => c \in CommandsTo(n)
  BY DEF CommandsTo
<1>3. CreateCommand(t, a) \in Plain /\ CreateCommand(t, a).kind = "create"
  BY <1>1 DEF CreateCommand
<1>4. CopyCommand(a, t, b, p) \in Plain /\ CopyCommand(a, t, b, p).kind = "copy"
  BY <1>1 DEF CopyCommand
<1>5. LinkCommand(a) \in Plain /\ LinkCommand(a).kind = "link"
  BY <1>1 DEF LinkCommand
<1>6. DeleteCommand(a, b) \in Plain /\ DeleteCommand(a, b).kind = "delete" /\ DeleteCommand(a, b).board = a
  BY <1>1 DEF DeleteCommand
<1> HIDE DEF Plain
<1>7. QED BY <1>2, <1>3, <1>4, <1>5, <1>6

LEMMA NextIs == ASSUME ServerTyped, PageTyped, NEW b PROVE NextBoard(b) \in 0 .. used
<1> DEFINE boards == known \ templates
           above == {c \in boards : c > b}
           below == {c \in boards : c < b}
<1>1. NextBoard(b) = IF b \notin boards THEN NoBoard
        ELSE IF above # {} THEN Min(above)
        ELSE IF Cardinality(below) <= 1 THEN NoBoard ELSE Max(below)
  BY DEF NextBoard
<1>2. used \in Nat /\ boards \subseteq 1 .. used
  BY DEF ServerTyped, PageTyped
<1>3. ASSUME above # {} PROVE Min(above) \in 0 .. used
  <2>1. above \subseteq 1 .. used /\ above \subseteq Nat
    BY <1>2
  <2>2. Min(above) \in above
    BY <1>3, <2>1, MinIs
  <2>3. Min(above) \in 1 .. used
    BY <2>1, <2>2
  <2>4. QED BY <2>3
<1>4. ASSUME below # {} PROVE Max(below) \in 0 .. used
  <2>1. below \subseteq 1 .. used
    BY <1>2
  <2>2. Max(below) \in below
    BY <1>2, <1>4, <2>1, MaxIs
  <2>3. Max(below) \in 1 .. used
    BY <2>1, <2>2
  <2>4. QED BY <2>3
<1>5. below = {} => Cardinality(below) <= 1
  BY FS_EmptySet
<1>6. NoBoard \in 0 .. used
  BY <1>2 DEF NoBoard
<1> HIDE DEF boards, above, below
<1>7. QED BY <1>1, <1>3, <1>4, <1>5, <1>6

LEMMA UserActsAre ==
    ASSUME LifeTyped, DuplicateBoard \/ CreateEmptyBoard \/ CreateTemplate \/ UseTemplate \/ RemoveBoard
    PROVE  UserStep
<1>1. ServerTyped /\ PageTyped /\ SelectorTyped /\ used \in Nat /\ page.board \in 0 .. used /\ selector.active \in 0 .. used
  BY DEF LifeTyped, ServerTyped, PageTyped, SelectorTyped
<1>2. known \subseteq 1 .. used
  BY <1>1 DEF PageTyped
<1>3. CASE DuplicateBoard
  <2>1. PICK b \in known \ templates, t \in BOOLEAN : Asks(CopyCommand(b, t, b, FALSE))
    BY <1>3 DEF DuplicateBoard
  <2>2. b \in 0 .. used
    BY <1>1, <1>2
  <2>3. QED BY <1>1, <2>1, <2>2, CommandsAre, AsksIs
<1>4. CASE CreateEmptyBoard
  BY <1>1, <1>4, CommandsAre, AsksIs DEF CreateEmptyBoard
<1>5. CASE CreateTemplate
  BY <1>1, <1>5, CommandsAre, AsksIs DEF CreateTemplate
<1>6. CASE UseTemplate
  BY <1>1, <1>6, CommandsAre, AsksIs DEF UseTemplate
<1>7. CASE RemoveBoard
  <2>1. PICK b \in known : Asks(DeleteCommand(b, NextBoard(b)))
    BY <1>7 DEF RemoveBoard
  <2>2. b \in 0 .. used /\ b # NoBoard
    BY <1>1, <1>2 DEF NoBoard
  <2>3. QED BY <1>1, <2>1, <2>2, CommandsAre, AsksIs, NextIs
<1>8. QED BY <1>3, <1>4, <1>5, <1>6, <1>7
LEMMA PageActsAre ==
    ASSUME LifeTyped, OpenBoard \/ OpenSelector \/ CloseSelector \/ GoHome \/ \E r \in requests : TimerFires(r)
    PROVE  UserStep
<1>1. /\ ServerTyped /\ PageTyped /\ UndosTyped /\ used \in Nat /\ acts \in Nat /\ meddled \in Nat /\ requests \subseteq RequestsTo(used)
      /\ known \subseteq 1 .. used /\ NoBoard \in 0 .. used
  BY DEF LifeTyped, ServerTyped, PageTyped, NoBoard
<1>2. ASSUME NEW b \in 0 .. used, NEW rest, rest \subseteq requests, Asked(rest), showBoard(b, rest),
             UNCHANGED <<serverBoards, known, meddled, faults, undos>>, acts' \in Nat
      PROVE  UserStep
  <2>1. Opened(rest) /\ PageIsTyped
    BY <1>1, <1>2, ShowIs
  <2>2. \A r \in rest : Replaying(r) => r \in requests
    BY <1>2
  <2>3. QED BY <1>1, <1>2, <2>1, <2>2, OpenedQuietly, UndosKept DEF UserStep
<1>3. Asked(requests)
  BY <1>1, AskedSame
<1>4. CASE OpenBoard
  <2>1. PICK b \in known : showBoard(b, requests)
    BY <1>4 DEF OpenBoard
  <2>2. b \in 0 .. used
    BY <1>1
  <2>3. UNCHANGED <<serverBoards, known, meddled, faults, undos>> /\ acts' \in Nat
    BY <1>1, <1>4 DEF OpenBoard, Acts
  <2>4. QED BY <1>2, <1>3, <2>1, <2>2, <2>3
<1>5. ASSUME UNCHANGED <<serverBoards, known, meddled, faults, undos, page, requests>>, acts' \in Nat, picking' \in BOOLEAN
      PROVE  UserStep
  <2>1. Opened(requests) /\ PageIsTyped
    <3>1. requests' = requests \cup {} /\ {} \in SUBSET RequestsTo(used) /\ page' = page
      BY <1>5
    <3>2. Opened(requests)
      BY <3>1 DEF Opened
    <3>3. QED BY <1>1, <1>5, <3>2 DEF PageIsTyped, PageTyped
  <2>2. QED BY <1>1, <1>3, <1>5, <2>1, OpenedQuietly, UndosKept DEF UserStep
<1>6. CASE OpenSelector
  BY <1>1, <1>5, <1>6 DEF OpenSelector, Acts
<1>7. CASE CloseSelector
  BY <1>1, <1>5, <1>7 DEF CloseSelector
<1>8. CASE GoHome
  <2>1. showBoard(NoBoard, requests) /\ UNCHANGED <<serverBoards, known, meddled, faults, undos, acts>>
    BY <1>8 DEF GoHome
  <2>2. QED BY <1>1, <1>2, <1>3, <2>1
<1>9. ASSUME NEW r \in requests, TimerFires(r) PROVE UserStep
  <2>1. r.do = "timer" /\ showBoard(r.board, requests \ {r}) /\ UNCHANGED <<serverBoards, known, meddled, faults, undos, acts>>
    BY <1>9 DEF TimerFires
  <2>2. r.board \in 0 .. used
    BY <1>1, RequestIs
  <2>3. Asked(requests \ {r}) /\ requests \ {r} \subseteq requests
    BY <1>1, <2>1 DEF Asked
  <2>4. QED BY <1>1, <1>2, <2>1, <2>2, <2>3
<1>10. QED BY <1>4, <1>6, <1>7, <1>8, <1>9

\* Undoing and redoing: a request of a command that is recorded.
ReplayingStep == TypedStep /\ Quietly /\ Linked'

LEMMA RecordIs == ASSUME UndosTyped, used \in Nat, NEW i \in 1 .. Len(undos.commands) PROVE undos.commands[i] \in CommandsTo(used)
<1>1. undos.commands \in Seq(CommandsTo(used))
  BY DEF UndosTyped
<1>2. QED BY <1>1

\* Nothing else is replayed while nothing is busy.
LEMMA ReplayLinked ==
    ASSUME Linked, ~undos.busy, undos'.busy, undos'.commands = undos.commands, undos'.index = undos.index,
           NEW q, \A r \in requests' : Replaying(r) => r \in requests \/ r = q,
           q.by = "undo" => Here > 0 /\ q.command = Records[Here],
           q.by = "redo" => Here < Len(Records) /\ q.command = Records[Here + 1]
    PROVE  Linked'
<1>1. \A r \in requests : ~Replaying(r)
  BY DEF Linked
<1>2. \A r \in requests' : Replaying(r) => r = q
  BY <1>1
<1>3. Records' = Records /\ Here' = Here
  BY DEF Records, Here
<1>4. QED BY <1>2, <1>3 DEF Linked, Replaying

LEMMA UndoIs == ASSUME LifeTyped, Linked, UndoBoards PROVE ReplayingStep
<1> DEFINE c == undos.commands[undos.index]
           q == Asking("command", "undo", NoBoard, c)
           ask == IF c.kind = "copy" /\ c.board = NoBoard THEN {} ELSE {q}
<1>1. /\ ServerTyped /\ PageTyped /\ UndosTyped /\ used \in Nat /\ acts \in Nat /\ requests \subseteq RequestsTo(used)
  BY DEF LifeTyped, ServerTyped
<1>2. /\ ~undos.busy /\ undos.index > 0 /\ undos' = [undos EXCEPT !.busy = TRUE] /\ acts' \in Nat
      /\ UNCHANGED <<serverBoards, known, meddled, faults>>
      /\ Stays(requests \cup ask) \/ showBoard(c.back, requests \cup ask)
  BY <1>1 DEF UndoBoards, Acts
<1>3. undos.index \in 1 .. Len(undos.commands)
  BY <1>1, <1>2 DEF UndosTyped
<1>4. c \in CommandsTo(used)
  BY <1>1, <1>3, RecordIs
<1>5. c.back \in 0 .. used
  BY <1>4 DEF CommandsTo
<1>6. q \in RequestsTo(used) /\ q.do = "command" /\ q.by = "undo" /\ q.command = c /\ q.answer = "none"
  BY <1>1, <1>4, AskingIs
<1>7. undos'.commands = undos.commands /\ undos'.index = undos.index /\ undos'.busy /\ (used' = used => UndosTyped')
  BY <1>1, <1>2 DEF UndosTyped
<1> HIDE DEF c, q
<1>8. Asked(requests \cup ask)
  BY <1>1, <1>6, AskedMore, AskedSame
<1>9. Opened(requests \cup ask) /\ PageIsTyped
  BY <1>1, <1>2, <1>5, ShowIs, StaysIs
<1>10. Quietly /\ TypedStep
  BY <1>1, <1>2, <1>7, <1>8, <1>9, OpenedQuietly
<1>11. \A r \in requests' : Replaying(r) => r \in requests \/ r = q
  <2>1. PICK more : requests' = (requests \cup ask) \cup more /\ \A r \in more : r.do = "page"
    BY <1>9 DEF Opened
  <2>2. QED BY <2>1 DEF Replaying
<1>12. Here > 0 /\ q.command = Records[Here]
  BY <1>2, <1>6 DEF Here, Records, c
<1>13. Linked'
  BY <1>2, <1>6, <1>7, <1>11, <1>12, ReplayLinked
<1>14. QED BY <1>10, <1>13 DEF ReplayingStep

LEMMA RedoIs == ASSUME LifeTyped, Linked, RedoBoards PROVE ReplayingStep
<1> DEFINE c == undos.commands[undos.index + 1]
           q == Asking("command", "redo", NoBoard, c)
<1>1. /\ ServerTyped /\ PageTyped /\ UndosTyped /\ used \in Nat /\ acts \in Nat /\ requests \subseteq RequestsTo(used)
  BY DEF LifeTyped, ServerTyped
<1>2. /\ ~undos.busy /\ undos.index < Len(undos.commands) /\ undos' = [undos EXCEPT !.busy = TRUE] /\ acts' \in Nat
      /\ UNCHANGED <<serverBoards, known, meddled, faults>>
      /\ Stays(requests \cup {q})
  BY <1>1 DEF RedoBoards, Acts
<1>3. undos.index + 1 \in 1 .. Len(undos.commands)
  <2>1. undos.index \in Nat /\ undos.commands \in Seq(CommandsTo(used))
    BY <1>1 DEF UndosTyped
  <2>2. Len(undos.commands) \in Nat
    BY <2>1
  <2>3. QED BY <1>2, <2>1, <2>2
<1>4. c \in CommandsTo(used)
  BY <1>1, <1>3, RecordIs
<1>6. q \in RequestsTo(used) /\ q.do = "command" /\ q.by = "redo" /\ q.command = c /\ q.answer = "none"
  BY <1>1, <1>4, AskingIs
<1>7. undos'.commands = undos.commands /\ undos'.index = undos.index /\ undos'.busy /\ (used' = used => UndosTyped')
  BY <1>1, <1>2 DEF UndosTyped
<1> HIDE DEF c, q
<1>8. Asked(requests \cup {q})
  BY <1>1, <1>6, AskedMore
<1>9. Opened(requests \cup {q}) /\ PageIsTyped
  BY <1>1, <1>2, StaysIs
<1>10. Quietly /\ TypedStep
  BY <1>1, <1>2, <1>7, <1>8, <1>9, OpenedQuietly
<1>11. \A r \in requests' : Replaying(r) => r \in requests \/ r = q
  BY <1>2 DEF Stays
<1>12. Here < Len(Records) /\ q.command = Records[Here + 1]
  BY <1>2, <1>6 DEF Here, Records, c
<1>13. Linked'
  BY <1>2, <1>6, <1>7, <1>11, <1>12, ReplayLinked
<1>14. QED BY <1>10, <1>13 DEF ReplayingStep
-----------------------------------------------------------------------------
(* Answers that are received, and what others do.                          *)

LEMMA LoseIs == ASSUME LifeTyped, NEW r \in requests, LoseAnswer(r) PROVE TypedStep /\ LifeMoves /\ Keeps /\ "lost" \in faults'
<1>1. /\ ServerTyped /\ PageTyped /\ UndosTyped /\ used \in Nat /\ acts \in Nat /\ meddled \in Nat /\ requests \subseteq RequestsTo(used)
  BY DEF LifeTyped, ServerTyped
<1>2. /\ r.do = "command" /\ faults' = faults \cup {"lost"} /\ requests' = requests \ {r}
      /\ UNCHANGED <<serverBoards, known, page, picking, undos, acts, meddled>>
  BY DEF LoseAnswer
<1>3. Stays(requests \ {r})
  BY <1>2 DEF Stays
<1>4. Opened(requests \ {r}) /\ PageIsTyped
  BY <1>1, <1>3, StaysIs
<1>5. requests \ {r} \subseteq RequestsTo(used)
      /\ \A s \in RequestsTo(used) : s.do \in {"page", "preview"} => (s \in requests \ {r} <=> s \in requests)
  BY <1>1, <1>2
<1>6. LifeMoves /\ ServerTyped' /\ PageTyped' /\ requests' \subseteq RequestsTo(used') /\ used' = used /\ used <= used' /\ meddled' \in Nat
  BY <1>2, <1>4, <1>5, OpenedMoves
<1>7. Keeps
  BY <1>2 DEF Keeps
<1>8. QED BY <1>1, <1>2, <1>6, <1>7, UndosKept DEF TypedStep

LEMMA ReceivePageIs == ASSUME LifeTyped, NEW r \in requests, ReceivePage(r) PROVE TypedStep /\ Keeps
<1>1. /\ ServerTyped /\ PageTyped /\ UndosTyped /\ used \in Nat /\ acts \in Nat /\ meddled \in Nat /\ requests \subseteq RequestsTo(used)
  BY DEF LifeTyped, ServerTyped
<1>2. /\ known' = r.ids /\ picking' = FALSE /\ requests' = requests \ {r}
      /\ UNCHANGED <<serverBoards, undos, acts, meddled>>
  BY DEF ReceivePage
<1>3. r.ids \subseteq 1 .. used /\ r.board \in 0 .. used
  BY <1>1, RequestIs
<1>4. page' \in [board : 0 .. used, error : BOOLEAN, loaded : BOOLEAN, last : 0 .. used]
  <2>1. page \in [board : 0 .. used, error : BOOLEAN, loaded : BOOLEAN, last : 0 .. used] /\ NoBoard \in 0 .. used
    BY <1>1 DEF PageTyped, NoBoard
  <2>2. \/ page' = page \/ page' = [page EXCEPT !.error = TRUE, !.last = NoBoard]
        \/ page' = [page EXCEPT !.last = r.board, !.loaded = @ \/ page.board = r.board]
    BY DEF ReceivePage
  <2>3. QED BY <1>3, <2>1, <2>2
<1>5. UNCHANGED <<lives, used, templates, viewed, undos, acts, meddled>>
  BY <1>2 DEF serverBoards
<1>6. ServerTyped' /\ PageTyped' /\ requests' \subseteq RequestsTo(used') /\ used <= used'
  <2>1. ServerTyped' /\ used' = used
    BY <1>1, <1>5 DEF ServerTyped
  <2>2. PageTyped'
    BY <1>2, <1>3, <1>4, <2>1 DEF PageTyped
  <2>3. requests' \subseteq RequestsTo(used') /\ used <= used'
    BY <1>1, <1>2, <2>1
  <2>4. QED BY <2>1, <2>2, <2>3
<1>7. UndosTyped' /\ Keeps
  BY <1>1, <1>2, <1>5, UndosKept DEF Keeps
<1>8. QED BY <1>1, <1>5, <1>6, <1>7 DEF TypedStep

LEMMA OtherIs == ASSUME LifeTyped, OtherDeletes PROVE TypedStep /\ Keeps
<1>1. /\ ServerTyped /\ PageTyped /\ UndosTyped /\ used \in Nat /\ acts \in Nat /\ meddled \in Nat /\ requests \subseteq RequestsTo(used)
  BY DEF LifeTyped, ServerTyped
<1>2. PICK b \in lives :
          \/ Dies(b)
          \/ viewed' = viewed \ {b} /\ UNCHANGED <<lives, used, templates>> /\ Tell(b, TRUE, TRUE)
  BY DEF OtherDeletes
<1>3. meddled' = meddled + 1 /\ UNCHANGED <<requests, undos, acts>>
  BY DEF OtherDeletes
<1>4. used' = used /\ (Tell(b, FALSE, FALSE) \/ Tell(b, TRUE, TRUE)) /\ ServerTyped'
  BY <1>1, <1>2 DEF Dies, ServerTyped
<1>5. b \in 1 .. used
  BY <1>1 DEF ServerTyped
<1>6. used' \in Nat /\ used <= used' /\ b \in 1 .. used'
  BY <1>1, <1>4, <1>5
<1>7. PageTyped'
  BY <1>1, <1>4, <1>6, TellIs
<1>8. UndosTyped' /\ Keeps
  BY <1>1, <1>3, <1>4, UndosKept DEF Keeps
<1>9. QED BY <1>1, <1>3, <1>4, <1>6, <1>7, <1>8 DEF TypedStep

LEMMA CutAppend ==
    ASSUME NEW S, NEW q \in Seq(S), NEW e \in S, NEW x \in 0 .. Len(q)
    PROVE  /\ Append(SubSeq(q, 1, x), e) \in Seq(S) /\ Len(Append(SubSeq(q, 1, x), e)) = x + 1
           /\ \A i \in 1 .. x : Append(SubSeq(q, 1, x), e)[i] = q[i]
           /\ Append(SubSeq(q, 1, x), e)[x + 1] = e
<1>1. x \in Nat /\ Len(q) \in Nat
  OBVIOUS
<1>2. SubSeq(q, 1, x) \in Seq(S) /\ Len(SubSeq(q, 1, x)) = x
  <2>1. 1 \in Nat /\ \A i \in 1 .. x : i \in 1 .. Len(q)
    BY <1>1
  <2>2. QED BY <1>1, <2>1
<1>3. \A i \in 1 .. x : SubSeq(q, 1, x)[i] = q[i]
  BY <1>1
<1>4. QED BY <1>1, <1>2, <1>3

LEMMA Replaced ==
    ASSUME NEW S, NEW q \in Seq(S), NEW k \in 1 .. Len(q), NEW e \in S
    PROVE  /\ [q EXCEPT ![k] = e] \in Seq(S) /\ Len([q EXCEPT ![k] = e]) = Len(q)
           /\ [q EXCEPT ![k] = e][k] = e /\ \A i \in 1 .. Len(q) : i # k => [q EXCEPT ![k] = e][i] = q[i]
OBVIOUS

\* The undo manager once an answer is received.
Appended(c) == /\ Here' = Here + 1 /\ Len(Records') = Here + 1 /\ Records'[Here + 1] = c
               /\ \A i \in 1 .. Here : Records'[i] = Records[i]
SteppedBack == Records' = Records /\ Here > 0 /\ Here' = Here - 1
SteppedOn(c) == /\ Here < Len(Records) /\ Here' = Here + 1 /\ Len(Records') = Len(Records) /\ Records'[Here + 1] = c
                /\ \A i \in 1 .. Len(Records) : i # Here + 1 => Records'[i] = Records[i]

\* The command as it is recorded, with the board it made.
Finished(r) == IF r.command.kind \in Makers THEN [r.command EXCEPT !.board = First(r.ids)] ELSE r.command

LEMMA FinishedIs ==
    ASSUME NEW n \in Nat, NEW r \in RequestsTo(n), r.do = "command"
    PROVE  /\ Finished(r) \in CommandsTo(n) /\ Finished(r).kind = r.command.kind /\ First(r.ids) \in 0 .. n
           /\ r.command.kind \in Makers => Finished(r).board = First(r.ids)
           /\ r.command.kind \notin Makers => Finished(r) = r.command
<1>1. r.command \in CommandsTo(n) /\ r.ids \subseteq 1 .. n
  BY CommandIs, RequestIs
<1>2. r.ids \subseteq Nat
  BY <1>1
<1>3. First(r.ids) \in r.ids \cup {NoBoard}
  BY <1>2, FirstIs
<1>4. First(r.ids) \in 0 .. n
  BY <1>1, <1>3 DEF NoBoard
<1>5. QED BY <1>1, <1>4 DEF Finished, CommandsTo, Makers

LEMMA UndosExtended ==
    ASSUME NEW T, NEW u \in [commands : T, index : Nat, busy : BOOLEAN], NEW s \in T, NEW k \in Nat,
           NEW v, v = [u EXCEPT !.commands = s, !.index = k]
    PROVE  v \in [commands : T, index : Nat, busy : BOOLEAN] /\ v.commands = s /\ v.index = k /\ v.busy = u.busy
OBVIOUS

LEMMA UndosAdvanced ==
    ASSUME NEW T, NEW u \in [commands : T, index : Nat, busy : BOOLEAN], NEW s \in T, NEW k \in Nat,
           NEW v, v = [u EXCEPT !.index = k, !.busy = FALSE, !.commands = s]
    PROVE  v \in [commands : T, index : Nat, busy : BOOLEAN] /\ v.commands = s /\ v.index = k /\ v.busy = FALSE
OBVIOUS

LEMMA UndosTurned ==
    ASSUME NEW T, NEW u \in [commands : T, index : Nat, busy : BOOLEAN], NEW k \in Nat, NEW v, v = [u EXCEPT !.index = k, !.busy = FALSE]
    PROVE  v \in [commands : T, index : Nat, busy : BOOLEAN] /\ v.commands = u.commands /\ v.index = k /\ v.busy = FALSE
OBVIOUS

LEMMA RecordedIs ==
    ASSUME UndosTyped, used \in Nat, used' = used, NEW c \in CommandsTo(used), undos' = Recorded(c)
    PROVE  UndosTyped' /\ (IF undos.busy THEN undos' = undos ELSE Appended(c) /\ ~undos'.busy)
<1>1. undos.commands \in Seq(CommandsTo(used)) /\ undos.index \in Nat /\ Len(undos.commands) \in Nat /\ undos.index \in 0 .. Len(undos.commands)
  BY DEF UndosTyped
<1>2. CASE undos.busy
  BY <1>2, UndosKept DEF Recorded
<1>3. CASE ~undos.busy
  <2> DEFINE s == Append(SubSeq(undos.commands, 1, undos.index), c)
  <2>1. undos' = [undos EXCEPT !.commands = s, !.index = @ + 1]
    BY <1>3 DEF Recorded
  <2>2. /\ s \in Seq(CommandsTo(used)) /\ Len(s) = undos.index + 1 /\ s[undos.index + 1] = c
        /\ \A i \in 1 .. undos.index : s[i] = undos.commands[i]
    BY <1>1, CutAppend
  <2> HIDE DEF s
  <2>3. undos'.commands = s /\ undos'.index = undos.index + 1 /\ undos'.busy = undos.busy
        /\ undos' \in [commands : Seq(CommandsTo(used)), index : Nat, busy : BOOLEAN]
    <3>1. undos \in [commands : Seq(CommandsTo(used)), index : Nat, busy : BOOLEAN] /\ undos.busy \in BOOLEAN /\ undos.index + 1 \in Nat
      BY <1>1 DEF UndosTyped
    <3>2. undos' = [undos EXCEPT !.commands = s, !.index = undos.index + 1]
      BY <2>1
    <3>3. QED BY <2>2, <3>1, <3>2, UndosExtended, ZenonT(60)
  <2>4. QED BY <1>1, <1>3, <2>2, <2>3 DEF UndosTyped, Appended, Records, Here
<1>4. QED BY <1>2, <1>3

LEMMA UndoneIs ==
    ASSUME UndosTyped, used \in Nat, used' = used, Here > 0, undos' = Undone PROVE UndosTyped' /\ SteppedBack /\ ~undos'.busy
<1>1. undos.commands \in Seq(CommandsTo(used)) /\ undos.index \in Nat /\ Len(undos.commands) \in Nat /\ undos.index <= Len(undos.commands)
      /\ undos.index > 0
  BY DEF UndosTyped, Here
<1>2. undos'.commands = undos.commands /\ undos'.index = undos.index - 1 /\ undos'.busy = FALSE /\ undos.index - 1 \in Nat
      /\ undos' \in [commands : Seq(CommandsTo(used)), index : Nat, busy : BOOLEAN]
  <2>1. undos \in [commands : Seq(CommandsTo(used)), index : Nat, busy : BOOLEAN] /\ FALSE \in BOOLEAN /\ undos.index - 1 \in Nat
    BY <1>1 DEF UndosTyped
  <2>2. undos' = [undos EXCEPT !.index = undos.index - 1, !.busy = FALSE]
    BY DEF Undone
  <2>3. QED BY <2>1, <2>2, UndosTurned
<1>3. QED BY <1>1, <1>2 DEF UndosTyped, SteppedBack, Records, Here

LEMMA RedoneIs ==
    ASSUME UndosTyped, used \in Nat, used' = used, NEW r \in RequestsTo(used), r.do = "command", Here < Len(Records),
           r.command = Records[Here + 1], undos' = Redone(First(r.ids))
    PROVE  UndosTyped' /\ SteppedOn(Finished(r)) /\ ~undos'.busy
<1>1. undos.commands \in Seq(CommandsTo(used)) /\ undos.index \in Nat /\ Len(undos.commands) \in Nat /\ undos.index < Len(undos.commands)
      /\ undos.index + 1 \in 1 .. Len(undos.commands)
  <2>1. undos.commands \in Seq(CommandsTo(used)) /\ undos.index \in Nat /\ Len(undos.commands) \in Nat /\ undos.index < Len(undos.commands)
    BY DEF UndosTyped, Here, Records
  <2>2. QED BY <2>1
<1>2. Finished(r) \in CommandsTo(used)
  BY FinishedIs
<1> DEFINE k == undos.index + 1
           s == [undos.commands EXCEPT ![k] = Finished(r)]
<1>3. undos.commands[k].kind \in {"create", "copy"} <=> r.command.kind \in Makers
  BY DEF Records, Here, Makers
<1>4. undos' = [undos EXCEPT !.index = @ + 1, !.busy = FALSE, !.commands[k] = Finished(r)]
  BY <1>3 DEF Redone, Renewed, Finished, Records, Here, Makers
<1>5. s \in Seq(CommandsTo(used)) /\ Len(s) = Len(undos.commands) /\ s[k] = Finished(r)
      /\ \A i \in 1 .. Len(undos.commands) : i # k => s[i] = undos.commands[i]
  BY <1>1, <1>2, Replaced
<1>6. undos' = [undos EXCEPT !.index = k, !.busy = FALSE, !.commands = s]
  BY <1>1, <1>4 DEF UndosTyped
<1> HIDE DEF s
<1>7. undos'.commands = s /\ undos'.index = k /\ undos'.busy = FALSE /\ undos' \in [commands : Seq(CommandsTo(used)), index : Nat, busy : BOOLEAN]
  <2>1. undos \in [commands : Seq(CommandsTo(used)), index : Nat, busy : BOOLEAN] /\ k \in Nat
    BY <1>1 DEF UndosTyped
  <2> HIDE DEF k
  <2>2. QED BY <1>5, <1>6, <2>1, UndosAdvanced, ZenonT(60)
<1>8. k <= Len(s)
  BY <1>1, <1>5
<1>9. QED BY <1>1, <1>5, <1>7, <1>8 DEF UndosTyped, SteppedOn, Records, Here

\* After an answer: maybe a timer, or the command that links a channel.
LEMMA AfterIs ==
    ASSUME LifeTyped, NEW r \in requests, r.do = "command", After(r, First(r.ids), requests \ {r})
    PROVE  \E extra \in SUBSET RequestsTo(used) :
               /\ \A e \in extra : e.do = "timer" \/ (e.do = "command" /\ e.answer = "none" /\ e.by = "perform")
               /\ Opened((requests \ {r}) \cup extra) /\ PageIsTyped
<1> DEFINE c == r.command
           made == First(r.ids)
           rest == requests \ {r}
           Extras == {extra \in SUBSET RequestsTo(used) :
                         \A e \in extra : e.do = "timer" \/ (e.do = "command" /\ e.answer = "none" /\ e.by = "perform")}
           timer == {[Asking("timer", "page", b, NoCommand) EXCEPT !.answer = "ok"] : b \in {c.next} \ {NoBoard}}
           link == IF r.by = "perform" /\ c.picked THEN {Performing(LinkCommand(made))} ELSE {}
<1>1. ServerTyped /\ PageTyped /\ used \in Nat /\ acts \in Nat /\ requests \subseteq RequestsTo(used)
  BY DEF LifeTyped, ServerTyped
<1>2. c \in CommandsTo(used) /\ r.by \in {"perform", "undo", "redo"}
  BY <1>1, CommandIs
<1>3. made \in 0 .. used
  BY <1>1, FinishedIs
<1>4. timer \in Extras
  <2>1. c.next \in 0 .. used
    BY <1>2 DEF CommandsTo
  <2>2. \A b \in {c.next} \ {NoBoard} : /\ [Asking("timer", "page", b, NoCommand) EXCEPT !.answer = "ok"] \in RequestsTo(used)
                                        /\ [Asking("timer", "page", b, NoCommand) EXCEPT !.answer = "ok"].do = "timer"
    BY <1>1, <2>1, TimerIs
  <2>3. QED BY <2>2
<1>5. link \in Extras
  <2>1. LinkCommand(made) \in CommandsTo(used)
    BY <1>1, <1>3, CommandsAre
  <2>2. Performing(LinkCommand(made)) \in RequestsTo(used) /\ Performing(LinkCommand(made)).do = "command"
        /\ Performing(LinkCommand(made)).by = "perform" /\ Performing(LinkCommand(made)).answer = "none"
    BY <1>1, <2>1, AskingIs DEF Performing
  <2>3. QED BY <2>2
<1>6. {} \in Extras /\ rest = rest \cup {}
  OBVIOUS
<1>7. \/ Stays(rest \cup {}) \/ Stays(rest \cup timer) \/ showBoard(made, rest \cup link)
  <2>1. c.kind \in {"create", "copy", "delete", "link"}
    BY <1>2 DEF CommandsTo
  <2>2. CASE r.by = "undo" \/ (c.kind \in {"create", "copy"} /\ made = NoBoard) \/ c.kind = "link"
    BY <2>2 DEF After
  <2>3. CASE r.by # "undo" /\ c.kind \in {"create", "copy"} /\ made # NoBoard
    BY <2>3 DEF After
  <2>4. CASE r.by # "undo" /\ c.kind = "delete"
    BY <2>4 DEF After
  <2>5. QED BY <2>1, <2>2, <2>3, <2>4
<1> HIDE DEF c, made, timer, link, rest
<1>8. PICK extra \in Extras : Stays(rest \cup extra) \/ showBoard(made, rest \cup extra)
  BY <1>4, <1>5, <1>6, <1>7
<1>9. Opened(rest \cup extra) /\ PageIsTyped
  BY <1>1, <1>3, <1>8, ShowIs, StaysIs
<1>10. QED BY <1>9 DEF rest

ReceivedBy(r) ==
    /\ r.by = "undo" => SteppedBack
    /\ r.by = "redo" => SteppedOn(Finished(r))
    /\ r.by = "perform" => IF undos.busy THEN "unrecorded" \in faults' ELSE Appended(Finished(r))
    /\ r.by = "redo" /\ r.command.kind \in Makers /\ NamedLater(r.command.board) => "renamed" \in faults'
    /\ First(r.ids) # NoBoard /\ (\E i \in DOMAIN Records : Records[i].board = First(r.ids)) => "crossed" \in faults'

LEMMA ReceiveCommandIs ==
    ASSUME LifeTyped, Linked, NEW r \in requests, ReceiveCommand(r)
    PROVE  TypedStep /\ LifeMoves /\ Linked' /\ r \in Answered /\ Answered' = Answered \ {r} /\ ReceivedBy(r)
<1>1. ServerTyped /\ PageTyped /\ UndosTyped /\ used \in Nat /\ acts \in Nat /\ meddled \in Nat /\ requests \subseteq RequestsTo(used)
  BY DEF LifeTyped, ServerTyped
<1>2. r.do = "command" /\ r.answer # "none" /\ After(r, First(r.ids), requests \ {r})
      /\ UNCHANGED <<serverBoards, known, acts, meddled>> /\ faults \subseteq faults'
  BY DEF ReceiveCommand
<1>3. PICK extra \in SUBSET RequestsTo(used) :
               /\ \A e \in extra : e.do = "timer" \/ (e.do = "command" /\ e.answer = "none" /\ e.by = "perform")
               /\ Opened((requests \ {r}) \cup extra) /\ PageIsTyped
  BY <1>2, AfterIs
<1> DEFINE rest == (requests \ {r}) \cup extra
<1>4. rest \subseteq RequestsTo(used) /\ \A s \in RequestsTo(used) : s.do \in {"page", "preview"} => (s \in rest <=> s \in requests)
  BY <1>1, <1>2, <1>3
<1>5. LifeMoves /\ ServerTyped' /\ PageTyped' /\ requests' \subseteq RequestsTo(used') /\ used' = used /\ used <= used' /\ meddled' \in Nat
  <2> HIDE DEF rest
  <2>1. Opened(rest) /\ PageIsTyped
    BY <1>3 DEF rest
  <2>2. QED BY <1>2, <1>4, <2>1, OpenedMoves
<1>6. PICK more : requests' = rest \cup more /\ \A s \in more : s.do = "page"
  BY <1>3 DEF Opened
<1>7. r \in Answered /\ Answered' = Answered \ {r}
  BY <1>2, <1>3, <1>6 DEF Answered
<1>8. \A s \in requests' : Replaying(s) => s \in requests /\ s # r
  BY <1>3, <1>6 DEF Replaying
<1>9. r.command \in CommandsTo(used) /\ r.by \in {"perform", "undo", "redo"} /\ Finished(r) \in CommandsTo(used)
  BY <1>1, <1>2, CommandIs, FinishedIs
<1>10. /\ r.by = "redo" /\ r.command.kind \in Makers /\ NamedLater(r.command.board) => "renamed" \in faults'
       /\ First(r.ids) # NoBoard /\ (\E i \in DOMAIN Records : Records[i].board = First(r.ids)) => "crossed" \in faults'
       /\ r.by = "perform" /\ undos.busy => "unrecorded" \in faults'
  BY DEF ReceiveCommand, Makers, Records
<1>11. ASSUME r.by \in {"undo", "redo"} PROVE Linked'
  <2>1. \A s \in requests : Replaying(s) => s = r
    BY <1>2, <1>11 DEF Linked, Replaying
  <2>2. \A s \in requests' : ~Replaying(s)
    BY <1>8, <2>1
  <2>3. QED BY <2>2 DEF Linked, Replaying
<1>12. CASE r.by = "undo"
  <2>1. undos' = Undone
    BY <1>12 DEF ReceiveCommand
  <2>2. Here > 0
    BY <1>2, <1>12 DEF Linked, Replaying
  <2>3. UndosTyped' /\ SteppedBack
    BY <1>1, <1>5, <2>1, <2>2, UndoneIs
  <2>4. QED BY <1>1, <1>2, <1>5, <1>7, <1>10, <1>11, <1>12, <2>3 DEF TypedStep, ReceivedBy
<1>13. CASE r.by = "redo"
  <2>1. undos' = Redone(First(r.ids))
    BY <1>13 DEF ReceiveCommand
  <2>2. Here < Len(Records) /\ r.command = Records[Here + 1]
    BY <1>2, <1>13 DEF Linked, Replaying
  <2>3. UndosTyped' /\ SteppedOn(Finished(r))
    BY <1>1, <1>2, <1>5, <2>1, <2>2, RedoneIs
  <2>4. QED BY <1>1, <1>2, <1>5, <1>7, <1>10, <1>11, <1>13, <2>3 DEF TypedStep, ReceivedBy
<1>14. CASE r.by = "perform"
  <2>1. undos' = Recorded(Finished(r))
    BY <1>14 DEF ReceiveCommand, Finished, Makers
  <2>2. UndosTyped' /\ (IF undos.busy THEN undos' = undos ELSE Appended(Finished(r)) /\ ~undos'.busy)
    BY <1>1, <1>5, <1>9, <2>1, RecordedIs
  <2>3. Linked'
    <3>1. CASE undos.busy
      <4>1. Keeps
        BY <1>8, <2>2, <3>1 DEF Keeps
      <4>2. QED BY <4>1, LinkedKept
    <3>2. CASE ~undos.busy
      <4>1. \A s \in requests' : ~Replaying(s)
        BY <1>8, <3>2 DEF Linked
      <4>2. QED BY <4>1 DEF Linked, Replaying
    <3>3. QED BY <3>1, <3>2
  <2>4. QED BY <1>1, <1>2, <1>5, <1>7, <1>10, <1>14, <2>2, <2>3 DEF TypedStep, ReceivedBy
<1>15. QED BY <1>9, <1>12, <1>13, <1>14
-----------------------------------------------------------------------------
(* The store follows the server, and the page is loaded or being loaded.   *)

LEMMA StoreMoves == ASSUME StoreHolds, LifeMoves PROVE StoreHolds'
<1>1. /\ lives' = lives /\ known' = known /\ meddled' = meddled /\ faults \subseteq faults'
      /\ Pages \subseteq Pages' /\ (\A r \in Pages' : r \in Pages \/ r.answer = "none")
      /\ page' = page \/ (~page'.error /\ \E r \in Pages' : r.board = page'.board)
  BY DEF LifeMoves, serverBoards
<1>2. ASSUME "stale" \notin faults' PROVE \A r \in Pages' : r.answer # "none" => r.ids = lives'
  BY <1>1, <1>2 DEF StoreHolds
<1>3. ASSUME "stale" \notin faults', ~page'.error PROVE known' = lives' \/ Pages' # {}
  BY <1>1, <1>3 DEF StoreHolds
<1>4. ASSUME meddled' = 0, ~page'.error, page'.board # NoBoard PROVE page'.loaded \/ \E r \in Pages' : r.board = page'.board
  BY <1>1, <1>4 DEF StoreHolds
<1>5. QED BY <1>2, <1>3, <1>4 DEF StoreHolds

\* What is told is so, and the page is not unloaded by it.
LEMMA StoreTold ==
    ASSUME ServerTyped, PageTyped, NEW c \in CommandsTo(used), NEW by,
           IsBorn(c, by) \/ IsBack(c, by) \/ IsGone(c, by) \/ IsSame(c, by)
    PROVE  /\ known = lives /\ ~page.error => known' = lives'
           /\ page'.error = page.error /\ page'.board = page.board /\ page'.loaded = page.loaded
<1>1. used \in Nat /\ lives \subseteq 1 .. used /\ page.board \in 0 .. used
  BY DEF ServerTyped, PageTyped
<1>2. CASE IsBorn(c, by)
  <2>1. used' = used + 1 /\ lives' = lives \cup {used'} /\ Tell(used', TRUE, TRUE)
    BY <1>2 DEF IsBorn
  <2>2. used' \in Nat /\ used <= used' /\ used' \in 1 .. used' /\ used' # page.board
    BY <1>1, <2>1
  <2>3. /\ known' = IF page.error THEN known ELSE known \cup {used'}
        /\ page'.board = page.board /\ page'.error = page.error /\ page'.loaded = page.loaded
    BY <2>1, <2>2, TellIs
  <2>4. QED BY <2>1, <2>3
<1>3. CASE IsBack(c, by)
  <2>1. used' = used /\ lives' = lives \cup {c.board} /\ Tell(c.board, TRUE, FALSE)
    BY <1>3 DEF IsBack
  <2>2. c.board \in 1 .. used
    BY <1>3 DEF IsBack, CommandsTo, ServerTyped, NoBoard
  <2>3. used' \in Nat /\ used <= used' /\ c.board \in 1 .. used'
    BY <1>1, <2>1, <2>2
  <2>4. /\ known' = IF page.error THEN known ELSE known \cup {c.board}
        /\ page'.board = page.board /\ page'.error = page.error /\ page'.loaded = page.loaded
    BY <2>1, <2>3, TellIs
  <2>5. QED BY <2>1, <2>4
<1>4. CASE IsGone(c, by)
  <2>1. used' = used /\ lives' = lives \ {c.board} /\ Tell(c.board, FALSE, FALSE) /\ c.board \in lives
    BY <1>4 DEF IsGone
  <2>2. c.board \in 1 .. used
    BY <1>1, <2>1
  <2>3. used' \in Nat /\ used <= used' /\ c.board \in 1 .. used'
    BY <1>1, <2>1, <2>2
  <2>4. /\ known' = IF page.error THEN known ELSE known \ {c.board}
        /\ page'.board = page.board /\ page'.error = page.error /\ page'.loaded = page.loaded
    BY <2>1, <2>3, TellIs
  <2>5. QED BY <2>1, <2>4
<1>5. CASE IsSame(c, by)
  <2>1. used' = used /\ lives' = lives
    BY <1>5 DEF IsSame, serverBoards
  <2>2. CASE Silence
    BY <2>1, <2>2 DEF Silence
  <2>3. CASE c.board \in lives /\ Tell(c.board, TRUE, FALSE)
    <3>1. c.board \in 1 .. used
      BY <1>1, <2>3
    <3>2. used' \in Nat /\ used <= used' /\ c.board \in 1 .. used'
      BY <1>1, <2>1, <3>1
    <3>3. /\ known' = IF page.error THEN known ELSE known \cup {c.board}
          /\ page'.board = page.board /\ page'.error = page.error /\ page'.loaded = page.loaded
      BY <2>3, <3>2, TellIs
    <3>4. QED BY <2>1, <2>3, <3>3
  <2>4. QED BY <1>5, <2>2, <2>3 DEF IsSame
<1>6. QED BY <1>2, <1>3, <1>4, <1>5

LEMMA StoreAnswer == ASSUME LifeTyped, StoreHolds, NEW r \in requests, Answer(r) PROVE StoreHolds'
<1>1. ServerTyped /\ PageTyped /\ used \in Nat /\ requests \subseteq RequestsTo(used)
  BY DEF LifeTyped, ServerTyped
<1>2. ObeyedAnswer(r) \/ RefusedAnswer(r) \/ LoadAnswer(r)
  BY <1>1, AnswersAre
<1>3. meddled' = meddled /\ r.answer = "none"
  BY DEF Answer
<1>4. ASSUME Pages' = Pages, page'.error = page.error, page'.board = page.board, page'.loaded = page.loaded,
             faults \subseteq faults', known = lives /\ ~page.error => known' = lives',
             "stale" \notin faults' => \A s \in Pages : s.answer # "none" => lives' = lives
      PROVE  StoreHolds'
  BY <1>3, <1>4 DEF StoreHolds
<1>5. CASE ObeyedAnswer(r)
  <2>1. r.do = "command" /\ (IsBorn(r.command, r.by) \/ IsBack(r.command, r.by) \/ IsGone(r.command, r.by) \/ IsSame(r.command, r.by))
        /\ requests' = (requests \ {r}) \cup {[r EXCEPT !.answer = "ok", !.ids = lives' \ lives]}
        /\ faults' = faults \cup Stale(requests) \cup (IF Revives(r) THEN {"revived"} ELSE {})
    BY <1>5 DEF ObeyedAnswer
  <2>2. r.command \in CommandsTo(used)
    BY <1>1, <2>1, CommandIs
  <2>3. /\ known = lives /\ ~page.error => known' = lives'
        /\ page'.error = page.error /\ page'.board = page.board /\ page'.loaded = page.loaded
    BY <1>1, <2>1, <2>2, StoreTold
  <2>4. [r EXCEPT !.answer = "ok", !.ids = lives' \ lives].do = "command"
    BY <1>1, <2>1 DEF RequestsTo
  <2>5. Pages' = Pages
    BY <2>1, <2>4 DEF Pages
  <2>6. "stale" \notin faults' => \A s \in Pages : s.answer = "none"
    BY <2>1 DEF Stale, Pages
  <2>7. QED BY <1>4, <2>1, <2>3, <2>5, <2>6
<1>6. CASE RefusedAnswer(r)
  <2>1. r.do = "command" /\ UNCHANGED <<lives, known, page>> /\ faults \subseteq faults'
        /\ requests' = (requests \ {r}) \cup {[r EXCEPT !.answer = "refused", !.ids = {}]}
    BY <1>6 DEF RefusedAnswer, NoChange, serverBoards, Silence
  <2>2. [r EXCEPT !.answer = "refused", !.ids = {}].do = "command"
    BY <1>1, <2>1 DEF RequestsTo
  <2>3. Pages' = Pages
    BY <2>1, <2>2 DEF Pages
  <2>4. QED BY <1>4, <2>1, <2>3
<1>7. CASE LoadAnswer(r)
  <2>1. PICK q : /\ requests' = (requests \ {r}) \cup {q} /\ q.do = r.do /\ q.board = r.board /\ q.ids = lives
    <3> DEFINE q == [r EXCEPT !.answer = IF Found(r.board) THEN "ok" ELSE "refused", !.ids = lives]
    <3>1. requests' = (requests \ {r}) \cup {q}
      BY <1>7 DEF LoadAnswer
    <3>2. q.do = r.do /\ q.board = r.board /\ q.ids = lives
      BY <1>1 DEF RequestsTo
    <3>3. QED BY <3>1, <3>2
  <2>2. UNCHANGED <<lives, known, page>> /\ faults' = faults
    BY <1>7 DEF LoadAnswer, NoChange, serverBoards, Silence
  <2>3. /\ \A s \in Pages' : s \in Pages \/ s.ids = lives
        /\ \A s \in Pages : \E t \in Pages' : t.board = s.board
    BY <2>1 DEF Pages
  <2>4. QED BY <1>3, <2>2, <2>3 DEF StoreHolds
<1>8. QED BY <1>2, <1>5, <1>6, <1>7

LEMMA StoreReceives == ASSUME LifeTyped, StoreHolds, NEW r \in requests, ReceivePage(r) PROVE StoreHolds'
<1>1. ServerTyped /\ PageTyped /\ used \in Nat /\ requests \subseteq RequestsTo(used)
  BY DEF LifeTyped, ServerTyped
<1>2. /\ r.do = "page" /\ r.answer # "none" /\ known' = r.ids /\ requests' = requests \ {r} /\ faults \subseteq faults'
      /\ lives' = lives /\ meddled' = meddled
      /\ page' = IF r.board = NoBoard THEN page
                 ELSE IF r.answer = "refused" THEN [page EXCEPT !.error = TRUE, !.last = NoBoard]
                 ELSE [page EXCEPT !.last = r.board, !.loaded = @ \/ page.board = r.board]
  BY DEF ReceivePage, serverBoards
<1>3. Pages' = Pages \ {r} /\ r \in Pages
  BY <1>2 DEF Pages
<1>4. "stale" \notin faults' => known' = lives'
  BY <1>2, <1>3 DEF StoreHolds
<1>5. ~page'.error => /\ ~page.error /\ page'.board = page.board
                      /\ page'.loaded = page.loaded \/ (page'.loaded /\ r.board = page.board)
                      /\ r.board = page.board /\ r.board # NoBoard => page'.loaded
  BY <1>1, <1>2 DEF PageTyped
<1>6. ASSUME meddled' = 0, ~page'.error, page'.board # NoBoard PROVE page'.loaded \/ \E s \in Pages' : s.board = page'.board
  BY <1>2, <1>3, <1>5, <1>6 DEF StoreHolds
<1>7. \A s \in Pages' : s \in Pages
  BY <1>3
<1>8. QED BY <1>2, <1>4, <1>6, <1>7 DEF StoreHolds

LEMMA StoreOthers == ASSUME LifeTyped, StoreHolds, OtherDeletes PROVE StoreHolds'
<1>1. ServerTyped /\ PageTyped /\ used \in Nat /\ meddled \in Nat
  BY DEF LifeTyped, ServerTyped
<1>2. PICK b \in lives :
          \/ Dies(b)
          \/ viewed' = viewed \ {b} /\ UNCHANGED <<lives, used, templates>> /\ Tell(b, TRUE, TRUE)
  BY DEF OtherDeletes
<1>3. meddled' = meddled + 1 /\ requests' = requests /\ faults' = faults \cup Stale(requests) /\ used' = used
  BY <1>2 DEF OtherDeletes, Dies
<1>4. meddled' # 0
  BY <1>1, <1>3
<1>5. b \in 1 .. used
  BY <1>1 DEF ServerTyped
<1>6. used' \in Nat /\ used <= used' /\ b \in 1 .. used'
  BY <1>1, <1>3, <1>5
<1>7. known = lives /\ ~page.error => known' = lives'
  <2>1. CASE lives' = lives \ {b} /\ Tell(b, FALSE, FALSE)
    <3>1. known' = IF page.error THEN known ELSE known \ {b}
      BY <1>1, <1>6, <2>1, TellIs
    <3>2. QED BY <2>1, <3>1
  <2>2. CASE lives' = lives /\ Tell(b, TRUE, TRUE)
    <3>1. known' = IF page.error THEN known ELSE known \cup {b}
      BY <1>1, <1>6, <2>2, TellIs
    <3>2. QED BY <2>2, <3>1
  <2>3. QED BY <1>2, <2>1, <2>2 DEF Dies
<1>8. page'.error = page.error
  BY <1>1, <1>2, <1>6, TellIs DEF Dies
<1>9. Pages' = Pages
  BY <1>3 DEF Pages
<1>10. "stale" \notin faults' => \A s \in Pages : s.answer = "none"
  BY <1>3 DEF Stale, Pages
<1>11. QED BY <1>3, <1>4, <1>7, <1>8, <1>9, <1>10 DEF StoreHolds
-----------------------------------------------------------------------------
(* The selector shows its active template.                                 *)

LEMMA RenderedTyped == ASSUME SelectorTyped, ServerTyped', PageTyped', used \in Nat, used <= used', Rendered PROVE SelectorTyped'
<1>1. used' \in Nat /\ known' \subseteq 1 .. used' /\ selector \in [active : 0 .. used', asked : 0 .. used', shown : 0 .. used']
  BY DEF SelectorTyped, ServerTyped, PageTyped
<1>2. NoSelector \in [active : 0 .. used', asked : 0 .. used', shown : 0 .. used']
  BY <1>1 DEF NoSelector, NoBoard
<1>3. First(known' \cap templates') \in 0 .. used'
  <2> DEFINE S == known' \cap templates'
  <2>1. S \subseteq 1 .. used'
    BY <1>1
  <2> HIDE DEF S
  <2>2. S \subseteq Nat
    BY <1>1, <2>1
  <2>3. First(S) \in S \cup {NoBoard}
    BY <2>2, FirstIs
  <2>4. First(S) \in 0 .. used'
    <3>1. First(S) \in 1 .. used' \/ First(S) = 0
      BY <2>1, <2>3 DEF NoBoard
    <3>2. QED BY <1>1, <3>1
  <2>5. QED BY <2>4 DEF S
<1>4. [NoSelector EXCEPT !.active = First(known' \cap templates')] \in [active : 0 .. used', asked : 0 .. used', shown : 0 .. used']
  BY <1>2, <1>3
<1>5. selector' \in {NoSelector, selector, [NoSelector EXCEPT !.active = First(known' \cap templates')]}
  BY DEF Rendered
<1>6. QED BY <1>1, <1>2, <1>4, <1>5 DEF SelectorTyped

\* The preview is still shown, asked for, or not to be had.
Previewed == \/ selector.shown = selector.active \/ selector.active \notin lives \cap viewed
             \/ \E r \in Previewing : r.board = selector.active /\ r.answer # "refused"

LEMMA RenderedHolds ==
    ASSUME SelectorHolds, ServerTyped', PageTyped', Rendered,
           \A r \in Previewing' : r.board # NoBoard,
           ASSUME SelectorShown(page', known', picking'), picking' = picking, selector' = selector, selector.active # NoBoard,
                  selector.asked = selector.active, meddled' = 0, "revived" \notin faults', meddled = 0 /\ "revived" \notin faults => Previewed
           PROVE  Previewed'
    PROVE  SelectorHolds'
<1> DEFINE new == [NoSelector EXCEPT !.active = First(known' \cap templates')]
           kept == SelectorShown(page, known, picking) /\ picking' = picking /\ selector.active # NoBoard
<1>1. used' \in Nat /\ known' \cap templates' \subseteq Nat /\ NoBoard \notin known'
  BY DEF ServerTyped, PageTyped, NoBoard
<1>2. Selecting' <=> SelectorShown(page', known', picking')
  BY DEF Selecting
<1>3. CASE ~SelectorShown(page', known', picking')
  <2>1. selector' = NoSelector
    BY <1>3 DEF Rendered
  <2>2. QED BY <1>2, <1>3, <2>1 DEF SelectorHolds, NoSelector
<1>4. CASE SelectorShown(page', known', picking') /\ ~kept
  <2>1. selector' = new
    BY <1>4 DEF Rendered
  <2>2. new.asked = NoBoard /\ new.shown = NoBoard /\ new.active = First(known' \cap templates')
    BY DEF NoSelector
  <2>3. new.active = NoBoard => known' \cap templates' = {}
    BY <1>1, <2>2, FirstIs DEF NoBoard
  <2> HIDE DEF new
  <2>4. QED BY <1>2, <1>4, <2>1, <2>2, <2>3 DEF SelectorHolds
<1>5. CASE SelectorShown(page', known', picking') /\ kept
  <2>1. selector' = selector /\ selector.active # NoBoard /\ picking' = picking
    BY <1>5 DEF Rendered
  <2>2. meddled = 0 /\ "revived" \notin faults /\ selector.asked = selector.active => Previewed
    BY <2>1 DEF SelectorHolds, Previewed
  <2>3. meddled' = 0 /\ "revived" \notin faults' /\ selector.asked = selector.active => Previewed'
    BY <1>5, <2>1, <2>2
  <2>4. QED BY <1>2, <1>5, <2>1, <2>3 DEF SelectorHolds, Previewed
<1>6. QED BY <1>3, <1>4, <1>5

LEMMA RenderedMoves ==
    ASSUME SelectorHolds, ServerTyped', PageTyped', Rendered, Previewing' = Previewing,
           UNCHANGED <<lives, viewed, meddled>>, faults \subseteq faults'
    PROVE  SelectorHolds'
<1>1. \A r \in Previewing' : r.board # NoBoard
  BY DEF SelectorHolds
<1>2. ASSUME selector' = selector, meddled' = 0, "revived" \notin faults', meddled = 0 /\ "revived" \notin faults => Previewed
      PROVE  Previewed'
  BY <1>2 DEF Previewed
<1>3. QED BY <1>1, <1>2, RenderedHolds

LEMMA RenderedAnswer ==
    ASSUME LifeTyped, SelectorHolds, ServerTyped', PageTyped', Rendered, NEW r \in requests, Answer(r)
    PROVE  SelectorHolds'
<1>1. /\ ServerTyped /\ PageTyped /\ used \in Nat /\ requests \subseteq RequestsTo(used) /\ lives \subseteq 1 .. used /\ viewed \subseteq 1 .. used
      /\ selector.active \in 0 .. used
  BY DEF LifeTyped, ServerTyped, SelectorTyped
<1>2. ObeyedAnswer(r) \/ RefusedAnswer(r) \/ LoadAnswer(r)
  BY <1>1, AnswersAre
<1>3. meddled' = meddled /\ r.answer = "none"
  BY DEF Answer
<1>4. CASE ObeyedAnswer(r)
  <2> DEFINE c == r.command
  <2>1. r.do = "command" /\ (IsBorn(c, r.by) \/ IsBack(c, r.by) \/ IsGone(c, r.by) \/ IsSame(c, r.by))
        /\ requests' = (requests \ {r}) \cup {[r EXCEPT !.answer = "ok", !.ids = lives' \ lives]}
        /\ faults' = faults \cup Stale(requests) \cup (IF Revives(r) THEN {"revived"} ELSE {})
    BY <1>4 DEF ObeyedAnswer
  <2>2. [r EXCEPT !.answer = "ok", !.ids = lives' \ lives].do = "command"
    BY <1>1, <2>1 DEF RequestsTo
  <2>3. Previewing' = Previewing
    BY <2>1, <2>2 DEF Previewing
  <2>4. \A s \in Previewing' : s.board # NoBoard
    BY <2>3 DEF SelectorHolds
  <2>5. ASSUME SelectorShown(page', known', picking'), picking' = picking, selector.active # NoBoard, "revived" \notin faults',
               selector.active \in lives' \cap viewed'
        PROVE  selector.active \in lives \cap viewed
    <3>1. CASE IsBorn(c, r.by)
      <4>1. lives' = lives \cup {used + 1} /\ viewed' \subseteq viewed \cup {used + 1}
        BY <3>1 DEF IsBorn
      <4>2. selector.active # used + 1
        BY <1>1
      <4>3. QED BY <2>5, <4>1, <4>2
    <3>2. CASE IsBack(c, r.by)
      <4>1. /\ lives' = lives \cup {c.board} /\ viewed' = viewed /\ Tell(c.board, TRUE, FALSE) /\ used' = used
            /\ r.by = "undo" /\ c.kind = "delete"
        BY <3>2 DEF IsBack
      <4>2. CASE c.board # selector.active
        BY <2>5, <4>1, <4>2
      <4>3. CASE c.board = selector.active
        <5>1. c.board = page.board
          BY <2>1, <2>5, <4>1, <4>3 DEF Revives
        <5>2. c.board \in 0 .. used /\ c.board # NoBoard
          BY <1>1, <2>5, <4>3
        <5>3. used' \in Nat /\ used <= used' /\ c.board \in 1 .. used'
          BY <1>1, <4>1, <5>2 DEF NoBoard
        <5>4. /\ known' = IF page.error THEN known ELSE known \cup {c.board}
              /\ page'.board = page.board /\ page'.error = page.error /\ ~picking'
          BY <1>1, <4>1, <5>1, <5>3, TellIs
        <5>5. ~SelectorShown(page', known', picking')
          BY <5>1, <5>4 DEF SelectorShown
        <5>6. QED BY <2>5, <5>5
      <4>4. QED BY <4>2, <4>3
    <3>3. CASE IsGone(c, r.by)
      BY <2>5, <3>3 DEF IsGone
    <3>4. CASE IsSame(c, r.by)
      BY <2>5, <3>4 DEF IsSame, serverBoards
    <3>5. QED BY <2>1, <3>1, <3>2, <3>3, <3>4
  <2>6. faults \subseteq faults'
    BY <2>1
  <2>7. ASSUME SelectorShown(page', known', picking'), picking' = picking, selector' = selector, selector.active # NoBoard,
               meddled' = 0, "revived" \notin faults', meddled = 0 /\ "revived" \notin faults => Previewed
        PROVE  Previewed'
    BY <1>3, <2>3, <2>5, <2>6, <2>7 DEF Previewed
  <2>8. QED BY <2>4, <2>7, RenderedHolds
<1>5. CASE RefusedAnswer(r)
  <2>1. r.do = "command" /\ UNCHANGED <<lives, viewed>> /\ faults \subseteq faults'
        /\ requests' = (requests \ {r}) \cup {[r EXCEPT !.answer = "refused", !.ids = {}]}
    BY <1>5 DEF RefusedAnswer, NoChange, serverBoards
  <2>2. [r EXCEPT !.answer = "refused", !.ids = {}].do = "command"
    BY <1>1, <2>1 DEF RequestsTo
  <2>3. Previewing' = Previewing
    BY <2>1, <2>2 DEF Previewing
  <2>4. QED BY <1>3, <2>1, <2>3, RenderedMoves
<1>6. CASE LoadAnswer(r)
  <2>1. PICK q : /\ requests' = (requests \ {r}) \cup {q} /\ q.do = r.do /\ q.board = r.board
                 /\ q.answer = IF Found(r.board) THEN "ok" ELSE "refused"
    <3> DEFINE q == [r EXCEPT !.answer = IF Found(r.board) THEN "ok" ELSE "refused", !.ids = lives]
    <3>1. requests' = (requests \ {r}) \cup {q}
      BY <1>6 DEF LoadAnswer
    <3>2. q.do = r.do /\ q.board = r.board /\ q.answer = IF Found(r.board) THEN "ok" ELSE "refused"
      BY <1>1 DEF RequestsTo
    <3>3. QED BY <3>1, <3>2
  <2>2. UNCHANGED <<lives, viewed>> /\ faults' = faults
    BY <1>6 DEF LoadAnswer, NoChange, serverBoards
  <2>3. \A s \in Previewing' : \E t \in Previewing : t.board = s.board
    BY <2>1 DEF Previewing
  <2>4. \A s \in Previewing' : s.board # NoBoard
    BY <2>3 DEF SelectorHolds
  <2>5. \A s \in Previewing : s \in Previewing' \/ \E t \in Previewing' : t.board = s.board /\ (t.answer = "refused" => s.board \notin lives \cap viewed)
    BY <2>1 DEF Previewing, Found
  <2>6. ASSUME selector' = selector, meddled' = 0, "revived" \notin faults', meddled = 0 /\ "revived" \notin faults => Previewed
        PROVE  Previewed'
    BY <1>3, <2>2, <2>5, <2>6 DEF Previewed
  <2>7. QED BY <2>4, <2>6, RenderedHolds
<1>7. QED BY <1>2, <1>4, <1>5, <1>6

LEMMA RenderedOthers == ASSUME LifeTyped, SelectorHolds, ServerTyped', PageTyped', Rendered, OtherDeletes PROVE SelectorHolds'
<1>1. meddled \in Nat /\ meddled' = meddled + 1 /\ requests' = requests
  BY DEF OtherDeletes, LifeTyped
<1>2. meddled' # 0
  BY <1>1
<1>3. \A r \in Previewing' : r.board # NoBoard
  BY <1>1 DEF SelectorHolds, Previewing
<1>4. QED BY <1>2, <1>3, RenderedHolds

\* The effects of the preview.
PreviewStep == LifeTyped' /\ SelectorHolds' /\ Linked' /\ Answered' = Answered /\ StoreHolds'
               /\ UNCHANGED <<lives, used, undos, meddled, faults>>
LEMMA PreviewsIs ==
    ASSUME LifeTyped, Linked, StoreHolds, SelectorHolds, Selecting, NEW t \in 1 .. used, Previews(t),
           UNCHANGED <<serverBoards, known, meddled, faults>>, acts' \in Nat
    PROVE  PreviewStep
<1> DEFINE q == Loading("preview", t)
<1>1. /\ ServerTyped /\ PageTyped /\ SelectorTyped /\ UndosTyped /\ used \in Nat /\ acts \in Nat /\ meddled \in Nat
      /\ requests \subseteq RequestsTo(used)
  BY DEF LifeTyped, ServerTyped
<1>2. UNCHANGED <<lives, used, templates, viewed, known, meddled, faults, page, picking, undos>> /\ requests' = requests \cup {q}
      /\ selector' = [active |-> t, asked |-> t, shown |-> NoBoard]
  BY DEF Previews, serverBoards
<1>3. t \in 0 .. used /\ t # NoBoard
  BY <1>1 DEF NoBoard
<1>4. q \in RequestsTo(used) /\ q.do = "preview" /\ q.board = t /\ q.answer = "none"
  BY <1>1, <1>3, LoadingIs
<1> HIDE DEF q
<1>5. LifeTyped'
  <2>1. ServerTyped' /\ PageTyped' /\ UndosTyped'
    BY <1>1, <1>2, UndosKept DEF ServerTyped, PageTyped
  <2>2. SelectorTyped'
    BY <1>1, <1>2, <1>3 DEF SelectorTyped, NoBoard
  <2>3. QED BY <1>1, <1>2, <1>4, <2>1, <2>2 DEF LifeTyped
<1>6. Keeps
  BY <1>2, <1>4 DEF Keeps, Replaying
<1>7. Answered' = Answered /\ Pages' = Pages /\ Previewing' = Previewing \cup {q}
  BY <1>2, <1>4 DEF Answered, Pages, Previewing
<1>8. StoreHolds'
  BY <1>2, <1>7 DEF StoreHolds
<1>9. SelectorHolds'
  <2>1. Selecting'
    BY <1>2 DEF Selecting, SelectorShown
  <2>2. selector'.active = t /\ selector'.asked = t /\ selector'.shown = NoBoard
    BY <1>2
  <2>3. QED BY <1>3, <1>4, <1>7, <2>1, <2>2 DEF SelectorHolds
<1>10. QED BY <1>2, <1>5, <1>6, <1>7, <1>8, <1>9, LinkedKept DEF PreviewStep

LEMMA LoadPreviewIs == ASSUME LifeTyped, Linked, StoreHolds, SelectorHolds, LoadPreview PROVE PreviewStep
<1>1. selector.asked # selector.active /\ Previews(selector.active) /\ UNCHANGED <<serverBoards, known, acts, meddled, faults>>
  BY DEF LoadPreview
<1>2. used \in Nat /\ acts \in Nat /\ selector.active \in 0 .. used
  BY DEF LifeTyped, ServerTyped, SelectorTyped
<1>3. Selecting /\ selector.active # NoBoard
  BY <1>1 DEF SelectorHolds, NoSelector
<1>4. selector.active \in 1 .. used /\ acts' \in Nat
  BY <1>1, <1>2, <1>3 DEF NoBoard
<1>5. QED BY <1>1, <1>3, <1>4, PreviewsIs

LEMMA SelectTemplateIs == ASSUME LifeTyped, Linked, StoreHolds, SelectorHolds, SelectTemplate PROVE PreviewStep
<1>1. PICK t \in known : Previews(t)
  BY DEF SelectTemplate
<1>2. Selecting /\ UNCHANGED <<serverBoards, known, meddled, faults>> /\ acts' = acts + 1
  BY DEF SelectTemplate, Acts
<1>3. known \subseteq 1 .. used /\ acts \in Nat
  BY DEF LifeTyped, PageTyped
<1>4. t \in 1 .. used /\ acts' \in Nat
  BY <1>2, <1>3
<1>5. QED BY <1>1, <1>2, <1>4, PreviewsIs

LEMMA ReceivePreviewIs == ASSUME LifeTyped, Linked, StoreHolds, SelectorHolds, NEW r \in requests, ReceivePreview(r) PROVE PreviewStep
<1>1. /\ ServerTyped /\ PageTyped /\ SelectorTyped /\ UndosTyped /\ used \in Nat /\ acts \in Nat /\ meddled \in Nat
      /\ requests \subseteq RequestsTo(used)
  BY DEF LifeTyped, ServerTyped
<1>2. UNCHANGED <<lives, used, templates, viewed, known, meddled, faults, page, picking, undos, acts>> /\ requests' = requests \ {r}
      /\ r.do = "preview" /\ r.answer # "none"
      /\ selector' = IF selector.active = r.board /\ r.answer = "ok" THEN [selector EXCEPT !.shown = r.board] ELSE selector
  BY DEF ReceivePreview, serverBoards, isSubscribed
<1>3. r.board \in 0 .. used /\ r.answer \in {"none", "ok", "refused"}
  BY <1>1, RequestIs
<1>4. /\ selector' \in [active : 0 .. used, asked : 0 .. used, shown : 0 .. used]
      /\ selector'.active = selector.active /\ selector'.asked = selector.asked
      /\ selector'.shown = IF selector.active = r.board /\ r.answer = "ok" THEN r.board ELSE selector.shown
  BY <1>1, <1>2, <1>3 DEF SelectorTyped
<1>5. LifeTyped'
  <2>1. ServerTyped' /\ PageTyped' /\ UndosTyped'
    BY <1>1, <1>2, UndosKept DEF ServerTyped, PageTyped
  <2>2. SelectorTyped'
    BY <1>2, <1>4 DEF SelectorTyped
  <2>3. QED BY <1>1, <1>2, <2>1, <2>2 DEF LifeTyped
<1>6. Keeps
  BY <1>2 DEF Keeps
<1>7. Answered' = Answered /\ Pages' = Pages /\ Previewing' = Previewing \ {r} /\ r \in Previewing
  BY <1>2 DEF Answered, Pages, Previewing
<1>8. StoreHolds'
  BY <1>2, <1>7 DEF StoreHolds
<1>9. SelectorHolds'
  <2>1. Selecting' = Selecting
    BY <1>2 DEF Selecting, SelectorShown
  <2>2. r.board # NoBoard
    BY <1>7 DEF SelectorHolds
  <2>3. ~Selecting => selector' = NoSelector
    BY <1>2, <2>2 DEF SelectorHolds, NoSelector
  <2>4. Previewed /\ selector.active # NoBoard => Previewed'
    BY <1>2, <1>3, <1>4, <1>7 DEF Previewed
  <2>5. meddled' = 0 /\ "revived" \notin faults' /\ selector'.asked = selector'.active /\ selector'.active # NoBoard => Previewed'
    BY <1>2, <1>4, <2>4 DEF SelectorHolds, Previewed
  <2>6. QED BY <1>2, <1>4, <1>7, <2>1, <2>3, <2>5 DEF SelectorHolds, Previewed
<1>10. QED BY <1>2, <1>5, <1>6, <1>7, <1>8, <1>9, LinkedKept DEF PreviewStep
-----------------------------------------------------------------------------
(* What is recorded explains the boards.                                   *)

About(r, b) == Deletion(r, b) \/ Unmade(r, b) \/ Revived(r, b) \/ Redeleted(r, b)
RecordsTyped == /\ Len(Records) \in Nat /\ Here \in Nat /\ Here <= Len(Records) /\ DOMAIN Records = 1 .. Len(Records)
                /\ \A i \in DOMAIN Records : Records[i] \in CommandsTo(used)

LEMMA RecordsAre == ASSUME UndosTyped, used \in Nat PROVE RecordsTyped
<1>1. undos.commands \in Seq(CommandsTo(used)) /\ undos.index \in Nat /\ undos.index <= Len(undos.commands)
  BY DEF UndosTyped
<1>2. QED BY <1>1 DEF RecordsTyped, Records, Here

\* A board that a step is not about, by its requests or by its records.
LEMMA Unconcerned ==
    ASSUME NEW b, BoardTold(b), b \in lives' <=> b \in lives,
           \A s \in Answered \cup Answered' : About(s, b) => (s \in Answered' <=> s \in Answered),
           \A i : (Makes(i, b)' <=> Makes(i, b)) /\ (Deletes(i, b)' <=> Deletes(i, b)),
           \A i : Makes(i, b) \/ Deletes(i, b) => (i <= Here' <=> i <= Here) /\ (Here' < i <=> Here < i),
           Here' = Here \/ \A s \in Answered : ~Revived(s, b)
    PROVE  BoardTold(b)'
<1>1. /\ \A i : Makes(i, b) \/ Deletes(i, b) => i \in DOMAIN Records
      /\ \A i : Makes(i, b)' \/ Deletes(i, b)' => i \in DOMAIN Records'
  BY DEF Makes, Deletes
<1>2. Once(b)'
  BY <1>1 DEF BoardTold, Once
<1>3. Settles(b)' => Settles(b)
  BY DEF Settles, About
<1>4. Told(b) => Told(b)'
  BY <1>1 DEF Told
<1>5. DeletionsHold(b)'
  <2>1. DeletionsHold(b) /\ \A s : s \in Answered' /\ (Deletion(s, b) \/ Revived(s, b)) <=> s \in Answered /\ (Deletion(s, b) \/ Revived(s, b))
    BY DEF BoardTold, About
  <2>2. \A s : (s \in Answered' /\ Deletion(s, b) <=> s \in Answered /\ Deletion(s, b)) /\ (s \in Answered' /\ Revived(s, b) <=> s \in Answered /\ Revived(s, b))
    BY DEF About
  <2>3. QED BY <1>1, <2>1, <2>2 DEF DeletionsHold
<1>6. ReplaysHold(b)'
  <2>1. \A s : /\ s \in Answered' /\ Deletion(s, b) <=> s \in Answered /\ Deletion(s, b)
               /\ s \in Answered' /\ Revived(s, b) <=> s \in Answered /\ Revived(s, b)
               /\ s \in Answered' /\ Unmade(s, b) <=> s \in Answered /\ Unmade(s, b)
               /\ s \in Answered' /\ Redeleted(s, b) <=> s \in Answered /\ Redeleted(s, b)
    BY DEF About
  <2>2. QED BY <2>1 DEF BoardTold, ReplaysHold
<1>7. QED BY <1>2, <1>3, <1>4, <1>5, <1>6 DEF BoardTold

LEMMA HistoryQuiet ==
    ASSUME HistoryHolds, Answered' = Answered, lives' = lives, used' = used, Records' = Records, Here' = Here, Calm' => Calm
    PROVE  HistoryHolds'
<1>1. \A i, b : (Makes(i, b)' <=> Makes(i, b)) /\ (Deletes(i, b)' <=> Deletes(i, b))
  BY DEF Makes, Deletes
<1>2. \A b : BoardTold(b) => BoardTold(b)'
  BY <1>1, Unconcerned
<1>3. \A r : MadeHold(r) => MadeHold(r)'
  BY <1>1 DEF MadeHold
<1>4. QED BY <1>2, <1>3 DEF HistoryHolds

\* While what is replayed is not answered, no answer is of a replay.
LEMMA NoneReplayed == ASSUME Linked, NEW r \in requests, Replaying(r), r \notin Answered PROVE \A s \in Answered : ~Replaying(s)
BY DEF Linked, Answered
LEMMA NoneBusy == ASSUME Linked, ~undos.busy PROVE \A s \in Answered : ~Replaying(s)
BY DEF Linked, Answered
\* ... and one at most is.
LEMMA OneReplayed == ASSUME Linked, NEW r \in Answered, Replaying(r) PROVE \A s \in Answered : Replaying(s) => s = r
BY DEF Linked, Answered
LEMMA ReplaysAre == ASSUME NEW r, NEW b, r.do = "command", Unmade(r, b) \/ Revived(r, b) \/ Redeleted(r, b) PROVE Replaying(r)
BY DEF Replaying, Unmade, Revived, Redeleted

\* The records of what is replayed.
LEMMA UndoneRecord ==
    ASSUME Linked, RecordsTyped, NEW r \in requests, Replaying(r), r.by = "undo"
    PROVE  Here > 0 /\ Here \in DOMAIN Records /\ Records[Here] = r.command
BY DEF Linked, RecordsTyped
LEMMA RedoneRecord ==
    ASSUME Linked, RecordsTyped, NEW r \in requests, Replaying(r), r.by = "redo"
    PROVE  Here < Len(Records) /\ Here + 1 \in DOMAIN Records /\ Records[Here + 1] = r.command
BY DEF Linked, RecordsTyped
\* What is answered: one request more.
AnsweredMore(r, q) ==
    /\ Answered' = Answered \cup {q} /\ r \in requests /\ r.do = "command" /\ r \notin Answered
    /\ q.do = "command" /\ q.by = r.by /\ q.command = r.command
    /\ q.ids = lives' \ lives

LEMMA AboutSame ==
    ASSUME NEW r, NEW q, AnsweredMore(r, q), NEW b
    PROVE  /\ Deletion(q, b) <=> r.by = "perform" /\ r.command.kind = "delete" /\ r.command.board = b
           /\ Unmade(q, b) <=> r.by = "undo" /\ r.command.kind \in Makers /\ r.command.board = b
           /\ Revived(q, b) <=> r.by = "undo" /\ r.command.kind = "delete" /\ r.command.board = b
           /\ Redeleted(q, b) <=> r.by = "redo" /\ r.command.kind = "delete" /\ r.command.board = b
           /\ Made(q) <=> r.by # "undo" /\ r.command.kind \in Makers
BY DEF AnsweredMore, Deletion, Unmade, Revived, Redeleted, Made

\* A board that the answer is not about.
LEMMA AnswerElsewhere ==
    ASSUME NEW r, NEW q, AnsweredMore(r, q), NEW b, BoardTold(b), b \in lives' <=> b \in lives, Records' = Records, Here' = Here,
           r.command.board # b \/ r.command.kind \notin Makers \cup {"delete"} \/ (r.by # "undo" /\ r.command.kind \in Makers)
    PROVE  BoardTold(b)'
<1>1. ~About(q, b)
  BY AboutSame DEF About, Makers
<1>2. \A s \in Answered \cup Answered' : About(s, b) => (s \in Answered' <=> s \in Answered)
  BY <1>1 DEF AnsweredMore
<1>3. \A i : (Makes(i, b)' <=> Makes(i, b)) /\ (Deletes(i, b)' <=> Deletes(i, b))
  BY DEF Makes, Deletes
<1>4. QED BY <1>2, <1>3, Unconcerned

\* What was made stays so, but for a board that goes.
LEMMA MadeElsewhere ==
    ASSUME NEW r, NEW q, AnsweredMore(r, q), NEW s \in Answered, MadeHold(s), Records' = Records, used \in Nat, used' \in Nat, used <= used',
           \A n \in 1 .. used : n \in q.ids => ~Made(q),
           \A n \in 1 .. used : n \in lives => \/ n \in lives' \/ Deletion(q, n) \/ (\E i \in DOMAIN Records : Makes(i, n) \/ Deletes(i, n))
    PROVE  MadeHold(s)'
<1>1. PICK n \in 1 .. used :
        /\ s.ids = {n}
        /\ \A t \in Answered : Made(t) /\ n \in t.ids => t = s
        /\ \A i \in DOMAIN Records : ~Makes(i, n)
        /\ \/ n \in lives \/ \E t \in Answered : Deletion(t, n)
           \/ \E i \in DOMAIN Records : Deletes(i, n)
  BY DEF MadeHold
<1>2. n \in 1 .. used' /\ Answered' = Answered \cup {q}
  BY DEF AnsweredMore
<1>3. \A t \in Answered' : Made(t) /\ n \in t.ids => t = s
  BY <1>1, <1>2
<1>4. \A i : (Makes(i, n)' <=> Makes(i, n)) /\ (Deletes(i, n)' <=> Deletes(i, n))
  BY DEF Makes, Deletes
<1>5. \/ n \in lives' \/ (\E t \in Answered' : Deletion(t, n)) \/ (\E i \in DOMAIN Records' : Deletes(i, n)')
  BY <1>1, <1>2, <1>4
<1>6. \A i \in DOMAIN Records' : ~Makes(i, n)'
  BY <1>1, <1>4
<1>7. QED BY <1>1, <1>2, <1>3, <1>5, <1>6 DEF MadeHold

HistoryNow == (\A b \in 1 .. used : BoardTold(b)) /\ (\A r \in Answered : Made(r) => MadeHold(r))
AnswerFacts(r, q) == /\ AnsweredMore(r, q) /\ Linked /\ HistoryNow /\ RecordsTyped
                     /\ used \in Nat /\ lives \subseteq 1 .. used /\ Records' = Records /\ Here' = Here
                     /\ r.command \in CommandsTo(used) /\ r.by \in {"perform", "undo", "redo"}
                     /\ \A s \in Answered : s.do = "command" /\ s.command \in CommandsTo(used) /\ s.ids \subseteq 1 .. used

LEMMA HistoryBorn ==
    ASSUME NEW r, NEW q, AnswerFacts(r, q), r.by # "undo", r.command.kind \in Makers,
           NEW n, n = used + 1, used' = n, lives' = lives \cup {n}
    PROVE  HistoryNow'
<1>1. /\ AnsweredMore(r, q) /\ HistoryNow /\ RecordsTyped /\ used \in Nat /\ lives \subseteq 1 .. used /\ Records' = Records /\ Here' = Here
      /\ \A s \in Answered : s.command \in CommandsTo(used) /\ s.ids \subseteq 1 .. used
  BY DEF AnswerFacts
<1>2. used' \in Nat /\ used <= used' /\ n \notin 1 .. used /\ n \in 1 .. used' /\ \A b \in 1 .. used' : b \in 1 .. used \/ b = n
  BY <1>1
<1>3. q.ids = {n} /\ Made(q) /\ \A b : ~About(q, b)
  <2>1. lives' \ lives = {n}
    BY <1>1, <1>2
  <2>2. QED BY <1>1, <2>1, AboutSame DEF AnsweredMore, About, Makers
<1>4. ASSUME NEW b \in 1 .. used PROVE BoardTold(b)'
  <2>1. b \in lives' <=> b \in lives
    BY <1>2
  <2>2. BoardTold(b)
    BY <1>1 DEF HistoryNow
  <2>3. QED BY <1>1, <2>1, <2>2, AnswerElsewhere
<1>5. \A i : ~Makes(i, n)' /\ ~Deletes(i, n)' /\ ~Makes(i, n)
  <2>1. \A i \in DOMAIN Records : Records[i].board # n
    BY <1>1, <1>2 DEF RecordsTyped, CommandsTo
  <2>2. QED BY <1>1, <2>1 DEF Makes, Deletes
<1>6. \A s \in Answered' : ~About(s, n)
  <2>1. \A s \in Answered : s.command.board # n
    BY <1>1, <1>2 DEF CommandsTo
  <2>2. \A s \in Answered : ~About(s, n)
    BY <2>1 DEF About, Deletion, Unmade, Revived, Redeleted
  <2>3. QED BY <1>1, <1>3, <2>2 DEF AnsweredMore
<1>7. BoardTold(n)'
  <2>1. \A s \in Answered' : ~Deletion(s, n) /\ ~Unmade(s, n) /\ ~Revived(s, n) /\ ~Redeleted(s, n)
    BY <1>6 DEF About
  <2>2. QED BY <1>5, <2>1 DEF BoardTold, Once, Told, DeletionsHold, ReplaysHold
<1>8. MadeHold(q)'
  <2>1. \A s \in Answered' : Made(s) /\ n \in s.ids => s = q
    BY <1>1, <1>2 DEF AnsweredMore
  <2>2. n \in lives'
    OBVIOUS
  <2>3. QED BY <1>2, <1>3, <1>5, <2>1, <2>2 DEF MadeHold
<1>9. ASSUME NEW s \in Answered, Made(s) PROVE MadeHold(s)'
  <2>1. MadeHold(s)
    BY <1>1, <1>9 DEF HistoryNow
  <2>2. \A m \in 1 .. used : m \notin q.ids
    BY <1>2, <1>3
  <2>3. QED BY <1>1, <1>2, <2>1, <2>2, MadeElsewhere
<1>10. Answered' = Answered \cup {q}
  BY <1>1 DEF AnsweredMore
<1>11. QED BY <1>2, <1>4, <1>7, <1>8, <1>9, <1>10 DEF HistoryNow

\* The answers that make no board: what is to show of the one they are about.
LEMMA HistoryAnswers ==
    ASSUME NEW r, NEW q, AnswerFacts(r, q), used' = used, ~(r.by # "undo" /\ r.command.kind \in Makers),
           \A b \in 1 .. used : b # r.command.board => (b \in lives' <=> b \in lives),
           r.command.kind = "link" => lives' = lives,
           r.command.kind # "link" /\ r.command.board \in 1 .. used => BoardTold(r.command.board)',
           \A n \in 1 .. used : n \in lives => \/ n \in lives' \/ Deletion(q, n) \/ (\E i \in DOMAIN Records : Makes(i, n) \/ Deletes(i, n))
    PROVE  HistoryNow'
<1>1. /\ AnsweredMore(r, q) /\ HistoryNow /\ used \in Nat /\ Records' = Records /\ Here' = Here /\ r.command \in CommandsTo(used)
  BY DEF AnswerFacts
<1>2. ASSUME NEW b \in 1 .. used PROVE BoardTold(b)'
  <2>1. BoardTold(b)
    BY <1>1 DEF HistoryNow
  <2>2. CASE r.command.board # b
    BY <1>1, <2>1, <2>2, AnswerElsewhere
  <2>3. CASE r.command.kind = "link"
    BY <1>1, <2>1, <2>3, AnswerElsewhere DEF Makers
  <2>4. CASE r.command.board = b /\ r.command.kind # "link"
    BY <2>4
  <2>5. QED BY <2>2, <2>3, <2>4
<1>3. ~Made(q)
  BY <1>1, AboutSame
<1>4. ASSUME NEW s \in Answered, Made(s) PROVE MadeHold(s)'
  <2>1. MadeHold(s)
    BY <1>1, <1>4 DEF HistoryNow
  <2>2. QED BY <1>1, <1>3, <2>1, MadeElsewhere
<1>5. Answered' = Answered \cup {q}
  BY <1>1 DEF AnsweredMore
<1>6. QED BY <1>2, <1>3, <1>4, <1>5 DEF HistoryNow
\* What is known of the board an answer is about.
LEMMA AnsweredBoard ==
    ASSUME NEW r, NEW q, AnswerFacts(r, q), NEW b \in 1 .. used, r.command.board = b
    PROVE  /\ Once(b) /\ (Settles(b) => Told(b)) /\ DeletionsHold(b) /\ ReplaysHold(b)
           /\ \A i : (Makes(i, b)' <=> Makes(i, b)) /\ (Deletes(i, b)' <=> Deletes(i, b))
           /\ Answered' = Answered \cup {q} /\ q \in Answered' /\ Here' = Here
           /\ Replaying(r) => \A s \in Answered : ~Unmade(s, b) /\ ~Revived(s, b) /\ ~Redeleted(s, b)
           /\ r.by = "undo" => Here \in DOMAIN Records /\ Records[Here] = r.command
           /\ r.by = "redo" => Here < Len(Records) /\ Here + 1 \in DOMAIN Records /\ Records[Here + 1] = r.command
           /\ \A i : Makes(i, b) \/ Deletes(i, b) => i \in DOMAIN Records /\ i \in Nat
<1>1. /\ AnsweredMore(r, q) /\ Linked /\ HistoryNow /\ RecordsTyped /\ Records' = Records /\ Here' = Here
      /\ \A s \in Answered : s.do = "command"
      /\ r \in requests /\ r.do = "command" /\ r \notin Answered /\ Answered' = Answered \cup {q}
  BY DEF AnswerFacts, AnsweredMore
<1>2. Once(b) /\ (Settles(b) => Told(b)) /\ DeletionsHold(b) /\ ReplaysHold(b)
  BY <1>1 DEF HistoryNow, BoardTold
<1>3. \A i : (Makes(i, b)' <=> Makes(i, b)) /\ (Deletes(i, b)' <=> Deletes(i, b))
  BY <1>1 DEF Makes, Deletes
<1>4. Replaying(r) => \A s \in Answered : ~Unmade(s, b) /\ ~Revived(s, b) /\ ~Redeleted(s, b)
  BY <1>1, NoneReplayed, ReplaysAre
<1>5. r.by = "undo" => Here \in DOMAIN Records /\ Records[Here] = r.command
  BY <1>1, UndoneRecord DEF Replaying
<1>6. r.by = "redo" => Here < Len(Records) /\ Here + 1 \in DOMAIN Records /\ Records[Here + 1] = r.command
  BY <1>1, RedoneRecord DEF Replaying
<1>7. \A i : Makes(i, b) \/ Deletes(i, b) => i \in DOMAIN Records /\ i \in Nat
  <2>1. \A i \in DOMAIN Records : i \in Nat
    BY <1>1 DEF RecordsTyped
  <2>2. QED BY <2>1 DEF Makes, Deletes
<1>8. QED BY <1>1, <1>2, <1>3, <1>4, <1>5, <1>6, <1>7

LEMMA OnceKept == ASSUME NEW b, Once(b), \A i : (Makes(i, b)' <=> Makes(i, b)) /\ (Deletes(i, b)' <=> Deletes(i, b)) PROVE Once(b)'
<1>1. \A i : Makes(i, b) \/ Deletes(i, b) => i \in DOMAIN Records
  BY DEF Makes, Deletes
<1>2. QED BY <1>1 DEF Once

LEMMA HistoryBack ==
    ASSUME NEW r, NEW q, AnswerFacts(r, q), used' = used, IsBack(r.command, r.by) PROVE HistoryNow'
<1> DEFINE b == r.command.board
<1>1. r.by = "undo" /\ r.command.kind = "delete" /\ b \notin lives /\ lives' = lives \cup {b} /\ used \in Nat
      /\ r.command \in CommandsTo(used) /\ AnsweredMore(r, q) /\ lives \subseteq 1 .. used
  BY DEF IsBack, AnswerFacts
<1>2. b \in 1 .. used
  BY <1>1 DEF CommandsTo, NoBoard
<1> HIDE DEF b
<1>3. r.command.board = b
  BY DEF b
<1>4. Revived(q, b) /\ ~Deletion(q, b) /\ ~Unmade(q, b) /\ ~Redeleted(q, b)
  BY <1>1, <1>3, AboutSame DEF Makers
<1>5. /\ Once(b) /\ (Settles(b) => Told(b)) /\ DeletionsHold(b) /\ ReplaysHold(b)
      /\ \A i : (Makes(i, b)' <=> Makes(i, b)) /\ (Deletes(i, b)' <=> Deletes(i, b))
      /\ Answered' = Answered \cup {q} /\ q \in Answered' /\ Here' = Here
      /\ Replaying(r) => \A s \in Answered : ~Unmade(s, b) /\ ~Revived(s, b) /\ ~Redeleted(s, b)
      /\ Here \in DOMAIN Records /\ Records[Here] = r.command
  BY <1>1, <1>2, <1>3, AnsweredBoard
<1>6. \A s \in Answered : ~Unmade(s, b) /\ ~Revived(s, b) /\ ~Redeleted(s, b)
  BY <1>1, <1>5 DEF Replaying, AnsweredMore
<1>7. Deletes(Here, b) /\ Here <= Here
  BY <1>1, <1>3, <1>5 DEF Deletes, AnswerFacts, RecordsTyped
<1>8. \A s \in Answered : ~Deletion(s, b)
  BY <1>5, <1>6, <1>7 DEF DeletionsHold
<1>9. BoardTold(b)'
  <2>1. Once(b)'
    BY <1>5, OnceKept
  <2>2. ~Settles(b)'
    BY <1>4, <1>5 DEF Settles
  <2>3. \A s \in Answered' : ~Deletion(s, b) /\ ~Unmade(s, b) /\ ~Redeleted(s, b)
    BY <1>4, <1>5, <1>6, <1>8
  <2>4. b \in lives'
    BY <1>1
  <2>5. DeletionsHold(b)' /\ ReplaysHold(b)'
    BY <2>3, <2>4 DEF DeletionsHold, ReplaysHold
  <2>6. QED BY <2>1, <2>2, <2>5 DEF BoardTold
<1>10. QED BY <1>1, <1>3, <1>9, HistoryAnswers DEF Makers

LEMMA HistorySame ==
    ASSUME NEW r, NEW q, AnswerFacts(r, q), used' = used, lives' = lives, IsSame(r.command, r.by) PROVE HistoryNow'
<1> DEFINE b == r.command.board
<1>1. used \in Nat /\ r.command \in CommandsTo(used) /\ AnsweredMore(r, q) /\ lives \subseteq 1 .. used
      /\ (r.command.kind = "link" \/ (r.by = "undo" /\ r.command.kind = "delete" /\ b \in lives)
          \/ (r.by = "undo" /\ r.command.kind \in Makers /\ b \notin lives))
  BY DEF IsSame, AnswerFacts
<1> HIDE DEF b
<1>3. r.command.board = b
  BY DEF b
<1>4. ASSUME b \in 1 .. used, r.command.kind # "link" PROVE BoardTold(b)'
  <2>1. /\ Once(b) /\ (Settles(b) => Told(b)) /\ DeletionsHold(b) /\ ReplaysHold(b)
        /\ \A i : (Makes(i, b)' <=> Makes(i, b)) /\ (Deletes(i, b)' <=> Deletes(i, b))
        /\ Answered' = Answered \cup {q} /\ q \in Answered' /\ Here' = Here
        /\ Replaying(r) => \A s \in Answered : ~Unmade(s, b) /\ ~Revived(s, b) /\ ~Redeleted(s, b)
    BY <1>3, <1>4, AnsweredBoard
  <2>2. r.by = "undo" /\ Replaying(r)
    BY <1>1, <1>4 DEF Replaying, AnsweredMore
  <2>3. ~Deletion(q, b) /\ ~Redeleted(q, b) /\ (Unmade(q, b) \/ Revived(q, b))
        /\ (Unmade(q, b) => b \notin lives) /\ (Revived(q, b) => b \in lives)
    BY <1>1, <1>3, <1>4, <2>2, AboutSame DEF Makers
  <2>4. Once(b)'
    BY <2>1, OnceKept
  <2>5. ~Settles(b)'
    BY <2>1, <2>3 DEF Settles
  <2>6. \A s \in Answered' : Deletion(s, b) => s \in Answered
    BY <2>1, <2>3
  <2>7. \A i : Deletes(i, b) => i \in DOMAIN Records
    BY DEF Deletes
  <2>8. DeletionsHold(b)'
    BY <2>1, <2>6, <2>7 DEF DeletionsHold
  <2>9. ReplaysHold(b)'
    BY <2>1, <2>2, <2>3 DEF ReplaysHold
  <2>10. QED BY <2>4, <2>5, <2>8, <2>9 DEF BoardTold
<1>5. ~(r.by # "undo" /\ r.command.kind \in Makers)
  BY <1>1 DEF Makers
<1>6. QED BY <1>1, <1>3, <1>4, <1>5, HistoryAnswers

LEMMA HistoryGone ==
    ASSUME NEW r, NEW q, AnswerFacts(r, q), used' = used, IsGone(r.command, r.by) PROVE HistoryNow'
<1> DEFINE b == r.command.board
<1>1. used \in Nat /\ r.command \in CommandsTo(used) /\ AnsweredMore(r, q) /\ lives \subseteq 1 .. used /\ b \in lives /\ lives' = lives \ {b}
      /\ ((r.by # "undo" /\ r.command.kind = "delete") \/ (r.by = "undo" /\ r.command.kind \in Makers))
      /\ r.by \in {"perform", "undo", "redo"} /\ RecordsTyped
  BY DEF IsGone, AnswerFacts
<1>2. b \in 1 .. used
  BY <1>1
<1> HIDE DEF b
<1>3. r.command.board = b
  BY DEF b
<1>4. /\ Once(b) /\ (Settles(b) => Told(b)) /\ DeletionsHold(b) /\ ReplaysHold(b)
      /\ \A i : (Makes(i, b)' <=> Makes(i, b)) /\ (Deletes(i, b)' <=> Deletes(i, b))
      /\ Answered' = Answered \cup {q} /\ q \in Answered' /\ Here' = Here
      /\ Replaying(r) => \A s \in Answered : ~Unmade(s, b) /\ ~Revived(s, b) /\ ~Redeleted(s, b)
      /\ r.by = "undo" => Here \in DOMAIN Records /\ Records[Here] = r.command
      /\ r.by = "redo" => Here < Len(Records) /\ Here + 1 \in DOMAIN Records /\ Records[Here + 1] = r.command
      /\ \A i : Makes(i, b) \/ Deletes(i, b) => i \in DOMAIN Records /\ i \in Nat
  BY <1>2, <1>3, AnsweredBoard
<1>5. \A s \in Answered : ~Deletion(s, b) /\ ~Unmade(s, b) /\ ~Redeleted(s, b)
  BY <1>1, <1>4 DEF DeletionsHold, ReplaysHold
<1>6. b \notin lives' /\ Once(b)'
  BY <1>1, <1>4, OnceKept
<1>7. ASSUME BoardTold(b)', Deletion(q, b) \/ \E i \in DOMAIN Records : Makes(i, b) \/ Deletes(i, b) PROVE HistoryNow'
  <2>1. \A n \in 1 .. used : n # b => (n \in lives' <=> n \in lives)
    BY <1>1
  <2>2. \A n \in 1 .. used : n \in lives => \/ n \in lives' \/ Deletion(q, n) \/ (\E i \in DOMAIN Records : Makes(i, n) \/ Deletes(i, n))
    BY <1>1, <1>7
  <2>3. r.command.kind # "link" /\ ~(r.by # "undo" /\ r.command.kind \in Makers)
    BY <1>1 DEF Makers
  <2>4. QED BY <1>1, <1>3, <1>7, <2>1, <2>2, <2>3, HistoryAnswers
<1>8. CASE r.by = "perform"
  <2>1. Deletion(q, b) /\ ~Unmade(q, b) /\ ~Revived(q, b) /\ ~Redeleted(q, b)
    BY <1>1, <1>3, <1>8, AboutSame
  <2>2. ~Settles(b)'
    BY <1>4, <2>1 DEF Settles
  <2>3. ASSUME NEW i, Deletes(i, b), i <= Here PROVE i = Here /\ \E s \in Answered' : Revived(s, b)
    <3>1. i \in DOMAIN Records
      BY <1>4, <2>3
    <3>2. ~Settles(b)
      BY <1>1, <1>4, <2>3, <3>1 DEF Told
    <3>3. PICK s \in Answered : Revived(s, b)
      BY <1>5, <3>2 DEF Settles
    <3>4. s \in requests /\ Replaying(s) /\ s.by = "undo" /\ s.command.kind = "delete" /\ s.command.board = b
      BY <3>3 DEF Answered, Replaying, Revived
    <3>5. Linked
      BY DEF AnswerFacts
    <3>6. Here \in DOMAIN Records /\ Records[Here] = s.command
      BY <1>1, <3>4, <3>5, UndoneRecord
    <3>7. Deletes(Here, b)
      BY <3>4, <3>6 DEF Deletes
    <3>8. i = Here
      BY <1>4, <2>3, <3>1, <3>6, <3>7 DEF Once
    <3>9. QED BY <1>4, <3>3, <3>8
  <2>4. DeletionsHold(b)'
    <3>1. \A s \in Answered' : Deletion(s, b) => s = q
      BY <1>4, <1>5
    <3>2. QED BY <1>4, <1>6, <2>3, <3>1 DEF DeletionsHold
  <2>5. ReplaysHold(b)'
    BY <1>4, <1>5, <1>6, <2>1 DEF ReplaysHold
  <2>6. BoardTold(b)'
    BY <1>6, <2>2, <2>4, <2>5 DEF BoardTold
  <2>7. QED BY <1>7, <2>1, <2>6
<1>9. CASE r.by \in {"undo", "redo"}
  <2>1. ~Deletion(q, b) /\ ~Revived(q, b) /\ (Unmade(q, b) \/ Redeleted(q, b))
    BY <1>1, <1>3, <1>9, AboutSame DEF Makers
  <2>2. ~Settles(b)'
    BY <1>4, <2>1 DEF Settles
  <2>3. Replaying(r)
    BY <1>1, <1>9 DEF Replaying, AnsweredMore
  <2>4. \A s \in Answered' : ~Deletion(s, b) /\ ~Revived(s, b)
    BY <1>4, <1>5, <2>1, <2>3
  <2>5. DeletionsHold(b)' /\ ReplaysHold(b)'
    BY <1>6, <2>4 DEF DeletionsHold, ReplaysHold
  <2>6. BoardTold(b)'
    BY <1>6, <2>2, <2>5 DEF BoardTold
  <2>7. \E i \in DOMAIN Records : Makes(i, b) \/ Deletes(i, b)
    BY <1>1, <1>3, <1>4, <1>9 DEF Makes, Deletes
  <2>8. QED BY <1>7, <2>6, <2>7
<1>10. QED BY <1>1, <1>8, <1>9
\* An answer that is received: one request less, and the records changed.
ReceiveFacts(r) ==
    /\ Linked /\ HistoryNow /\ RecordsTyped /\ RecordsTyped' /\ used \in Nat /\ used' = used /\ lives' = lives
    /\ r \in requests /\ r \in Answered /\ Answered' = Answered \ {r}
    /\ r.do = "command" /\ r.command \in CommandsTo(used) /\ r.by \in {"perform", "undo", "redo"}
    /\ \A s \in Answered : s.do = "command"
    /\ Finished(r).kind = r.command.kind
    /\ r.command.kind \in Makers => Finished(r).board = First(r.ids)
    /\ r.command.kind \notin Makers => Finished(r) = r.command

LEMMA MadeOne ==
    ASSUME NEW r, ReceiveFacts(r), r.by # "undo", r.command.kind \in Makers
    PROVE  \E n \in 1 .. used :
              /\ r.ids = {n} /\ First(r.ids) = n /\ Finished(r).board = n
              /\ \A s \in Answered : Made(s) /\ n \in s.ids => s = r
              /\ \A i : ~Makes(i, n)
              /\ n \in lives \/ (\E s \in Answered : Deletion(s, n)) \/ \E i : Deletes(i, n)
<1>1. MadeHold(r) /\ used \in Nat /\ Finished(r).board = First(r.ids)
  BY DEF ReceiveFacts, HistoryNow, Made
<1>2. PICK n \in 1 .. used :
        /\ r.ids = {n}
        /\ \A s \in Answered : Made(s) /\ n \in s.ids => s = r
        /\ \A i \in DOMAIN Records : ~Makes(i, n)
        /\ \/ n \in lives \/ \E s \in Answered : Deletion(s, n)
           \/ \E i \in DOMAIN Records : Deletes(i, n)
  BY <1>1 DEF MadeHold
<1>3. First(r.ids) = n
  <2>1. n \in Nat
    BY <1>1
  <2>2. QED BY <1>2, <2>1, FirstOfOne
<1>4. \A i : Makes(i, n) => i \in DOMAIN Records
  BY DEF Makes
<1>5. QED BY <1>1, <1>2, <1>3, <1>4

\* What has just been made, or made again, is recorded once.
LEMMA BoardMade ==
    ASSUME NEW n, NEW k \in Nat, NEW r, r \in Answered, r.command.kind \in Makers, Answered' = Answered \ {r}, lives' = lives,
           Here' = k, k \in DOMAIN Records',
           \A i : (Makes(i, n)' <=> i = k) /\ ~Deletes(i, n)' /\ ~Deletes(i, n),
           n \in lives \/ (\E s \in Answered : Deletion(s, n)),
           \A s \in Answered' : ~Replaying(s) /\ s.do = "command", DeletionsHold(n)
    PROVE  BoardTold(n)'
<1>1. ~Deletion(r, n)
  BY DEF Deletion, Makers
<1>2. Once(n)'
  BY DEF Once
<1>3. Settles(n)' => n \in lives'
  BY <1>1 DEF Settles
<1>4. Settles(n)' => Told(n)'
  BY <1>3 DEF Told
<1>5. DeletionsHold(n)'
  BY DEF DeletionsHold
<1>6. ReplaysHold(n)'
  BY ReplaysAre DEF ReplaysHold
<1>7. QED BY <1>2, <1>4, <1>5, <1>6 DEF BoardTold

\* Other requests than r and other boards than those it is about.
LEMMA AboutOthers == ASSUME NEW r, NEW b, r.command.board # b \/ r.command.kind = "link" PROVE ~About(r, b)
BY DEF About, Deletion, Unmade, Revived, Redeleted, Makers

LEMMA HistoryAppended ==
    ASSUME NEW r, ReceiveFacts(r), r.by = "perform", ~undos.busy, Appended(Finished(r)),
           First(r.ids) = NoBoard \/ \A i \in DOMAIN Records : Records[i].board # First(r.ids)
    PROVE  HistoryNow'
<1> DEFINE f == Finished(r)
<1>0. PICK k : k = Here + 1
  OBVIOUS
<1>1. /\ Linked /\ HistoryNow /\ RecordsTyped /\ RecordsTyped' /\ used \in Nat /\ used' = used /\ lives' = lives
      /\ r \in Answered /\ Answered' = Answered \ {r} /\ \A s \in Answered : s.do = "command"
      /\ r.command \in CommandsTo(used)
      /\ f.kind = r.command.kind /\ (r.command.kind \notin Makers => f = r.command)
  BY DEF ReceiveFacts
<1>2. /\ Here \in Nat /\ Len(Records) \in Nat /\ Here <= Len(Records) /\ k \in Nat
      /\ DOMAIN Records = 1 .. Len(Records) /\ DOMAIN Records' = 1 .. k
      /\ Here' = k /\ Records'[k] = f /\ \A i \in 1 .. Here : Records'[i] = Records[i]
  BY <1>0, <1>1 DEF RecordsTyped, Appended
<1> HIDE DEF f
<1>3. \A i, b : /\ Makes(i, b)' <=> (i \in 1 .. Here /\ Makes(i, b)) \/ (i = k /\ f.kind \in Makers /\ f.board = b)
                /\ Deletes(i, b)' <=> (i \in 1 .. Here /\ Deletes(i, b)) \/ (i = k /\ f.kind = "delete" /\ f.board = b)
  <2>1. \A i : i \in 1 .. k <=> (i \in 1 .. Here \/ i = k)
    BY <1>0, <1>2
  <2>2. \A i \in 1 .. Here : i \in DOMAIN Records /\ i # k
    BY <1>0, <1>2
  <2>3. QED BY <1>2, <2>1, <2>2 DEF Makes, Deletes
<1>4. \A s \in Answered : ~Replaying(s)
  BY <1>1, NoneBusy
<1>5. \A b : \A s \in Answered : ~Unmade(s, b) /\ ~Revived(s, b) /\ ~Redeleted(s, b)
  BY <1>1, <1>4, ReplaysAre
<1>6. \A b \in 1 .. used : Once(b) /\ (Settles(b) => Told(b)) /\ DeletionsHold(b) /\ ReplaysHold(b)
  BY <1>1 DEF HistoryNow, BoardTold
<1>7. \A i, b : Makes(i, b) \/ Deletes(i, b) => i \in DOMAIN Records /\ i \in Nat
  BY <1>2 DEF Makes, Deletes
<1>8. \A i : i \in DOMAIN Records' => i \in 1 .. k /\ i \in Nat /\ i <= k
  BY <1>2
<1>9. \A i \in 1 .. Here : i \in DOMAIN Records /\ i \in DOMAIN Records' /\ i <= Here /\ i <= k /\ i \in Nat /\ i < k
  BY <1>0, <1>2
<1>10. k \in DOMAIN Records'
  BY <1>0, <1>2
<1>11. \A b \in 1 .. used : \A i : Deletes(i, b) /\ i <= Here => \A s \in Answered : ~Deletion(s, b)
  BY <1>5, <1>6, <1>7 DEF DeletionsHold
<1>12. ASSUME NEW b \in 1 .. used, f.board # b \/ f.kind = "link", r.command.kind = "delete" => r.command.board # b
       PROVE  BoardTold(b)'
  <2>1. \A i : (Makes(i, b)' <=> (i \in 1 .. Here /\ Makes(i, b))) /\ (Deletes(i, b)' <=> (i \in 1 .. Here /\ Deletes(i, b)))
    BY <1>3, <1>12 DEF Makers
  <2>2. ~Deletion(r, b)
    BY <1>12 DEF Deletion
  <2>3. Once(b)'
    BY <1>6, <1>7, <2>1 DEF Once
  <2>4. Settles(b)' => Settles(b)
    BY <1>1, <1>5, <2>2 DEF Settles
  <2>5. Told(b) => Told(b)'
    <3>1. ASSUME Told(b), NEW i, Deletes(i, b)' PROVE b \notin lives' /\ i <= k
      BY <1>1, <1>9, <2>1, <3>1 DEF Told
    <3>2. ASSUME Told(b), NEW i, Makes(i, b)' PROVE i <= k /\ (b \in lives' \/ \E j \in DOMAIN Records' : Deletes(j, b)' /\ j <= k)
      <4>1. i \in DOMAIN Records /\ i <= Here /\ Makes(i, b) /\ i <= k
        BY <1>9, <2>1, <3>2
      <4>2. b \in lives \/ \E j \in DOMAIN Records : Deletes(j, b) /\ j <= Here
        BY <3>2, <4>1 DEF Told
      <4>3. \A j \in DOMAIN Records : j <= Here => j \in 1 .. Here
        BY <1>2
      <4>4. QED BY <1>1, <1>9, <2>1, <4>1, <4>2, <4>3
    <3>3. \A i \in DOMAIN Records' : ~(k < i)
      BY <1>2, <1>8
    <3>4. QED BY <1>2, <3>1, <3>2, <3>3 DEF Told
  <2>6. DeletionsHold(b)'
    <3>1. \A i : Deletes(i, b)' => Deletes(i, b) /\ i <= Here
      BY <1>9, <2>1
    <3>2. \A s \in Answered' : Deletion(s, b) => b \notin lives' /\ \A t \in Answered' : Deletion(t, b) => t = s
      BY <1>1, <1>6 DEF DeletionsHold
    <3>3. \A s \in Answered' : Deletion(s, b) => \A i : ~Deletes(i, b)'
      BY <1>1, <1>11, <3>1
    <3>4. QED BY <3>2, <3>3 DEF DeletionsHold
  <2>7. ReplaysHold(b)'
    BY <1>1, <1>5 DEF ReplaysHold
  <2>8. QED BY <1>6, <2>3, <2>4, <2>5, <2>6, <2>7 DEF BoardTold
<1>13. ASSUME r.command.kind = "delete", NEW b \in 1 .. used, r.command.board = b PROVE BoardTold(b)'
  <2>1. f = r.command /\ f.kind = "delete" /\ f.board = b
    BY <1>1, <1>13 DEF Makers
  <2>2. Deletion(r, b)
    BY <1>13 DEF Deletion
  <2>3. b \notin lives /\ (\A s \in Answered : Deletion(s, b) => s = r) /\ \A i : ~(Deletes(i, b) /\ i <= Here)
    BY <1>1, <1>6, <1>11, <2>2 DEF DeletionsHold
  <2>4. \A i : (Makes(i, b)' <=> (i \in 1 .. Here /\ Makes(i, b))) /\ (Deletes(i, b)' <=> i = k)
    BY <1>3, <1>9, <2>1, <2>3 DEF Makers
  <2>5. Once(b)'
    BY <1>6, <1>9, <2>4 DEF Once
  <2>6. Told(b)'
    <3>1. \A i \in DOMAIN Records' : ~(k < i)
      BY <1>2, <1>8
    <3>2. k <= k
      BY <1>2
    <3>3. QED BY <1>1, <1>2, <1>10, <2>3, <2>4, <3>1, <3>2 DEF Told
  <2>7. \A s \in Answered' : ~Deletion(s, b)
    BY <1>1, <2>3
  <2>8. DeletionsHold(b)' /\ ReplaysHold(b)'
    BY <1>1, <1>5, <2>7 DEF DeletionsHold, ReplaysHold
  <2>9. QED BY <2>5, <2>6, <2>8 DEF BoardTold
<1>14. ASSUME r.command.kind \in Makers PROVE \A b \in 1 .. used : BoardTold(b)'
  <2>1. PICK n \in 1 .. used :
          /\ r.ids = {n} /\ First(r.ids) = n /\ f.board = n
          /\ \A s \in Answered : Made(s) /\ n \in s.ids => s = r
          /\ \A i : ~Makes(i, n)
          /\ n \in lives \/ (\E s \in Answered : Deletion(s, n)) \/ \E i : Deletes(i, n)
    BY <1>14, MadeOne DEF f
  <2>2. n # NoBoard
    BY <1>1, <2>1 DEF NoBoard
  <2>3. \A i : ~Makes(i, n) /\ ~Deletes(i, n)
    BY <2>1, <2>2 DEF Makes, Deletes
  <2>4. \A i : (Makes(i, n)' <=> i = k) /\ ~Deletes(i, n)'
    BY <1>1, <1>3, <1>14, <2>1, <2>3 DEF Makers
  <2>5. BoardTold(n)'
    BY <1>1, <1>2, <1>4, <1>6, <1>10, <1>14, <2>1, <2>3, <2>4, BoardMade
  <2>6. QED BY <1>12, <1>14, <2>1, <2>5 DEF Makers
<1>15. ASSUME NEW s \in Answered', Made(s) PROVE MadeHold(s)'
  <2>1. s \in Answered /\ s # r /\ MadeHold(s)
    BY <1>1, <1>15 DEF HistoryNow
  <2>2. PICK m \in 1 .. used :
          /\ s.ids = {m}
          /\ \A t \in Answered : Made(t) /\ m \in t.ids => t = s
          /\ \A i \in DOMAIN Records : ~Makes(i, m)
          /\ \/ m \in lives \/ \E t \in Answered : Deletion(t, m)
             \/ \E i \in DOMAIN Records : Deletes(i, m)
    BY <2>1 DEF MadeHold
  <2>3. ~(f.kind \in Makers /\ f.board = m)
    <3>1. ASSUME f.kind \in Makers, f.board = m PROVE FALSE
      <4>1. r.by # "undo" /\ r.command.kind \in Makers
        BY <1>1, <3>1
      <4>2. m \in r.ids /\ Made(r)
        BY <3>1, <4>1, MadeOne DEF f, Made
      <4>3. QED BY <1>1, <2>1, <2>2, <4>2
    <3>2. QED BY <3>1
  <2>4. \A i \in DOMAIN Records' : ~Makes(i, m)'
    BY <1>3, <1>9, <2>2, <2>3
  <2> DEFINE StillThere == \/ m \in lives' \/ (\E t \in Answered' : Deletion(t, m)) \/ \E i \in DOMAIN Records' : Deletes(i, m)'
  <2>5. ASSUME m \in lives PROVE StillThere
    BY <1>1, <2>5
  <2>6. ASSUME NEW t \in Answered, Deletion(t, m) PROVE StillThere
    <3>1. CASE t # r
      BY <1>1, <2>6, <3>1
    <3>2. CASE t = r
      <4>1. f.kind = "delete" /\ f.board = m
        BY <1>1, <2>6, <3>2 DEF Deletion, Makers
      <4>2. Deletes(k, m)'
        BY <1>3, <4>1
      <4>3. QED BY <1>10, <4>2
    <3>3. QED BY <3>1, <3>2
  <2>7. ASSUME NEW i \in DOMAIN Records, Deletes(i, m) PROVE StillThere
    <3>1. CASE i \in 1 .. Here
      BY <1>3, <1>9, <2>7, <3>1
    <3>2. CASE Here < i /\ Settles(m)
      <4>1. m \in lives \/ \E j \in DOMAIN Records : Makes(j, m) /\ Here < j
        BY <1>6, <2>7, <3>2 DEF Told
      <4>2. QED BY <2>2, <2>5, <4>1
    <3>3. CASE ~Settles(m)
      <4>1. PICK t \in Answered : Deletion(t, m)
        BY <1>5, <3>3 DEF Settles
      <4>2. QED BY <2>6, <4>1
    <3>4. i \in 1 .. Here \/ Here < i
      BY <1>2
    <3>5. QED BY <3>1, <3>2, <3>3, <3>4
  <2>8. StillThere
    BY <2>2, <2>5, <2>6, <2>7
  <2>9. QED BY <1>1, <2>1, <2>2, <2>4, <2>8 DEF MadeHold
<1>16. r.command.kind \in {"create", "copy", "delete", "link"}
  BY <1>1 DEF CommandsTo
<1>17. \A b \in 1 .. used : BoardTold(b)'
  <2>1. CASE r.command.kind \in Makers
    BY <1>14, <2>1
  <2>2. CASE r.command.kind = "delete"
    <3>1. f = r.command
      BY <1>1, <2>2 DEF Makers
    <3>2. QED BY <1>12, <1>13, <2>2, <3>1
  <2>3. CASE r.command.kind = "link"
    BY <1>1, <1>12, <2>3
  <2>4. QED BY <1>16, <2>1, <2>2, <2>3 DEF Makers
<1>18. QED BY <1>1, <1>15, <1>17 DEF HistoryNow

\* What was made stays so while the records change for other boards.
LEMMA MadeKept ==
    ASSUME NEW r, ReceiveFacts(r), NEW s \in Answered', Made(s), \A b : ~Deletion(r, b),
           \A i : \A m \in 1 .. used : s.ids = {m} => (Makes(i, m)' => Makes(i, m)) /\ (Deletes(i, m) => Deletes(i, m)')
    PROVE  MadeHold(s)'
<1>1. /\ HistoryNow /\ used' = used /\ lives' = lives /\ Answered' = Answered \ {r}
  BY DEF ReceiveFacts
<1>2. s \in Answered /\ MadeHold(s)
  BY <1>1 DEF HistoryNow
<1>3. PICK m \in 1 .. used :
        /\ s.ids = {m}
        /\ \A t \in Answered : Made(t) /\ m \in t.ids => t = s
        /\ \A i \in DOMAIN Records : ~Makes(i, m)
        /\ \/ m \in lives \/ \E t \in Answered : Deletion(t, m)
           \/ \E i \in DOMAIN Records : Deletes(i, m)
  BY <1>2 DEF MadeHold
<1>4. /\ \A i : Makes(i, m) => i \in DOMAIN Records
      /\ \A i : Deletes(i, m)' => i \in DOMAIN Records'
  BY DEF Makes, Deletes
<1>5. \A i : ~Makes(i, m)'
  BY <1>3, <1>4
<1>6. \/ m \in lives' \/ (\E t \in Answered' : Deletion(t, m)) \/ \E i \in DOMAIN Records' : Deletes(i, m)'
  BY <1>1, <1>3, <1>4
<1>7. QED BY <1>1, <1>3, <1>5, <1>6 DEF MadeHold

\* A board the replay that is received is not about.
LEMMA ReceiveElsewhere ==
    ASSUME NEW r, ReceiveFacts(r), Replaying(r), NEW b \in 1 .. used, r.command.board # b \/ r.command.kind = "link",
           \A i : (Makes(i, b)' <=> Makes(i, b)) /\ (Deletes(i, b)' <=> Deletes(i, b)),
           \A i : Makes(i, b) \/ Deletes(i, b) => (i <= Here' <=> i <= Here) /\ (Here' < i <=> Here < i)
    PROVE  BoardTold(b)'
<1>1. Linked /\ HistoryNow /\ lives' = lives /\ Answered' = Answered \ {r} /\ r \in Answered /\ \A s \in Answered : s.do = "command"
  BY DEF ReceiveFacts
<1>2. BoardTold(b)
  BY <1>1 DEF HistoryNow
<1>3. ~About(r, b)
  BY AboutOthers
<1>4. \A s \in Answered : ~Revived(s, b)
  BY <1>1, <1>3, OneReplayed, ReplaysAre DEF About
<1>5. \A s \in Answered \cup Answered' : About(s, b) => (s \in Answered' <=> s \in Answered)
  BY <1>1, <1>3
<1>6. QED BY <1>1, <1>2, <1>4, <1>5, Unconcerned

LEMMA HistoryBacked == ASSUME NEW r, ReceiveFacts(r), r.by = "undo", SteppedBack PROVE HistoryNow'
<1> DEFINE c == r.command
<1>1. /\ Linked /\ HistoryNow /\ RecordsTyped /\ used \in Nat /\ used' = used /\ lives' = lives
      /\ r \in requests /\ r \in Answered /\ Answered' = Answered \ {r} /\ r.do = "command" /\ c \in CommandsTo(used)
      /\ \A s \in Answered : s.do = "command"
  BY DEF ReceiveFacts
<1>2. Replaying(r) /\ (\A b : ~Deletion(r, b))
  BY <1>1 DEF Replaying, Deletion
<1>3. Here \in DOMAIN Records /\ Records[Here] = c
  BY <1>1, <1>2, UndoneRecord
<1>4. /\ Here \in Nat /\ Here > 0 /\ Here' = Here - 1 /\ Records' = Records
      /\ \A i \in DOMAIN Records : i \in Nat
  BY <1>1 DEF RecordsTyped, SteppedBack
<1> HIDE DEF c
<1>5. PICK x : x = Here /\ x \in Nat /\ Here' = x - 1
  BY <1>4
<1>6. \A i, b : /\ (Makes(i, b)' <=> Makes(i, b)) /\ (Deletes(i, b)' <=> Deletes(i, b))
                /\ Makes(i, b) \/ Deletes(i, b) => i \in DOMAIN Records /\ i \in Nat
  BY <1>4 DEF Makes, Deletes
<1>7. \A i \in Nat : (i # x => (i <= x - 1 <=> i <= x) /\ (x - 1 < i <=> x < i)) /\ x - 1 < x /\ ~(x <= x - 1) /\ (i < x => i <= x - 1 /\ ~(x - 1 < i)) /\ (x < i => x - 1 < i)
  BY <1>5
<1>8. ASSUME NEW b \in 1 .. used, c.board # b \/ c.kind = "link" PROVE BoardTold(b)'
  <2>1. \A i : Makes(i, b) \/ Deletes(i, b) => i # x
    BY <1>3, <1>5, <1>8 DEF Makes, Deletes, Makers
  <2>2. \A i : Makes(i, b) \/ Deletes(i, b) => (i <= Here' <=> i <= Here) /\ (Here' < i <=> Here < i)
    BY <1>5, <1>6, <1>7, <2>1
  <2>3. QED BY <1>2, <1>6, <1>8, <2>2, ReceiveElsewhere DEF c
<1>9. ASSUME NEW b \in 1 .. used, c.board = b, c.kind # "link" PROVE BoardTold(b)'
  <2>1. Once(b) /\ (Settles(b) => Told(b)) /\ DeletionsHold(b) /\ ReplaysHold(b)
    BY <1>1 DEF HistoryNow, BoardTold
  <2>2. Once(b)'
    BY <1>6, <2>1, OnceKept
  <2>3. c.kind \in Makers \cup {"delete"}
    BY <1>1, <1>9 DEF CommandsTo, Makers
  <2>4. \A s \in Answered' : ~Unmade(s, b) /\ ~Revived(s, b) /\ ~Redeleted(s, b)
    BY <1>1, <1>2, OneReplayed, ReplaysAre
  <2>5. ReplaysHold(b)'
    BY <2>4 DEF ReplaysHold
  <2>6. Settles(b)' => \A s \in Answered : ~Deletion(s, b)
    BY <1>1, <1>2 DEF Settles
  <2>7. \A i : Deletes(i, b) => x <= i
    <3>1. CASE c.kind = "delete"
      <4>1. Deletes(x, b)
        BY <1>3, <1>5, <1>9, <3>1 DEF Deletes
      <4>2. QED BY <1>5, <1>6, <2>1, <4>1 DEF Once
    <3>2. CASE c.kind \in Makers
      <4>1. Makes(x, b)
        BY <1>3, <1>5, <1>9, <3>2 DEF Makes
      <4>2. QED BY <1>5, <1>6, <2>1, <4>1 DEF Once
    <3>3. QED BY <2>3, <3>1, <3>2
  <2>8. DeletionsHold(b)'
    <3>1. \A i : ~(Deletes(i, b)' /\ i <= Here')
      BY <1>5, <1>6, <2>7
    <3>2. \A s \in Answered' : Deletion(s, b) => b \notin lives' /\ \A t \in Answered' : Deletion(t, b) => t = s
      BY <1>1, <2>1 DEF DeletionsHold
    <3>3. QED BY <3>1, <3>2 DEF DeletionsHold
  <2>9. ASSUME Settles(b)' PROVE Told(b)'
    <3>1. CASE c.kind = "delete"
      <4>1. Deletes(x, b) /\ Revived(r, b)
        BY <1>3, <1>5, <1>9, <3>1 DEF Deletes, Revived, c
      <4>2. b \in lives'
        BY <1>1, <2>1, <2>6, <2>9, <4>1 DEF ReplaysHold
      <4>3. \A i : Makes(i, b) => i < x
        BY <1>6, <2>1, <1>3, <1>5, <4>1 DEF Once
      <4>4. \A i : Deletes(i, b) => i = x
        BY <1>6, <2>1, <1>3, <1>5, <4>1 DEF Once
      <4>5. \A i : Makes(i, b)' => i <= Here' /\ ~(Here' < i)
        BY <1>5, <1>6, <1>7, <4>3
      <4>6. \A i : Deletes(i, b)' => ~(i <= Here')
        BY <1>5, <1>6, <1>7, <4>4
      <4>7. QED BY <4>2, <4>5, <4>6 DEF Told
    <3>2. CASE c.kind \in Makers
      <4>1. Makes(x, b) /\ Unmade(r, b)
        BY <1>3, <1>5, <1>9, <3>2, <1>1 DEF Makes, Unmade, c
      <4>2. b \notin lives'
        BY <1>1, <2>1, <4>1 DEF ReplaysHold
      <4>3. \A i : Makes(i, b) => i = x
        BY <1>6, <2>1, <1>3, <1>5, <4>1 DEF Once
      <4>4. \A i : Makes(i, b)' => ~(i <= Here')
        BY <1>5, <1>6, <1>7, <4>3
      <4>5. x \in DOMAIN Records' /\ Makes(x, b)' /\ Here' < x
        BY <1>3, <1>4, <1>5, <1>6, <4>1
      <4>6. QED BY <4>2, <4>4, <4>5 DEF Told
    <3>3. QED BY <2>3, <3>1, <3>2
  <2>10. QED BY <2>2, <2>5, <2>8, <2>9 DEF BoardTold
<1>10. \A s \in Answered' : Made(s) => MadeHold(s)'
  BY <1>2, <1>6, MadeKept
<1>11. QED BY <1>1, <1>8, <1>9, <1>10 DEF HistoryNow

LEMMA HistoryStepped ==
    ASSUME NEW r, ReceiveFacts(r), r.by = "redo", SteppedOn(Finished(r)),
           First(r.ids) = NoBoard \/ \A i \in DOMAIN Records : Records[i].board # First(r.ids),
           r.command.kind \in Makers => ~NamedLater(r.command.board)
    PROVE  HistoryNow'
<1> DEFINE c == r.command
           f == Finished(r)
<1>1. /\ Linked /\ HistoryNow /\ RecordsTyped /\ RecordsTyped' /\ used \in Nat /\ used' = used /\ lives' = lives
      /\ r \in requests /\ r \in Answered /\ Answered' = Answered \ {r} /\ r.do = "command" /\ c \in CommandsTo(used)
      /\ f.kind = c.kind /\ (c.kind \notin Makers => f = c)
      /\ \A s \in Answered : s.do = "command"
  BY DEF ReceiveFacts
<1>2. Replaying(r) /\ (\A b : ~Deletion(r, b))
  BY <1>1 DEF Replaying, Deletion
<1>0. PICK k : k = Here + 1
  OBVIOUS
<1>3. k \in DOMAIN Records /\ Records[k] = c
  BY <1>0, <1>1, <1>2, RedoneRecord
<1>4. /\ Here \in Nat /\ k \in Nat /\ Here' = k /\ DOMAIN Records' = DOMAIN Records /\ Records'[k] = f
      /\ (\A i \in DOMAIN Records : i \in Nat /\ (i # k => Records'[i] = Records[i]))
  BY <1>0, <1>1 DEF RecordsTyped, SteppedOn
<1> HIDE DEF c, f
<1>5. \A i, b : /\ i # k => (Makes(i, b)' <=> Makes(i, b)) /\ (Deletes(i, b)' <=> Deletes(i, b))
                /\ Makes(k, b)' <=> f.kind \in Makers /\ f.board = b
                /\ Deletes(k, b)' <=> f.kind = "delete" /\ f.board = b
                /\ Makes(k, b) <=> c.kind \in Makers /\ c.board = b
                /\ Deletes(k, b) <=> c.kind = "delete" /\ c.board = b
                /\ Makes(i, b) \/ Deletes(i, b) => i \in DOMAIN Records /\ i \in Nat
  BY <1>3, <1>4 DEF Makes, Deletes
<1>6. \A i \in Nat : i # k => (i <= k <=> i <= Here) /\ (k < i <=> Here < i)
  BY <1>0, <1>4
<1>7. ASSUME NEW b \in 1 .. used, c.board # b \/ c.kind = "link", f.board # b \/ f.kind = "link" PROVE BoardTold(b)'
  <2>1. ~Makes(k, b) /\ ~Deletes(k, b) /\ ~Makes(k, b)' /\ ~Deletes(k, b)'
    BY <1>5, <1>7 DEF Makers
  <2>2. \A i : (Makes(i, b)' <=> Makes(i, b)) /\ (Deletes(i, b)' <=> Deletes(i, b))
    BY <1>5, <2>1
  <2>3. \A i : Makes(i, b) \/ Deletes(i, b) => (i <= Here' <=> i <= Here) /\ (Here' < i <=> Here < i)
    BY <1>4, <1>5, <1>6, <2>1
  <2>4. QED BY <1>2, <1>7, <2>2, <2>3, ReceiveElsewhere DEF c
<1>8. \A b \in 1 .. used : Once(b) /\ (Settles(b) => Told(b)) /\ DeletionsHold(b) /\ ReplaysHold(b)
  BY <1>1 DEF HistoryNow, BoardTold
<1>9. \A s \in Answered' : ~Replaying(s) /\ s.do = "command"
  BY <1>1, <1>2, OneReplayed
<1>10. ASSUME c.kind = "delete", NEW b \in 1 .. used, c.board = b PROVE BoardTold(b)'
  <2>1. \A i : (Makes(i, b)' <=> Makes(i, b)) /\ (Deletes(i, b)' <=> Deletes(i, b))
    BY <1>1, <1>5, <1>10 DEF Makers
  <2>2. Deletes(k, b) /\ Redeleted(r, b)
    BY <1>5, <1>10 DEF Redeleted, c
  <2>3. b \notin lives' /\ \A s \in Answered : ~Deletion(s, b)
    BY <1>1, <1>8, <2>2 DEF ReplaysHold
  <2>4. \A i : Makes(i, b) => i < k
    BY <1>3, <1>5, <1>8, <2>2 DEF Once
  <2>5. \A i : Deletes(i, b) => i = k
    BY <1>3, <1>5, <1>8, <2>2 DEF Once
  <2>6. Once(b)'
    BY <1>8, <2>1, OnceKept
  <2>7. k <= k /\ ~(k < k) /\ \A i \in Nat : i < k => ~(k < i)
    BY <1>4
  <2>8. Told(b)'
    <3>1. k \in DOMAIN Records' /\ Deletes(k, b)' /\ k <= Here'
      BY <1>3, <1>4, <2>1, <2>2, <2>7
    <3>2. \A i : Makes(i, b)' => ~(Here' < i)
      BY <1>4, <1>5, <2>1, <2>4, <2>7
    <3>3. \A i : Deletes(i, b)' => ~(Here' < i)
      BY <1>4, <2>1, <2>5, <2>7
    <3>4. QED BY <2>3, <3>1, <3>2, <3>3 DEF Told
  <2>9. \A s \in Answered' : ~Deletion(s, b) /\ ~Unmade(s, b) /\ ~Revived(s, b) /\ ~Redeleted(s, b)
    BY <1>1, <1>9, <2>3, ReplaysAre
  <2>10. DeletionsHold(b)' /\ ReplaysHold(b)'
    BY <2>9 DEF DeletionsHold, ReplaysHold
  <2>11. QED BY <2>6, <2>8, <2>10 DEF BoardTold
<1>11. ASSUME c.kind \in Makers PROVE HistoryNow'
  <2>1. PICK n \in 1 .. used :
          /\ r.ids = {n} /\ First(r.ids) = n /\ f.board = n
          /\ \A s \in Answered : Made(s) /\ n \in s.ids => s = r
          /\ \A i : ~Makes(i, n)
          /\ n \in lives \/ (\E s \in Answered : Deletion(s, n)) \/ \E i : Deletes(i, n)
    BY <1>11, MadeOne DEF f, c
  <2>2. n # NoBoard
    BY <1>1, <2>1 DEF NoBoard
  <2>3. \A i : ~Makes(i, n) /\ ~Deletes(i, n)
    BY <2>1, <2>2 DEF Makes, Deletes
  <2>4. \A i : (Makes(i, n)' <=> i = k) /\ ~Deletes(i, n)'
    BY <1>1, <1>5, <1>11, <2>1, <2>3 DEF Makers
  <2>5. BoardTold(n)'
    <3>1. r \in Answered /\ Answered' = Answered \ {r} /\ lives' = lives /\ Here' = k /\ k \in Nat /\ DeletionsHold(n)
          /\ r.command.kind \in Makers /\ k \in DOMAIN Records'
      BY <1>1, <1>3, <1>4, <1>8, <1>11 DEF c
    <3>2. n \in lives \/ (\E s \in Answered : Deletion(s, n))
      BY <2>1, <2>3
    <3>3. QED BY <1>9, <2>3, <2>4, <3>1, <3>2, BoardMade
  <2>6. ASSUME c.board \in 1 .. used PROVE BoardTold(c.board)'
    <3>0. PICK b \in 1 .. used : b = c.board
      BY <2>6
    <3>1. Makes(k, b) /\ b # n
      BY <1>5, <1>11, <2>3, <3>0
    <3>2. \A i : Makes(i, b) => i = k
      BY <1>3, <1>5, <1>8, <3>1 DEF Once
    <3>3. \A i : ~Deletes(i, b)
      <4>1. ASSUME NEW i, Deletes(i, b) PROVE FALSE
        <5>1. i \in DOMAIN Records /\ k < i
          BY <1>3, <1>5, <1>8, <3>1, <4>1 DEF Once
        <5>2. undos.commands[i].kind = "delete" /\ undos.commands[i].board = c.board
          BY <3>0, <4>1 DEF Deletes, Records
        <5>3. i \in (undos.index + 2) .. Len(undos.commands)
          BY <1>0, <1>1, <1>4, <5>1 DEF RecordsTyped, Records, Here
        <5>4. QED BY <1>11, <5>2, <5>3 DEF NamedLater, c
      <4>2. QED BY <4>1
    <3>4. \A i : ~Makes(i, b)' /\ ~Deletes(i, b)'
      BY <1>1, <1>5, <1>11, <2>1, <3>1, <3>2, <3>3 DEF Makers
    <3>5. \A s \in Answered' : ~Unmade(s, b) /\ ~Revived(s, b) /\ ~Redeleted(s, b)
      BY <1>9, ReplaysAre
    <3>6. DeletionsHold(b)
      BY <1>8
    <3>7. BoardTold(b)'
      BY <1>1, <3>4, <3>5, <3>6 DEF BoardTold, Once, Told, DeletionsHold, ReplaysHold
    <3>8. QED BY <3>0, <3>7
  <2>7. \A b \in 1 .. used : BoardTold(b)'
    BY <1>7, <2>1, <2>5, <2>6
  <2>8. ASSUME NEW s \in Answered', Made(s) PROVE MadeHold(s)'
    <3>1. \A m \in 1 .. used : s.ids = {m} => m # n
      BY <1>1, <2>1, <2>8
    <3>2. \A m \in 1 .. used : s.ids = {m} => ~Makes(k, m)'
      BY <1>5, <2>1, <3>1
    <3>3. \A i, m : Deletes(i, m) => Deletes(i, m)'
      BY <1>1, <1>5, <1>11 DEF Makers
    <3>4. \A i : \A m \in 1 .. used : s.ids = {m} => (Makes(i, m)' => Makes(i, m)) /\ (Deletes(i, m) => Deletes(i, m)')
      BY <1>5, <3>2, <3>3
    <3>5. QED BY <1>2, <2>8, <3>4, MadeKept
  <2>9. QED BY <1>1, <2>7, <2>8 DEF HistoryNow
<1>12. ASSUME c.kind \notin Makers PROVE HistoryNow'
  <2>1. f = c /\ c.kind \in {"delete", "link"}
    BY <1>1, <1>12 DEF CommandsTo, Makers
  <2>2. \A i, b : (Makes(i, b)' <=> Makes(i, b)) /\ (Deletes(i, b)' <=> Deletes(i, b))
    BY <1>5, <2>1
  <2>3. \A b \in 1 .. used : BoardTold(b)'
    BY <1>7, <1>10, <2>1
  <2>4. \A s \in Answered' : Made(s) => MadeHold(s)'
    BY <1>2, <2>2, MadeKept
  <2>5. QED BY <1>1, <2>3, <2>4 DEF HistoryNow
<1>13. QED BY <1>11, <1>12
-----------------------------------------------------------------------------
(* The invariant, and what follows from it.                                *)

LEMMA CalmBefore ==
    ASSUME Calm', meddled' = meddled, faults \subseteq faults' PROVE Calm
BY DEF Calm

LEMMA LinkedAnswer == ASSUME LifeTyped, Linked, NEW r \in requests, Answer(r) PROVE Linked'
<1>1. requests \subseteq RequestsTo(used) /\ undos' = undos
  BY DEF LifeTyped, Answer
<1>2. PICK q : requests' = (requests \ {r}) \cup {q} /\ q.do = r.do /\ q.by = r.by /\ (r.do = "command" => q.command = r.command)
  <2>1. PICK a, ids : requests' = (requests \ {r}) \cup {[r EXCEPT !.answer = a, !.ids = ids]}
    BY DEF Answer
  <2>2. [r EXCEPT !.answer = a, !.ids = ids].do = r.do /\ [r EXCEPT !.answer = a, !.ids = ids].by = r.by
        /\ [r EXCEPT !.answer = a, !.ids = ids].command = r.command
    BY <1>1 DEF RequestsTo
  <2>3. QED BY <2>1, <2>2
<1>3. Replaying(q) <=> Replaying(r)
  BY <1>2 DEF Replaying
<1>4. CASE Replaying(r)
  <2>1. \A s \in requests : Replaying(s) => s = r
    BY <1>4 DEF Linked
  <2>2. \A s \in requests' : Replaying(s) => s = q
    BY <1>2, <2>1
  <2>3. /\ undos.busy
        /\ q.by = "undo" => Here > 0 /\ q.command = Records[Here]
        /\ q.by = "redo" => Here < Len(Records) /\ q.command = Records[Here + 1]
    BY <1>2, <1>4 DEF Linked, Replaying
  <2>4. Records' = Records /\ Here' = Here
    BY <1>1 DEF Records, Here
  <2>5. QED BY <1>1, <2>2, <2>3, <2>4 DEF Linked
<1>5. CASE ~Replaying(r)
  <2>1. \A s \in requests' : Replaying(s) => s \in requests
    BY <1>2, <1>3, <1>5
  <2>2. QED BY <1>1, <2>1, LinkedKept DEF Keeps
<1>6. QED BY <1>4, <1>5

LEMMA AnsweredTyped ==
    ASSUME LifeTyped
    PROVE  \A s \in Answered : s \in requests /\ s.do = "command" /\ s.command \in CommandsTo(used) /\ s.ids \subseteq 1 .. used
<1>1. requests \subseteq RequestsTo(used) /\ used \in Nat
  BY DEF LifeTyped, ServerTyped
<1>2. QED BY <1>1, CommandIs, RequestIs DEF Answered

LEMMA HistoryAnswer == ASSUME LifeTyped, Linked, HistoryHolds, NEW r \in requests, Answer(r) PROVE HistoryHolds'
<1>1. /\ ServerTyped /\ UndosTyped /\ used \in Nat /\ requests \subseteq RequestsTo(used) /\ lives \subseteq 1 .. used /\ RecordsTyped
  BY RecordsAre DEF LifeTyped, ServerTyped
<1>2. ObeyedAnswer(r) \/ RefusedAnswer(r) \/ LoadAnswer(r)
  BY <1>1, AnswersAre
<1>3. UNCHANGED <<undos, meddled>> /\ r.answer = "none" /\ Records' = Records /\ Here' = Here
  BY DEF Answer, Records, Here
<1>4. CASE RefusedAnswer(r)
  <2>1. ~Calm'
    BY <1>4 DEF RefusedAnswer, Calm
  <2>2. QED BY <2>1 DEF HistoryHolds
<1>5. CASE LoadAnswer(r)
  <2>1. UNCHANGED <<lives, used>> /\ faults' = faults
    BY <1>5 DEF LoadAnswer, NoChange, serverBoards
  <2>2. PICK q : requests' = (requests \ {r}) \cup {q} /\ q.do # "command" /\ r.do # "command"
    <3> DEFINE q == [r EXCEPT !.answer = IF Found(r.board) THEN "ok" ELSE "refused", !.ids = lives]
    <3>1. requests' = (requests \ {r}) \cup {q} /\ r.do # "command"
      BY <1>5 DEF LoadAnswer
    <3>2. q.do = r.do
      BY <1>1 DEF RequestsTo
    <3>3. QED BY <3>1, <3>2
  <2>3. Answered' = Answered
    BY <2>2 DEF Answered
  <2>4. Calm' => Calm
    BY <1>3, <2>1, CalmBefore
  <2>5. QED BY <1>3, <2>1, <2>3, <2>4, HistoryQuiet
<1>6. CASE ObeyedAnswer(r) /\ Calm'
  <2>1. /\ r.do = "command" /\ (IsBorn(r.command, r.by) \/ IsBack(r.command, r.by) \/ IsGone(r.command, r.by) \/ IsSame(r.command, r.by))
        /\ requests' = (requests \ {r}) \cup {[r EXCEPT !.answer = "ok", !.ids = lives' \ lives]} /\ faults \subseteq faults'
    BY <1>6 DEF ObeyedAnswer
  <2>2. PICK q : requests' = (requests \ {r}) \cup {q} /\ q.do = r.do /\ q.by = r.by /\ q.command = r.command
                 /\ q.answer = "ok" /\ q.ids = lives' \ lives
    <3> DEFINE q == [r EXCEPT !.answer = "ok", !.ids = lives' \ lives]
    <3>1. q.do = r.do /\ q.by = r.by /\ q.command = r.command /\ q.answer = "ok" /\ q.ids = lives' \ lives
      BY <1>1 DEF RequestsTo
    <3>2. QED BY <2>1, <3>1
  <2>3. HistoryNow
    BY <1>3, <1>6, <2>1, CalmBefore DEF HistoryHolds, HistoryNow
  <2>4. AnsweredMore(r, q)
    BY <1>3, <2>1, <2>2 DEF AnsweredMore, Answered
  <2>5. r.command \in CommandsTo(used) /\ r.by \in {"perform", "undo", "redo"}
    BY <1>1, <2>1, CommandIs
  <2>6. AnswerFacts(r, q)
    BY <1>1, <1>3, <2>3, <2>4, <2>5, AnsweredTyped DEF AnswerFacts
  <2>7. HistoryNow'
    <3>1. CASE IsBorn(r.command, r.by)
      <4>1. r.by # "undo" /\ r.command.kind \in Makers /\ used' = used + 1 /\ lives' = lives \cup {used'}
        BY <3>1 DEF IsBorn
      <4>2. PICK n : n = used + 1
        OBVIOUS
      <4>3. QED BY <2>6, <4>1, <4>2, HistoryBorn
    <3>2. CASE IsBack(r.command, r.by)
      BY <2>6, <3>2, HistoryBack DEF IsBack
    <3>3. CASE IsGone(r.command, r.by)
      BY <2>6, <3>3, HistoryGone DEF IsGone
    <3>4. CASE IsSame(r.command, r.by)
      BY <2>6, <3>4, HistorySame DEF IsSame, serverBoards
    <3>5. QED BY <2>1, <3>1, <3>2, <3>3, <3>4
  <2>8. QED BY <2>7 DEF HistoryNow, HistoryHolds
<1>7. CASE ~Calm'
  BY <1>7 DEF HistoryHolds
<1>8. QED BY <1>2, <1>4, <1>5, <1>6, <1>7

LEMMA RecordsOfUndos == UndosTyped /\ used \in Nat => RecordsTyped
BY RecordsAre
LEMMA HistoryReceive == ASSUME LifeTyped, Linked, HistoryHolds, NEW r \in requests, ReceiveCommand(r) PROVE HistoryHolds'
<1>1. /\ UndosTyped /\ used \in Nat /\ requests \subseteq RequestsTo(used) /\ RecordsTyped
  BY RecordsAre DEF LifeTyped, ServerTyped
<1>2. TypedStep /\ LifeMoves /\ r \in Answered /\ Answered' = Answered \ {r} /\ ReceivedBy(r)
  BY ReceiveCommandIs
<1>3. lives' = lives /\ used' = used /\ meddled' = meddled /\ faults \subseteq faults'
  BY <1>2 DEF LifeMoves, serverBoards
<1>4. RecordsTyped'
  <2>1. UndosTyped' /\ used' \in Nat
    BY <1>2 DEF TypedStep, ServerTyped
  <2>2. (UndosTyped /\ used \in Nat => RecordsTyped)'
    BY RecordsOfUndos, PTL
  <2>3. QED BY <2>1, <2>2
<1>5. r.do = "command" /\ r.command \in CommandsTo(used) /\ r.by \in {"perform", "undo", "redo"}
  BY <1>1, <1>2, CommandIs DEF Answered
<1>6. ASSUME Calm' PROVE HistoryNow'
  <2>1. HistoryNow
    BY <1>3, <1>6, CalmBefore DEF HistoryHolds, HistoryNow
  <2>2. ReceiveFacts(r)
    BY <1>1, <1>2, <1>3, <1>4, <1>5, <2>1, AnsweredTyped, FinishedIs DEF ReceiveFacts
  <2>3. First(r.ids) = NoBoard \/ \A i \in DOMAIN Records : Records[i].board # First(r.ids)
    BY <1>2, <1>6 DEF ReceivedBy, Calm
  <2>4. CASE r.by = "perform"
    <3>1. ~undos.busy /\ Appended(Finished(r))
      BY <1>2, <1>6, <2>4 DEF ReceivedBy, Calm
    <3>2. QED BY <2>2, <2>3, <2>4, <3>1, HistoryAppended
  <2>5. CASE r.by = "undo"
    BY <1>2, <2>2, <2>5, HistoryBacked DEF ReceivedBy
  <2>6. CASE r.by = "redo"
    <3>1. SteppedOn(Finished(r)) /\ (r.command.kind \in Makers => ~NamedLater(r.command.board))
      BY <1>2, <1>6, <2>6 DEF ReceivedBy, Calm
    <3>2. QED BY <2>2, <2>3, <2>6, <3>1, HistoryStepped
  <2>7. QED BY <1>5, <2>4, <2>5, <2>6
<1>7. QED BY <1>6 DEF HistoryNow, HistoryHolds

LEMMA HistoryQuietly == ASSUME HistoryHolds, Quietly PROVE HistoryHolds'
<1>1. lives' = lives /\ used' = used /\ meddled' = meddled /\ faults' = faults /\ Answered' = Answered
      /\ Records' = Records /\ Here' = Here
  BY DEF Quietly, LifeMoves, serverBoards, Records, Here
<1>2. Calm' => Calm
  BY <1>1 DEF Calm
<1>3. QED BY <1>1, <1>2, HistoryQuiet

LEMMA HistoryUndisturbed == ASSUME Calm' => FALSE PROVE HistoryHolds'
BY DEF HistoryHolds

LifeParts == Linked /\ HistoryHolds /\ StoreHolds /\ SelectorHolds
LEMMA LifeStepKeeps == ASSUME LifeTyped, LifeParts, LifeStep, Rendered PROVE LifeTyped' /\ LifeParts'
<1>1. Linked /\ HistoryHolds /\ StoreHolds /\ SelectorHolds
  BY DEF LifeParts
<1>2. SelectorTyped /\ used \in Nat
  BY DEF LifeTyped, ServerTyped
<1>3. ASSUME TypedStep PROVE LifeTyped'
  <2>1. SelectorTyped'
    BY <1>2, <1>3, RenderedTyped DEF TypedStep
  <2>2. QED BY <1>3, <2>1 DEF TypedStep, LifeTyped
<1>4. ASSUME TypedStep, LifeMoves PROVE SelectorHolds' /\ StoreHolds'
  <2>1. StoreHolds'
    BY <1>1, <1>4, StoreMoves
  <2>2. UNCHANGED <<lives, viewed, meddled>> /\ faults \subseteq faults' /\ Previewing' = Previewing
    BY <1>4 DEF LifeMoves, serverBoards
  <2>3. SelectorHolds'
    BY <1>1, <1>4, <2>2, RenderedMoves DEF TypedStep
  <2>4. QED BY <2>1, <2>3
<1>5. ASSUME TypedStep, Quietly, Linked' PROVE LifeTyped' /\ LifeParts'
  <2>1. LifeMoves
    BY <1>5 DEF Quietly
  <2>2. QED BY <1>1, <1>3, <1>4, <1>5, <2>1, HistoryQuietly DEF LifeParts
<1>6. ASSUME UserStep PROVE LifeTyped' /\ LifeParts'
  BY <1>1, <1>5, <1>6, LinkedKept DEF UserStep
<1>7. CASE DuplicateBoard \/ CreateEmptyBoard \/ CreateTemplate \/ UseTemplate \/ RemoveBoard
  BY <1>6, <1>7, UserActsAre
<1>8. CASE OpenBoard \/ OpenSelector \/ CloseSelector \/ GoHome \/ \E r \in requests : TimerFires(r)
  BY <1>6, <1>8, PageActsAre
<1>9. CASE UndoBoards
  BY <1>1, <1>5, <1>9, UndoIs DEF ReplayingStep
<1>10. CASE RedoBoards
  BY <1>1, <1>5, <1>10, RedoIs DEF ReplayingStep
<1>11. CASE OtherDeletes
  <2>1. TypedStep /\ Keeps
    BY <1>11, OtherIs
  <2>2. Linked' /\ StoreHolds'
    BY <1>1, <1>11, <2>1, LinkedKept, StoreOthers
  <2>3. SelectorHolds'
    BY <1>1, <1>11, <2>1, RenderedOthers DEF TypedStep
  <2>4. ~Calm'
    <3>1. meddled \in Nat /\ meddled' = meddled + 1
      BY <1>11 DEF OtherDeletes, LifeTyped
    <3>2. meddled' # 0
      BY <3>1
    <3>3. QED BY <3>2 DEF Calm
  <2>5. QED BY <1>3, <2>1, <2>2, <2>3, <2>4, HistoryUndisturbed DEF LifeParts
<1>12. ASSUME NEW r \in requests, Answer(r) PROVE LifeTyped' /\ LifeParts'
  <2>1. TypedStep
    BY <1>12, AnswerTyped DEF TypedStep
  <2>2. SelectorHolds'
    BY <1>1, <1>12, <2>1, RenderedAnswer DEF TypedStep
  <2>3. QED BY <1>1, <1>3, <1>12, <2>1, <2>2, LinkedAnswer, HistoryAnswer, StoreAnswer DEF LifeParts
<1>13. ASSUME NEW r \in requests, LoseAnswer(r) PROVE LifeTyped' /\ LifeParts'
  <2>1. TypedStep /\ LifeMoves /\ Keeps /\ "lost" \in faults'
    BY <1>13, LoseIs
  <2>2. ~Calm'
    BY <2>1 DEF Calm
  <2>3. QED BY <1>1, <1>3, <1>4, <2>1, <2>2, LinkedKept, HistoryUndisturbed DEF LifeParts
<1>14. ASSUME NEW r \in requests, ReceiveCommand(r) PROVE LifeTyped' /\ LifeParts'
  BY <1>1, <1>3, <1>4, <1>14, ReceiveCommandIs, HistoryReceive DEF LifeParts
<1>15. ASSUME NEW r \in requests, ReceivePage(r) PROVE LifeTyped' /\ LifeParts'
  <2>1. TypedStep /\ Keeps
    BY <1>15, ReceivePageIs
  <2>2. UNCHANGED <<lives, used, viewed, meddled, undos>> /\ faults \subseteq faults' /\ requests' = requests \ {r} /\ r.do = "page"
    BY <1>15 DEF ReceivePage, serverBoards
  <2>3. Answered' = Answered /\ Previewing' = Previewing /\ Records' = Records /\ Here' = Here
    BY <2>2 DEF Answered, Previewing, Records, Here
  <2>4. HistoryHolds'
    BY <1>1, <2>2, <2>3, HistoryQuiet, CalmBefore
  <2>5. SelectorHolds'
    BY <1>1, <2>1, <2>2, <2>3, RenderedMoves DEF TypedStep
  <2>6. QED BY <1>1, <1>3, <1>15, <2>1, <2>4, <2>5, LinkedKept, StoreReceives DEF LifeParts
<1>16. QED BY <1>7, <1>8, <1>9, <1>10, <1>11, <1>12, <1>13, <1>14, <1>15 DEF LifeStep

LEMMA LifeNextKeeps == ASSUME LifeInv, LifeNext PROVE LifeInv'
<1>1. LifeTyped /\ LifeParts /\ Linked /\ HistoryHolds /\ StoreHolds /\ SelectorHolds
  BY DEF LifeInv, LifeParts
<1>2. ASSUME PreviewStep PROVE LifeInv'
  <2>1. HistoryHolds'
    <3>1. Answered' = Answered /\ lives' = lives /\ used' = used /\ Records' = Records /\ Here' = Here /\ meddled' = meddled /\ faults' = faults
      BY <1>2 DEF PreviewStep, Records, Here
    <3>2. Calm' => Calm
      BY <3>1 DEF Calm
    <3>3. QED BY <1>1, <3>1, <3>2, HistoryQuiet
  <2>2. QED BY <1>2, <2>1 DEF PreviewStep, LifeInv
<1>3. CASE LoadPreview
  BY <1>1, <1>2, <1>3, LoadPreviewIs
<1>4. CASE SelectTemplate
  BY <1>1, <1>2, <1>4, SelectTemplateIs
<1>5. ASSUME NEW r \in requests, ReceivePreview(r) PROVE LifeInv'
  BY <1>1, <1>2, <1>5, ReceivePreviewIs
<1>6. CASE LifeStep /\ Rendered
  BY <1>1, <1>6, LifeStepKeeps DEF LifeParts, LifeInv
<1>7. QED BY <1>3, <1>4, <1>5, <1>6 DEF LifeNext

LEMMA LifeStutters == ASSUME LifeInv, UNCHANGED lifeVars PROVE LifeInv'
<1>1. /\ UNCHANGED <<lives, used, templates, viewed, known, page, picking, selector>>
      /\ UNCHANGED <<requests, undos, acts, meddled, faults>>
  BY DEF lifeVars
<1>2. LifeTyped'
  BY <1>1 DEF LifeInv, LifeTyped, ServerTyped, PageTyped, SelectorTyped, UndosTyped
<1>3. Linked'
  BY <1>1, LinkedKept DEF LifeInv, Keeps
<1>4. Answered' = Answered /\ Pages' = Pages /\ Previewing' = Previewing /\ Records' = Records /\ Here' = Here
  BY <1>1 DEF Answered, Pages, Previewing, Records, Here
<1>5. HistoryHolds'
  BY <1>1, <1>4, HistoryQuiet DEF LifeInv, Calm
<1>6. StoreHolds'
  BY <1>1, <1>4 DEF LifeInv, StoreHolds
<1>7. SelectorHolds'
  BY <1>1, <1>4 DEF LifeInv, SelectorHolds, Selecting, SelectorShown
<1>8. QED BY <1>2, <1>3, <1>5, <1>6, <1>7 DEF LifeInv

LEMMA LifeStarts == ASSUME LifeInit PROVE LifeInv
<1>1. PICK first \in BOOLEAN, past \in 0 .. 2 : (past > 0 => first) /\ LifeStart(first, past)
  BY DEF LifeInit
<1> DEFINE made == [CreateCommand(FALSE, IF first THEN 1 ELSE NoBoard) EXCEPT !.board = 3]
           q == <<made, DeleteCommand(3, NoBoard)>>
           done == SubSeq(q, 1, past)
<1>2. /\ lives = (IF first THEN {1} ELSE {}) \cup {2, 4} /\ used = 4 /\ templates = {2, 4} /\ viewed = 1 .. 4 /\ known = lives
      /\ page = [board |-> IF first THEN 1 ELSE NoBoard, error |-> FALSE, loaded |-> first, last |-> IF first THEN 1 ELSE NoBoard]
      /\ picking = FALSE /\ selector = IF first THEN NoSelector ELSE [NoSelector EXCEPT !.active = 2]
      /\ requests = {} /\ undos = [commands |-> done, index |-> 0, busy |-> FALSE]
      /\ acts = 0 /\ meddled = 0 /\ faults = {}
  BY <1>1 DEF LifeStart
<1>3. /\ made \in CommandsTo(4) /\ made.kind = "create" /\ made.board = 3
      /\ DeleteCommand(3, NoBoard) \in CommandsTo(4) /\ DeleteCommand(3, NoBoard).kind = "delete" /\ DeleteCommand(3, NoBoard).board = 3
  <2>1. (IF first THEN 1 ELSE NoBoard) \in 0 .. 4 /\ 3 \in 0 .. 4 /\ NoBoard \in 0 .. 4 /\ 3 # NoBoard /\ 4 \in Nat /\ FALSE \in BOOLEAN
    BY DEF NoBoard
  <2>2. CreateCommand(FALSE, IF first THEN 1 ELSE NoBoard) \in CommandsTo(4) /\ CreateCommand(FALSE, IF first THEN 1 ELSE NoBoard).kind = "create"
    BY <2>1, CommandsAre DEF CreateCommand, NoCommand
  <2>3. DeleteCommand(3, NoBoard) \in CommandsTo(4)
    BY <2>1, CommandsAre
  <2>4. DeleteCommand(3, NoBoard).kind = "delete" /\ DeleteCommand(3, NoBoard).board = 3
    BY DEF DeleteCommand, NoCommand
  <2>5. QED BY <2>1, <2>2, <2>3, <2>4 DEF CommandsTo
<1> HIDE DEF made
<1>4. /\ done \in Seq(CommandsTo(4)) /\ Len(done) = past
      /\ \A i \in 1 .. past : done[i] = q[i]
  <2>1. q \in Seq(CommandsTo(4)) /\ Len(q) = 2
    BY <1>3
  <2> HIDE DEF q
  <2>2. QED BY <2>1
<1>5. \A i \in 1 .. past : /\ i = 1 => done[i] = made
                           /\ i = 2 => done[i] = DeleteCommand(3, NoBoard)
                           /\ i \in {1, 2}
  BY <1>4
<1> HIDE DEF q, done
<1>6. LifeTyped
  <2>1. ServerTyped /\ PageTyped
    <3>1. lives \subseteq 1 .. 4 /\ {2, 4} \subseteq 1 .. 4 /\ 4 \in Nat
      BY <1>2
    <3>2. (IF first THEN 1 ELSE NoBoard) \in 0 .. 4 /\ first \in BOOLEAN
      BY DEF NoBoard
    <3>3. page \in [board : 0 .. 4, error : BOOLEAN, loaded : BOOLEAN, last : 0 .. 4]
      BY <1>2, <3>2
    <3>4. QED BY <1>2, <3>1, <3>3 DEF ServerTyped, PageTyped
  <2>2. SelectorTyped
    BY <1>2 DEF SelectorTyped, NoSelector, NoBoard
  <2>3. UndosTyped
    BY <1>2, <1>4 DEF UndosTyped
  <2>4. QED BY <1>2, <2>1, <2>2, <2>3 DEF LifeTyped
<1>7. Linked /\ Answered = {} /\ Pages = {} /\ Previewing = {}
  BY <1>2 DEF Linked, Answered, Pages, Previewing
<1>8. HistoryHolds
  <2>1. Records = done /\ Here = 0 /\ DOMAIN Records = 1 .. past
    BY <1>2, <1>4 DEF Records, Here
  <2>2. \A i, b : /\ Makes(i, b) => i = 1 /\ b = 3
                  /\ Deletes(i, b) => i = 2 /\ b = 3 /\ Makes(1, b)
    BY <1>3, <1>5, <2>1 DEF Makes, Deletes, Makers
  <2>3. 3 \notin lives
    BY <1>2
  <2>4. \A i \in DOMAIN Records : i \in Nat /\ 0 < i /\ ~(i <= Here)
    BY <2>1
  <2>5. \A i : Makes(i, 3) => i \in DOMAIN Records
    BY DEF Makes
  <2>6. ASSUME NEW b \in 1 .. used PROVE BoardTold(b)
    <3>1. Once(b)
      BY <2>2 DEF Once
    <3>2. Told(b)
      BY <2>1, <2>2, <2>3, <2>4, <2>5 DEF Told
    <3>3. DeletionsHold(b) /\ ReplaysHold(b)
      BY <1>7 DEF DeletionsHold, ReplaysHold
    <3>4. QED BY <3>1, <3>2, <3>3 DEF BoardTold
  <2>7. QED BY <1>7, <2>6 DEF HistoryHolds
<1>9. StoreHolds
  BY <1>2, <1>7 DEF StoreHolds, NoBoard
<1>10. SelectorHolds
  <2>1. CASE first
    <3>1. selector = NoSelector /\ ~Selecting
      BY <1>2, <2>1 DEF Selecting, SelectorShown
    <3>2. QED BY <1>7, <3>1 DEF SelectorHolds, NoSelector
  <2>2. CASE ~first
    <3>1. Selecting /\ selector.active = 2 /\ selector.asked = NoBoard /\ selector.shown = NoBoard
      BY <1>2, <2>2 DEF Selecting, SelectorShown, NoSelector, NoBoard
    <3>2. QED BY <1>7, <3>1 DEF SelectorHolds, NoBoard
  <2>3. QED BY <2>1, <2>2
<1>11. QED BY <1>6, <1>7, <1>8, <1>9, <1>10 DEF LifeInv

LEMMA ExplainedBoards == ASSUME LifeInv PROVE HistoryExplainsBoards
<1>1. /\ HistoryHolds /\ used \in Nat /\ RecordsTyped
  BY RecordsAre DEF LifeInv, LifeTyped, ServerTyped
<1>2. ASSUME Settled, meddled = 0, faults \cap {"lost", "refused", "unrecorded", "crossed", "renamed"} = {}, NEW b \in 1 .. used
      PROVE  LET about == {i \in DOMAIN undos.commands :
                             /\ undos.commands[i].board = b
                             /\ undos.commands[i].kind \in {"create", "copy", "delete"}}
                 past == {i \in about : i <= undos.index}
                 future == about \ past
             IN  /\ past # {} => (b \in lives <=> undos.commands[Max(past)].kind # "delete")
                 /\ past = {} /\ future # {} =>
                        (b \in lives <=> undos.commands[Min(future)].kind = "delete")
  <2> DEFINE about == {i \in DOMAIN undos.commands : /\ undos.commands[i].board = b
                                                    /\ undos.commands[i].kind \in {"create", "copy", "delete"}}
             past == {i \in about : i <= undos.index}
             future == about \ past
  <2>1. Answered = {}
    BY <1>2 DEF Settled, Answered
  <2>2. Once(b) /\ Told(b)
    <3>1. Settles(b)
      BY <2>1 DEF Settles
    <3>2. QED BY <1>1, <1>2, <3>1 DEF HistoryHolds, Calm, BoardTold
  <2>3. /\ Len(Records) \in Nat /\ Here \in Nat /\ DOMAIN Records = 1 .. Len(Records)
    BY <1>1 DEF RecordsTyped
  <2>4. \A i : i \in about <=> (Makes(i, b) \/ Deletes(i, b))
    BY DEF Makes, Deletes, Makers, Records
  <2>5. \A i : /\ Makes(i, b) => i \in DOMAIN Records /\ undos.commands[i].kind # "delete"
               /\ Deletes(i, b) => i \in DOMAIN Records /\ undos.commands[i].kind = "delete"
    BY DEF Makes, Deletes, Makers, Records
  <2>6. \A i : /\ i \in past <=> (i \in about /\ i <= Here)
               /\ i \in future <=> (i \in about /\ ~(i <= Here))
    BY DEF Here
  <2> HIDE DEF about, past, future
  <2>7. past \subseteq 1 .. Len(Records) /\ future \subseteq Nat
    BY <2>3, <2>4, <2>5, <2>6
  <2>8. ASSUME past # {} PROVE b \in lives <=> undos.commands[Max(past)].kind # "delete"
    <3>1. PICK k : k = Max(past)
      OBVIOUS
    <3>2. k \in past /\ \A i \in past : k >= i
      BY <2>3, <2>7, <2>8, <3>1, MaxIs
    <3>3. k \in DOMAIN Records /\ k <= Here /\ k \in Nat
      BY <2>3, <2>4, <2>5, <2>6, <3>2
    <3>4. CASE Deletes(k, b)
      <4>1. b \notin lives
        BY <2>2, <3>3, <3>4 DEF Told
      <4>2. QED BY <2>5, <3>1, <3>4, <4>1
    <3>5. CASE Makes(k, b)
      <4>1. ASSUME NEW j \in DOMAIN Records, Deletes(j, b), j <= Here PROVE FALSE
        <5>1. k < j
          BY <2>2, <3>3, <3>5, <4>1 DEF Once
        <5>2. k >= j /\ j \in Nat
          BY <2>3, <2>4, <2>6, <3>2, <4>1
        <5>3. QED BY <3>3, <5>1, <5>2
      <4>2. b \in lives
        BY <2>2, <3>3, <3>5, <4>1 DEF Told
      <4>3. QED BY <2>5, <3>1, <3>5, <4>2
    <3>6. QED BY <2>4, <2>6, <3>2, <3>4, <3>5
  <2>9. ASSUME past = {}, future # {} PROVE b \in lives <=> undos.commands[Min(future)].kind = "delete"
    <3>1. PICK k : k = Min(future)
      OBVIOUS
    <3>2. k \in future /\ \A i \in future : k <= i
      BY <2>7, <2>9, <3>1, MinIs
    <3>3. k \in DOMAIN Records /\ Here < k /\ k \in Nat
      BY <2>3, <2>4, <2>5, <2>6, <2>7, <3>2
    <3>4. CASE Makes(k, b)
      <4>1. b \notin lives
        BY <2>2, <3>3, <3>4 DEF Told
      <4>2. QED BY <2>5, <3>1, <3>4, <4>1
    <3>5. CASE Deletes(k, b)
      <4>1. ASSUME NEW j \in DOMAIN Records, Makes(j, b), Here < j PROVE FALSE
        <5>1. j < k
          BY <2>2, <3>3, <3>5, <4>1 DEF Once
        <5>2. j \in Nat /\ ~(j <= Here)
          BY <2>3, <4>1
        <5>3. k <= j
          BY <2>4, <2>6, <3>2, <4>1, <5>2
        <5>4. QED BY <3>3, <5>1, <5>2, <5>3
      <4>2. b \in lives
        BY <2>2, <3>3, <3>5, <4>1 DEF Told
      <4>3. QED BY <2>5, <3>1, <3>5, <4>2
    <3>6. QED BY <2>4, <2>6, <3>2, <3>4, <3>5
  <2>10. QED BY <2>8, <2>9 DEF about, past, future
<1>3. QED BY <1>2 DEF HistoryExplainsBoards

LEMMA ShownBoards == ASSUME LifeInv PROVE LifeTypeOK /\ OpenBoardIsShown /\ PreviewIsOfActive
<1>1. /\ StoreHolds /\ SelectorHolds /\ ServerTyped /\ PageTyped /\ UndosTyped /\ used \in Nat
  BY DEF LifeInv, LifeTyped, ServerTyped
<1>2. LifeTypeOK
  BY <1>1 DEF LifeTypeOK, ServerTyped, PageTyped, UndosTyped
<1>3. OpenBoardIsShown
  <2>1. Settled => Pages = {}
    BY DEF Settled, Pages
  <2>2. page.board \in lives => page.board # NoBoard
    BY <1>1 DEF ServerTyped, NoBoard
  <2>3. QED BY <1>1, <2>1, <2>2 DEF OpenBoardIsShown, StoreHolds
<1>4. PreviewIsOfActive
  <2>1. Settled => Previewing = {} /\ selector.asked = selector.active
    BY DEF Settled, Previewing
  <2>2. selector.active \in lives => selector.active # NoBoard
    BY <1>1 DEF ServerTyped, NoBoard
  <2>3. QED BY <1>1, <2>1, <2>2 DEF PreviewIsOfActive, SelectorHolds
<1>5. QED BY <1>2, <1>3, <1>4

\* However many commands, undos and redos, and whatever answers are lost or late: once all
\* is answered the boards there are are those the undo manager says, the store knows them,
\* the page is loaded and the selector previews its active template.
THEOREM BoardsAreExplained == LifeSpec => []BoardsFollowHistory
<1>1. LifeInit => LifeInv
  BY LifeStarts
<1>2. LifeInv /\ [LifeNext]_lifeVars => LifeInv'
  BY LifeNextKeeps, LifeStutters
<1>3. LifeInv => BoardsFollowHistory
  BY ExplainedBoards, ShownBoards DEF BoardsFollowHistory
<1>4. QED BY <1>1, <1>2, <1>3, PTL DEF LifeSpec
=============================================================================

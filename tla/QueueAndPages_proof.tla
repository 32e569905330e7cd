------------------------ MODULE QueueAndPages_proof ------------------------
(***************************************************************************)
(* Proofs about two components that have nothing in common.                *)
(*                                                                         *)
(* CallbackQueue: for any finite pool, any capacity, any callbacks and any *)
(* number of calls of Shutdown.                                            *)
(*                                                                         *)
(* Navigation: when nothing is left to do, the page is the one of the      *)
(* address, for any boards, views and categories and any number of acts.   *)
(* NavInv is inductive.  It says what is known of the user (MeKnown), that *)
(* the pages of a shared board stay among themselves (SharedApart), what   *)
(* an address pushed late meets (ReturnsWell), how the current board and   *)
(* view follow the last rendering (CurrentIsRendered, ViewWasPicked), that *)
(* the store has the boards and the views of the rendered page, or that    *)
(* they are asked for (BoardsAreKnown, ViewsAreKnown), and that a board    *)
(* that is lost is forgotten (LostIsForgotten).                            *)
(***************************************************************************)
EXTENDS CallbackQueue, Navigation, FiniteSetTheorems, TLAPS

(* The queue of callbacks.                                                 *)

USE DEF Rest, HasRoom, Drained, ToldToExit, AliveReady, SelectsOnContext

\* The state has its type.
THEOREM TypeCorrect == Spec => []TypeOK
<1>1. Init => TypeOK
  <2> SUFFICES ASSUME Init PROVE TypeOK
    OBVIOUS
  <2>1. queue \in Seq(Callbacks) /\ order \in Seq(Callbacks) /\ started \in Seq(Callbacks)
    BY DEF Init
  <2>2. /\ holds \in [Executors -> Callbacks \cup {NoCallback}]
        /\ calling \in SUBSET {e \in Executors : holds[e] # NoCallback}
    BY DEF Init
  <2>3. QED
    BY <2>1, <2>2 DEF Init, TypeOK
<1>2. ASSUME TypeOK, [Next]_vars PROVE TypeOK'
  <2> USE <1>2, NoCallbackAssumption, QueueSizeAssumption DEF TypeOK, Executors
  <2>1. CASE \E f \in Callbacks : LoadIdone(f)
    BY <2>1 DEF LoadIdone, execVars, closeVars
  <2>2. CASE \E f \in Callbacks : Send(f)
    BY <2>2 DEF Send, execVars, closeVars
  <2>3. ASSUME NEW e \in Executors, Receive(e) PROVE TypeOK'
    <3>1. /\ Head(queue) \in Callbacks /\ Tail(queue) \in Seq(Callbacks)
      BY <2>3 DEF Receive
    <3>2. enq' \in [Callbacks -> {"idle", "checked", "skipped", "blocked", "returned"}]
      BY <2>3 DEF Receive
    <3>3. QED
      BY <2>3, <3>1, <3>2 DEF Receive, closeVars
  <2>4. ASSUME NEW e \in Executors, Start(e) PROVE TypeOK'
    BY <2>4 DEF Start, chanVars, closeVars
  <2>5. ASSUME NEW e \in Executors, Finish(e) PROVE TypeOK'
    <3>1. holds[e] \in Callbacks
      BY <2>5 DEF Finish
    <3>2. QED
      BY <2>5, <3>1 DEF Finish, chanVars, closeVars
  <2>6. CASE \E w \in Workers : Exit(w)
    BY <2>6 DEF Exit, chanVars, execVars, closeVars
  <2>7. CASE \E c \in Closers : CompareAndSwap(c)
    BY <2>7 DEF CompareAndSwap, Sent, chanVars, execVars
  <2>8. CASE \E c \in Closers : CloseDone(c)
    BY <2>8 DEF CloseDone, AfterWait, chanVars, execVars
  <2>9. CASE \E c \in Closers : ReceiveAlive(c)
    BY <2>9 DEF ReceiveAlive, AfterWait, chanVars, execVars
  <2>10. CASE \E c \in Closers : DrainEmpty(c) \/ TimedOut(c) \/ Expire(c)
    BY <2>10 DEF DrainEmpty, TimedOut, Expire, chanVars, execVars
  <2>11. CASE UNCHANGED vars
    BY <2>11 DEF vars
  <2>12. QED
    BY <2>1, <2>2, <2>3, <2>4, <2>5, <2>6, <2>7, <2>8, <2>9, <2>10, <2>11
       DEF Next, Worker, WorkerReceive, Closer, DrainReceive, Exec
<1>3. QED BY <1>1, <1>2, PTL DEF Spec

-----------------------------------------------------------------------------
(* Quiescence.  Every token a worker left in cn.alive is either still      *)
(* there or was counted, so a count of poolSize means nobody is left.      *)

Winner(c) == close[c] \notin {"idle", "lost"}

Counted ==
    /\ alive + count = Cardinality(exited)
    /\ \A c \in Closers : close[c] \in {"drain", "true"} => count >= Cardinality(Workers)

HandsEmpty ==
    /\ \A w \in exited : holds[w] = NoCallback
    /\ \A c \in Closers : close[c] # "drain" => holds[c] = NoCallback

OneWinner ==
    /\ \A c \in Closers : Winner(c) => idone
    /\ \A c, d \in Closers : Winner(c) /\ Winner(d) => c = d

QInv == Counted /\ HandsEmpty /\ OneWinner

LEMMA QInvInductive == Spec => []QInv
<1> USE WorkersAssumption, NoCallbackAssumption, RolesAssumption
<1>1. Init => QInv
  <2>1. Cardinality({}) = 0
    BY FS_EmptySet
  <2>2. QED
    BY <2>1 DEF Init, QInv, Counted, HandsEmpty, OneWinner, Winner, Executors
<1>2. ASSUME TypeOK, QInv, [Next]_vars PROVE QInv'
  <2> USE <1>2 DEF TypeOK, QInv, Executors
  <2>0. IsFiniteSet(exited) /\ Cardinality(exited) \in Nat /\ Cardinality(Workers) \in Nat
    BY FS_Subset, FS_CardinalityType
  <2>1. ASSUME NEW f \in Callbacks, LoadIdone(f) \/ Send(f) PROVE QInv'
    BY <2>1 DEF LoadIdone, Send, execVars, closeVars, Counted, HandsEmpty, OneWinner, Winner
  <2>2. ASSUME NEW w \in Workers, WorkerReceive(w) PROVE QInv'
    BY <2>2 DEF WorkerReceive, Receive, closeVars, Counted, HandsEmpty, OneWinner, Winner
  <2>3. ASSUME NEW c \in Closers, DrainReceive(c) PROVE QInv'
    BY <2>3 DEF DrainReceive, Receive, closeVars, Counted, HandsEmpty, OneWinner, Winner
  <2>4. ASSUME NEW e \in Executors, Start(e) \/ Finish(e) PROVE QInv'
    BY <2>4 DEF Start, Finish, chanVars, closeVars, Counted, HandsEmpty, OneWinner, Winner
  <2>5. ASSUME NEW w \in Workers, Exit(w) PROVE QInv'
    <3>1. Cardinality(exited') = Cardinality(exited) + 1
      BY <2>0, <2>5, FS_AddElement DEF Exit
    <3>2. Counted'
      BY <2>0, <2>5, <3>1 DEF Exit, Counted, closeVars
    <3>3. QED
      BY <2>5, <3>2 DEF Exit, HandsEmpty, OneWinner, Winner, execVars, closeVars
  <2>6. ASSUME NEW c \in Closers, CompareAndSwap(c) PROVE QInv'
    <3>1. Counted' /\ HandsEmpty'
      BY <2>6 DEF CompareAndSwap, Counted, HandsEmpty, execVars
    <3>2. OneWinner'
      BY <2>6 DEF CompareAndSwap, OneWinner, Winner
    <3>3. QED BY <3>1, <3>2
  <2>7. ASSUME NEW c \in Closers, CloseDone(c) PROVE QInv'
    <3>1. Counted'
      BY <2>0, <2>7 DEF CloseDone, AfterWait, Counted
    <3>2. HandsEmpty' /\ OneWinner'
      BY <2>7 DEF CloseDone, AfterWait, HandsEmpty, OneWinner, Winner, execVars
    <3>3. QED BY <3>1, <3>2
  <2>8. ASSUME NEW c \in Closers, ReceiveAlive(c) PROVE QInv'
    <3>1. Counted'
      BY <2>0, <2>8 DEF ReceiveAlive, AfterWait, Counted
    <3>2. HandsEmpty' /\ OneWinner'
      BY <2>8 DEF ReceiveAlive, AfterWait, HandsEmpty, OneWinner, Winner, execVars
    <3>3. QED BY <3>1, <3>2
  <2>9. ASSUME NEW c \in Closers, DrainEmpty(c) \/ TimedOut(c) \/ Expire(c) PROVE QInv'
    <3>1. Counted'
      BY <2>9 DEF DrainEmpty, TimedOut, Expire, Counted
    <3>2. HandsEmpty' /\ OneWinner'
      BY <2>9, ZenonT(60) DEF DrainEmpty, TimedOut, Expire, HandsEmpty, OneWinner, Winner, execVars
    <3>3. QED BY <3>1, <3>2
  <2>10. CASE UNCHANGED vars
    BY <2>10 DEF vars, Counted, HandsEmpty, OneWinner, Winner
  <2>11. QED
    BY <2>1, <2>2, <2>3, <2>4, <2>5, <2>6, <2>7, <2>8, <2>9, <2>10
       DEF Next, Worker, Closer, Exec
<1>3. QED BY <1>1, <1>2, TypeCorrect, PTL DEF Spec

LEMMA QInvQuiescent == TypeOK /\ QInv => PoolQuiescent
<1> SUFFICES ASSUME TypeOK, QInv,
                    NEW c \in Closers, close[c] \in {"drain", "true"}
             PROVE  /\ exited = Workers
                    /\ close[c] = "true" => \A e \in Executors : holds[e] = NoCallback
  BY DEF PoolQuiescent
<1> USE WorkersAssumption DEF TypeOK
<1>1. IsFiniteSet(exited) /\ Cardinality(exited) \in Nat /\ Cardinality(Workers) \in Nat
  BY FS_Subset, FS_CardinalityType
<1>2. Cardinality(exited) >= Cardinality(Workers)
  BY <1>1 DEF QInv, Counted
<1>3. exited = Workers
  BY <1>1, <1>2, FS_Subset
<1>4. ASSUME close[c] = "true", NEW e \in Executors PROVE holds[e] = NoCallback
  <2>1. CASE e \in Workers
    BY <2>1, <1>3 DEF QInv, HandsEmpty
  <2>2. CASE e \in Closers
    BY <2>2, <1>4 DEF QInv, HandsEmpty, OneWinner, Winner
  <2>3. QED BY <2>1, <2>2 DEF Executors
<1>5. QED BY <1>3, <1>4

\* Once a Shutdown drains the channel every worker has left its loop, and when
\* it returns true nobody executes a callback any more (callbackqueue.go:62-84).
THEOREM Quiescent == Spec => []PoolQuiescent
BY TypeCorrect, QInvInductive, QInvQuiescent, PTL

-----------------------------------------------------------------------------
(* Where a sent callback is: in the channel, in the hands of one executor, *)
(* or finished; and it moves on only once.                                 *)

Elements(s) == {s[i] : i \in 1..Len(s)}
NoRepeat(s) == \A i, j \in 1..Len(s) : s[i] = s[j] => i = j
Queued == Elements(queue)

LEMMA ElementsAppend ==
  ASSUME NEW S, NEW s \in Seq(S), NEW x \in S
  PROVE  /\ Elements(Append(s, x)) = Elements(s) \cup {x}
         /\ NoRepeat(s) /\ x \notin Elements(s) => NoRepeat(Append(s, x))
<1>1. /\ Len(Append(s, x)) = Len(s) + 1
      /\ \A i \in 1..Len(s) : Append(s, x)[i] = s[i]
      /\ Append(s, x)[Len(s) + 1] = x
      /\ Len(s) \in Nat
  OBVIOUS
<1>2. Elements(Append(s, x)) = Elements(s) \cup {x}
  BY <1>1 DEF Elements
<1>3. ASSUME NoRepeat(s), x \notin Elements(s),
             NEW i \in 1..Len(s) + 1, NEW j \in 1..Len(s) + 1,
             Append(s, x)[i] = Append(s, x)[j]
      PROVE  i = j
  <2>1. CASE i \in 1..Len(s) /\ j \in 1..Len(s)
    BY <1>1, <1>3, <2>1 DEF NoRepeat
  <2>2. CASE i = Len(s) + 1 \/ j = Len(s) + 1
    BY <1>1, <1>3, <2>2 DEF Elements
  <2>3. QED BY <1>1, <2>1, <2>2
<1>4. QED BY <1>1, <1>2, <1>3 DEF NoRepeat

LEMMA ElementsTail ==
  ASSUME NEW S, NEW s \in Seq(S), s # <<>>
  PROVE  /\ Elements(s) = Elements(Tail(s)) \cup {Head(s)}
         /\ NoRepeat(s) => NoRepeat(Tail(s)) /\ Head(s) \notin Elements(Tail(s))
<1>1. /\ Len(s) \in Nat \ {0}
      /\ Len(Tail(s)) = Len(s) - 1
      /\ \A i \in 1..Len(s) - 1 : Tail(s)[i] = s[i + 1]
      /\ Head(s) = s[1]
  OBVIOUS
<1>2. ASSUME NEW i \in 1..Len(s) PROVE s[i] \in Elements(Tail(s)) \cup {Head(s)}
  <2>1. CASE i = 1
    BY <1>1, <2>1
  <2>2. CASE i > 1
    <3>1. i - 1 \in 1..Len(s) - 1 /\ Tail(s)[i - 1] = s[i]
      BY <1>1, <2>2
    <3>2. QED BY <1>1, <3>1 DEF Elements
  <2>3. QED BY <1>1, <2>1, <2>2
<1>3. Elements(Tail(s)) \cup {Head(s)} \subseteq Elements(s)
  BY <1>1 DEF Elements
<1>4. ASSUME NoRepeat(s) PROVE NoRepeat(Tail(s)) /\ Head(s) \notin Elements(Tail(s))
  BY <1>1, <1>4 DEF NoRepeat, Elements
<1>5. Elements(s) = Elements(Tail(s)) \cup {Head(s)}
  BY <1>2, <1>3 DEF Elements
<1>6. QED BY <1>4, <1>5

InChannel ==
    /\ \A f \in Callbacks : f \in Sent <=> enq[f] \in {"blocked", "returned"}
    /\ NoRepeat(queue)
    /\ Queued \subseteq Sent
    /\ Queued \cap Started = {}

InHands ==
    \A e \in Executors : holds[e] # NoCallback =>
        /\ holds[e] \in Sent \ Queued
        /\ holds[e] \in Started <=> e \in calling
        /\ \A d \in Executors : holds[d] = holds[e] => d = e

Executed ==
    /\ NoRepeat(started)
    /\ Started \subseteq Sent

SInv == InChannel /\ InHands /\ Executed

LEMMA SInvInductive == Spec => []SInv
<1> USE NoCallbackAssumption, QueueSizeAssumption
<1>1. Init => SInv
  BY DEF Init, SInv, InChannel, InHands, Executed, Sent, Started, Queued, Elements, NoRepeat
<1>2. ASSUME TypeOK, SInv, [Next]_vars PROVE SInv'
  <2> USE <1>2 DEF TypeOK, SInv
  <2>0. /\ Sent = Elements(order) /\ Started = Elements(started) /\ Queued = Elements(queue)
        /\ Sent' = Elements(order') /\ Started' = Elements(started')
        /\ Queued' = Elements(queue')
    BY DEF Sent, Started, Queued, Elements
  <2>1. ASSUME NEW f \in Callbacks, LoadIdone(f) PROVE SInv'
    <3>1. /\ UNCHANGED <<queue, order, holds, calling, started>>
          /\ Sent' = Sent /\ Queued' = Queued /\ Started' = Started
      BY <2>1 DEF LoadIdone, execVars, Sent, Queued, Elements, Started
    <3>2. InChannel'
      BY <2>1, <3>1 DEF LoadIdone, InChannel, NoRepeat
    <3>3. QED
      BY <3>1, <3>2 DEF InHands, Executed, NoRepeat
  <2>2. ASSUME NEW f \in Callbacks, Send(f) PROVE SInv'
    <3>1. UNCHANGED <<holds, calling, started>> /\ Started' = Started
      BY <2>2 DEF Send, execVars, Started
    <3>2. Sent' = Sent \cup {f} /\ Queued' = Queued \cup {f}
      BY <2>0, <2>2, ElementsAppend DEF Send
    <3>3. f \notin Sent
      BY <2>2 DEF Send, InChannel
    <3>4. NoRepeat(queue')
      BY <2>2, <3>3, ElementsAppend DEF Send, InChannel, Queued
    <3>5. InChannel'
      BY <2>2, <3>1, <3>2, <3>3, <3>4 DEF Send, InChannel, Executed
    <3>6. InHands' /\ Executed'
      BY <3>1, <3>2, <3>3 DEF InHands, Executed, NoRepeat
    <3>7. QED BY <3>5, <3>6
  <2>3. ASSUME NEW e \in Executors, Receive(e) PROVE SInv'
    <3>1. /\ UNCHANGED <<order, calling, started>>
          /\ Sent' = Sent /\ Started' = Started
      BY <2>3 DEF Receive, Sent, Started
    <3>2. /\ Queued = Queued' \cup {Head(queue)}
          /\ Head(queue) \notin Queued'
          /\ NoRepeat(queue')
          /\ Head(queue) \in Callbacks
      BY <2>3, ElementsTail DEF Receive, Queued, InChannel
    <3>3. \A g \in Callbacks : enq'[g] # enq[g] => g \in Queued /\ enq'[g] = "returned"
      BY <2>3 DEF Receive, Queued, Elements
    <3>4. InChannel'
      BY <3>1, <3>2, <3>3 DEF InChannel
    <3>5. InHands'
      BY <2>3, <3>1, <3>2 DEF Receive, InHands, InChannel
    <3>6. QED
      BY <3>1, <3>4, <3>5 DEF Executed, NoRepeat
  <2>4. ASSUME NEW e \in Executors, Start(e) PROVE SInv'
    <3>1. UNCHANGED <<queue, order, enq, holds>> /\ Sent' = Sent /\ Queued' = Queued
      BY <2>4 DEF Start, chanVars, Sent, Queued, Elements
    <3>2. holds[e] \in Callbacks /\ holds[e] \in Sent \ Queued /\ holds[e] \notin Started
      BY <2>4 DEF Start, InHands
    <3>3. Started' = Started \cup {holds[e]} /\ NoRepeat(started')
      BY <2>0, <2>4, <3>2, ElementsAppend DEF Start, Executed
    <3>4. InHands'
      BY <2>4, <3>1, <3>2, <3>3 DEF Start, InHands
    <3>5. QED
      BY <3>1, <3>2, <3>3, <3>4 DEF InChannel, Executed, NoRepeat
  <2>5. ASSUME NEW e \in Executors, Finish(e) PROVE SInv'
    <3>1. /\ UNCHANGED <<queue, order, enq, started>>
          /\ Sent' = Sent /\ Queued' = Queued /\ Started' = Started
      BY <2>5 DEF Finish, chanVars, Sent, Queued, Elements, Started
    <3>2. InHands'
      BY <2>5, <3>1 DEF Finish, InHands
    <3>3. QED
      BY <3>1, <3>2 DEF InChannel, Executed, NoRepeat
  <2>6. ASSUME NEW c \in Closers, CompareAndSwap(c) \/ CloseDone(c) \/ ReceiveAlive(c)
                                   \/ DrainEmpty(c) \/ TimedOut(c) \/ Expire(c)
        PROVE  UNCHANGED <<queue, order, enq, holds, calling, started>>
    BY <2>6 DEF CompareAndSwap, CloseDone, ReceiveAlive, DrainEmpty, TimedOut, Expire,
                chanVars, execVars
  <2>7. ASSUME NEW w \in Workers, Exit(w)
        PROVE  UNCHANGED <<queue, order, enq, holds, calling, started>>
    BY <2>7 DEF Exit, chanVars, execVars
  <2>8. ASSUME UNCHANGED <<queue, order, enq, holds, calling, started>> PROVE SInv'
    <3>1. Sent' = Sent /\ Started' = Started /\ Queued' = Queued
      BY <2>0, <2>8
    <3>2. QED
      BY <2>8, <3>1 DEF InChannel, InHands, Executed, NoRepeat
  <2>9. CASE UNCHANGED vars
    BY <2>8, <2>9 DEF vars
  <2>10. CASE \E w \in Workers : Worker(w)
    BY <2>3, <2>4, <2>5, <2>7, <2>8, <2>10 DEF Worker, WorkerReceive, Exec, Executors
  <2>11. CASE \E c \in Closers : Closer(c)
    BY <2>3, <2>4, <2>5, <2>6, <2>8, <2>11 DEF Closer, DrainReceive, Exec, Executors
  <2>12. QED
    BY <2>1, <2>2, <2>9, <2>10, <2>11 DEF Next
<1>3. QED BY <1>1, <1>2, TypeCorrect, PTL DEF Spec

\* A callback is executed at most once and only after it was sent, whichever
\* worker or drain takes it (callbackqueue.go:73-83, 103-116).
THEOREM ExecutedAtMostOnce == Spec => []AtMostOnce
<1>1. SInv => AtMostOnce
  BY DEF SInv, Executed, NoRepeat, AtMostOnce
<1>2. QED BY <1>1, SInvInductive, PTL

-----------------------------------------------------------------------------
(* What was sent is in the channel, in somebody's hands or finished.       *)

Conserved ==
    /\ \A f \in Sent : f \in Queued \/ f \in finished \/ \E e \in Executors : holds[e] = f
    /\ promised \subseteq Sent
    /\ \A c \in Closers : close[c] = "true" => promised \subseteq finished

LEMMA ConservedInductive == Spec => []Conserved
<1> USE NoCallbackAssumption, QueueSizeAssumption
<1>1. Init => Conserved
  BY DEF Init, Conserved, Sent
<1>2. ASSUME TypeOK, QInv, SInv, Conserved, [Next]_vars PROVE Conserved'
  <2> USE <1>2 DEF TypeOK
  <2>0. /\ Sent = Elements(order) /\ Queued = Elements(queue)
        /\ Sent' = Elements(order') /\ Queued' = Elements(queue')
    BY DEF Sent, Queued, Elements
  <2>1. ASSUME NEW f \in Callbacks, Send(f) PROVE Conserved'
    <3>1. Sent' = Sent \cup {f} /\ Queued' = Queued \cup {f}
      BY <2>0, <2>1, ElementsAppend DEF Send
    <3>2. QED
      BY <2>1, <3>1 DEF Send, execVars, closeVars, Conserved
  <2>2. ASSUME NEW e \in Executors, Receive(e) PROVE Conserved'
    <3>1. Queued = Queued' \cup {Head(queue)} /\ Sent' = Sent
      BY <2>0, <2>2, ElementsTail DEF Receive
    <3>2. UNCHANGED <<promised, finished, close>>
      BY <2>2 DEF Receive, closeVars
    <3>3. ASSUME NEW f \in Sent
          PROVE  f \in Queued' \/ f \in finished \/ \E d \in Executors : holds'[d] = f
      <4>1. CASE f = Head(queue)
        BY <2>2, <4>1 DEF Receive
      <4>2. CASE \E d \in Executors : holds[d] = f /\ f # Head(queue)
        <5>1. PICK d \in Executors : holds[d] = f
          BY <4>2
        <5>2. d # e
          BY <2>2, <5>1, <2>0 DEF Receive, SInv, InChannel, Elements, Sent
        <5>3. QED BY <2>2, <5>1, <5>2 DEF Receive
      <4>3. CASE f \in Queued \/ f \in finished
        BY <3>1, <4>1, <4>3
      <4>4. QED BY <4>1, <4>2, <4>3 DEF Conserved
    <3>4. QED BY <3>1, <3>2, <3>3 DEF Conserved
  <2>3. ASSUME NEW e \in Executors, Finish(e) PROVE Conserved'
    <3>1. Sent' = Sent /\ Queued' = Queued /\ UNCHANGED <<promised, close>>
      BY <2>0, <2>3 DEF Finish, chanVars, closeVars
    <3>2. QED
      BY <2>3, <3>1 DEF Finish, Conserved
  <2>4. ASSUME NEW c \in Closers, DrainEmpty(c) PROVE Conserved'
    <3>1. UNCHANGED <<holds, finished, promised>> /\ Sent' = Sent /\ Queued' = Queued
      BY <2>0, <2>4 DEF DrainEmpty, chanVars, execVars
    <3>2. exited = Workers
      BY <2>4, QInvQuiescent DEF DrainEmpty, PoolQuiescent
    <3>3. ASSUME NEW e \in Executors PROVE holds[e] = NoCallback
      <4>1. CASE e \in Workers
        BY <3>2, <4>1 DEF QInv, HandsEmpty
      <4>2. CASE e = c
        BY <2>4, <4>2 DEF DrainEmpty
      <4>3. CASE e \in Closers \ {c}
        BY <2>4, <4>3 DEF DrainEmpty, QInv, HandsEmpty, OneWinner, Winner
      <4>4. QED BY <4>1, <4>2, <4>3 DEF Executors
    <3>4. Queued = {}
      BY <2>0, <2>4 DEF DrainEmpty, Elements
    <3>5. Sent \subseteq finished
      <4>1. ASSUME NEW f \in Sent PROVE f \in finished
        <5>1. f \in Callbacks
          BY <2>0 DEF Elements
        <5>2. QED BY <3>3, <3>4, <5>1 DEF Conserved
      <4>2. QED BY <4>1
    <3>6. QED
      BY <3>1, <3>5 DEF Conserved
  <2>5. ASSUME NEW c \in Closers, CompareAndSwap(c) PROVE Conserved'
    <3>1. UNCHANGED <<holds, finished>> /\ Sent' = Sent /\ Queued' = Queued
      BY <2>0, <2>5 DEF CompareAndSwap, chanVars, execVars
    <3>2. CASE idone
      BY <2>5, <3>1, <3>2 DEF CompareAndSwap, Conserved
    <3>3. CASE ~idone
      BY <2>5, <3>1, <3>3 DEF CompareAndSwap, Conserved, QInv, OneWinner, Winner
    <3>4. QED BY <3>2, <3>3
  <2>6. ASSUME UNCHANGED <<queue, order, holds, finished, promised>>,
               \A c \in Closers : close'[c] = "true" => close[c] = "true"
        PROVE  Conserved'
    <3>1. Sent' = Sent /\ Queued' = Queued
      BY <2>0, <2>6
    <3>2. QED BY <2>6, <3>1 DEF Conserved
  <2>7. ASSUME NEW f \in Callbacks, LoadIdone(f) PROVE Conserved'
    BY <2>6, <2>7 DEF LoadIdone, execVars, closeVars
  <2>8. ASSUME NEW e \in Executors, Start(e) PROVE Conserved'
    BY <2>6, <2>8 DEF Start, chanVars, closeVars
  <2>9. ASSUME NEW w \in Workers, Exit(w) PROVE Conserved'
    BY <2>6, <2>9 DEF Exit, chanVars, execVars, closeVars
  <2>10. ASSUME NEW c \in Closers,
                CloseDone(c) \/ ReceiveAlive(c) \/ TimedOut(c) \/ Expire(c)
         PROVE  Conserved'
    BY <2>6, <2>10 DEF CloseDone, ReceiveAlive, TimedOut, Expire, AfterWait, chanVars, execVars
  <2>11. CASE UNCHANGED vars
    BY <2>6, <2>11 DEF vars
  <2>12. CASE \E w \in Workers : Worker(w)
    BY <2>2, <2>3, <2>8, <2>9, <2>12 DEF Worker, WorkerReceive, Exec, Executors
  <2>13. CASE \E c \in Closers : Closer(c)
    BY <2>2, <2>3, <2>4, <2>5, <2>8, <2>10, <2>13 DEF Closer, DrainReceive, Exec, Executors
  <2>14. QED
    BY <2>1, <2>7, <2>11, <2>12, <2>13 DEF Next
<1>3. QED BY <1>1, <1>2, TypeCorrect, QInvInductive, SInvInductive, PTL DEF Spec

\* When the Shutdown that won the swap returns true, every callback sent before
\* it won has been executed to its end (callbackqueue.go:50-84).
THEOREM DrainedOnShutdown == Spec => []ShutdownDrains
<1>1. Conserved => ShutdownDrains
  BY DEF Conserved, ShutdownDrains
<1>2. QED BY <1>1, ConservedInductive, PTL

-----------------------------------------------------------------------------
(* Order.  The channel holds the last callbacks that were sent, in the     *)
(* order they were sent; who left it has begun or is in somebody's hands.  *)

Received == Len(order) - Len(queue)

LastSent ==
    /\ Len(queue) <= Len(order)
    /\ \A i \in 1..Len(queue) : queue[i] = order[Received + i]
    /\ NoRepeat(order)

UnderWay == \A f \in Sent : f \in Queued \/ f \in Started \/ \E e \in Executors : holds[e] = f

OInv == LastSent /\ UnderWay

LEMMA LastSentKept ==
  ASSUME TypeOK, InChannel, LastSent, [Next]_vars
  PROVE  LastSent'
<1> USE DEF TypeOK
<1>1. ASSUME NEW f \in Callbacks, Send(f) PROVE LastSent'
  <2>1. f \notin Elements(order)
    BY <1>1 DEF Send, InChannel, Sent, Elements
  <2>2. NoRepeat(order')
    BY <1>1, <2>1, ElementsAppend DEF Send, LastSent
  <2>3. /\ Len(queue') = Len(queue) + 1 /\ Len(order') = Len(order) + 1
        /\ \A i \in 1..Len(queue) : queue'[i] = queue[i]
        /\ \A i \in 1..Len(order) : order'[i] = order[i]
        /\ queue'[Len(queue) + 1] = f /\ order'[Len(order) + 1] = f
        /\ Len(queue) \in Nat /\ Len(order) \in Nat
    BY <1>1 DEF Send
  <2>4. Len(queue) <= Len(order) /\ \A i \in 1..Len(queue) : queue[i] = order[Received + i]
    BY DEF LastSent
  <2>5. Received' = Received /\ Received \in Nat
    BY <2>3, <2>4 DEF Received
  <2>6. ASSUME NEW i \in 1..Len(queue') PROVE queue'[i] = order'[Received' + i]
    <3>1. CASE i \in 1..Len(queue)
      <4>1. Received + i \in 1..Len(order)
        BY <2>3, <2>4, <3>1 DEF Received
      <4>2. QED BY <2>3, <2>4, <2>5, <3>1, <4>1
    <3>2. CASE i = Len(queue) + 1
      BY <2>3, <2>4, <2>5, <3>2 DEF Received
    <3>3. QED BY <2>3, <2>6, <3>1, <3>2
  <2>7. QED BY <2>2, <2>3, <2>4, <2>6 DEF LastSent
<1>2. ASSUME NEW e \in Executors, Receive(e) PROVE LastSent'
  <2>1. /\ Len(queue) \in Nat \ {0} /\ Len(order) \in Nat /\ order' = order
        /\ Len(queue') = Len(queue) - 1
        /\ \A i \in 1..Len(queue) - 1 : queue'[i] = queue[i + 1]
    BY <1>2 DEF Receive
  <2>2. Len(queue) <= Len(order) /\ \A i \in 1..Len(queue) : queue[i] = order[Received + i]
    BY DEF LastSent
  <2>3. Received' = Received + 1 /\ Received \in Nat
    BY <2>1, <2>2 DEF Received
  <2>4. ASSUME NEW i \in 1..Len(queue') PROVE queue'[i] = order'[Received' + i]
    <3>1. i + 1 \in 1..Len(queue) /\ i \in 1..Len(queue) - 1
      BY <2>1, <2>4
    <3>2. queue[i + 1] = order[Received + (i + 1)]
      BY <2>2, <3>1
    <3>3. Received' + i = Received + (i + 1)
      BY <2>3, <2>1, <2>4
    <3>4. QED BY <2>1, <3>1, <3>2, <3>3
  <2>5. QED BY <2>1, <2>2, <2>4 DEF LastSent, NoRepeat
<1>3. ASSUME UNCHANGED <<queue, order>> PROVE LastSent'
  BY <1>3 DEF LastSent, Received, NoRepeat
<1>4. ASSUME NEW e \in Executors, Start(e) \/ Finish(e) PROVE UNCHANGED <<queue, order>>
  BY <1>4 DEF Start, Finish, chanVars
<1>5. ASSUME NEW f \in Callbacks, LoadIdone(f) PROVE UNCHANGED <<queue, order>>
  BY <1>5 DEF LoadIdone
<1>6. ASSUME NEW w \in Workers, Exit(w) PROVE UNCHANGED <<queue, order>>
  BY <1>6 DEF Exit, chanVars
<1>7. ASSUME NEW c \in Closers, CompareAndSwap(c) \/ CloseDone(c) \/ ReceiveAlive(c)
                                 \/ DrainEmpty(c) \/ TimedOut(c) \/ Expire(c)
      PROVE  UNCHANGED <<queue, order>>
  BY <1>7 DEF CompareAndSwap, CloseDone, ReceiveAlive, DrainEmpty, TimedOut, Expire, chanVars
<1>8. CASE UNCHANGED vars
  BY <1>3, <1>8 DEF vars
<1>9. CASE \E w \in Workers : Worker(w)
  BY <1>2, <1>3, <1>4, <1>6, <1>9 DEF Worker, WorkerReceive, Exec, Executors
<1>10. CASE \E c \in Closers : Closer(c)
  BY <1>2, <1>3, <1>4, <1>7, <1>10 DEF Closer, DrainReceive, Exec, Executors
<1>11. QED
  BY <1>1, <1>3, <1>5, <1>8, <1>9, <1>10 DEF Next

LEMMA UnderWayKept ==
  ASSUME TypeOK, SInv, UnderWay, [Next]_vars
  PROVE  UnderWay'
<1> USE NoCallbackAssumption, QueueSizeAssumption DEF TypeOK
<1>0. /\ Sent = Elements(order) /\ Started = Elements(started) /\ Queued = Elements(queue)
      /\ Sent' = Elements(order') /\ Started' = Elements(started') /\ Queued' = Elements(queue')
  BY DEF Sent, Started, Queued, Elements
<1>1. ASSUME NEW f \in Callbacks, Send(f) PROVE UnderWay'
  <2>1. Sent' = Sent \cup {f} /\ Queued' = Queued \cup {f}
    BY <1>0, <1>1, ElementsAppend DEF Send
  <2>2. UNCHANGED holds /\ Started' = Started
    BY <1>0, <1>1 DEF Send, execVars
  <2>3. QED BY <2>1, <2>2 DEF UnderWay
<1>2. ASSUME NEW e \in Executors, Receive(e) PROVE UnderWay'
  <2>1. Queued = Queued' \cup {Head(queue)} /\ Sent' = Sent /\ Started' = Started
    BY <1>0, <1>2, ElementsTail DEF Receive
  <2>2. holds'[e] = Head(queue) /\ \A d \in Executors : holds[d] # NoCallback => holds'[d] = holds[d]
    BY <1>2 DEF Receive
  <2>3. \A f \in Sent : f # NoCallback
    BY <1>0 DEF Elements
  <2>4. QED BY <2>1, <2>2, <2>3 DEF UnderWay
<1>3. ASSUME NEW e \in Executors, Start(e) PROVE UnderWay'
  <2>1. holds[e] \in Callbacks /\ UNCHANGED holds /\ Sent' = Sent /\ Queued' = Queued
    BY <1>0, <1>3 DEF Start, chanVars
  <2>2. Started' = Started \cup {holds[e]}
    BY <1>0, <1>3, <2>1, ElementsAppend DEF Start
  <2>3. QED BY <2>1, <2>2 DEF UnderWay
<1>4. ASSUME NEW e \in Executors, Finish(e) PROVE UnderWay'
  <2>1. holds[e] \in Started
    BY <1>4 DEF Finish, SInv, InHands
  <2>2. Sent' = Sent /\ Queued' = Queued /\ Started' = Started
    BY <1>0, <1>4 DEF Finish, chanVars
  <2>3. \A d \in Executors : d # e => holds'[d] = holds[d]
    BY <1>4 DEF Finish
  <2>4. QED BY <2>1, <2>2, <2>3 DEF UnderWay
<1>5. ASSUME UNCHANGED <<queue, order, holds, started>> PROVE UnderWay'
  BY <1>0, <1>5 DEF UnderWay
<1>6. ASSUME NEW f \in Callbacks, LoadIdone(f) PROVE UNCHANGED <<queue, order, holds, started>>
  BY <1>6 DEF LoadIdone, execVars
<1>7. ASSUME NEW w \in Workers, Exit(w) PROVE UNCHANGED <<queue, order, holds, started>>
  BY <1>7 DEF Exit, chanVars, execVars
<1>8. ASSUME NEW c \in Closers, CompareAndSwap(c) \/ CloseDone(c) \/ ReceiveAlive(c)
                                 \/ DrainEmpty(c) \/ TimedOut(c) \/ Expire(c)
      PROVE  UNCHANGED <<queue, order, holds, started>>
  BY <1>8 DEF CompareAndSwap, CloseDone, ReceiveAlive, DrainEmpty, TimedOut, Expire,
              chanVars, execVars
<1>9. CASE UNCHANGED vars
  BY <1>5, <1>9 DEF vars
<1>10. CASE \E w \in Workers : Worker(w)
  BY <1>2, <1>3, <1>4, <1>5, <1>7, <1>10 DEF Worker, WorkerReceive, Exec, Executors
<1>11. CASE \E c \in Closers : Closer(c)
  BY <1>2, <1>3, <1>4, <1>5, <1>8, <1>11 DEF Closer, DrainReceive, Exec, Executors
<1>12. QED
  BY <1>1, <1>5, <1>6, <1>9, <1>10, <1>11 DEF Next

LEMMA OvertakenHeld == TypeOK /\ SInv /\ OInv => OvertakenIsHeld
<1> SUFFICES ASSUME TypeOK, SInv, OInv,
                    NEW i \in DOMAIN order, NEW j \in DOMAIN order,
                    i < j, order[j] \in Started, order[i] \notin Started
             PROVE  \E e \in Executors : holds[e] = order[i]
  BY DEF OvertakenIsHeld
<1>1. Len(queue) \in Nat /\ Len(order) \in Nat /\ DOMAIN order = 1..Len(order)
  BY DEF TypeOK
<1>2. /\ Len(queue) <= Len(order) /\ NoRepeat(order)
      /\ \A k \in 1..Len(queue) : queue[k] = order[Received + k]
  BY DEF OInv, LastSent
<1>3. j <= Received
  <2> SUFFICES ASSUME j > Received PROVE FALSE
    BY <1>1 DEF Received
  <2>1. j - Received \in 1..Len(queue) /\ Received + (j - Received) = j
    BY <1>1, <1>2 DEF Received
  <2>2. queue[j - Received] = order[j]
    BY <1>2, <2>1
  <2>3. order[j] \in Queued
    BY <2>1, <2>2 DEF Queued, Elements
  <2>4. QED BY <2>3 DEF SInv, InChannel
<1>4. order[i] \notin Queued
  <2> SUFFICES ASSUME NEW k \in 1..Len(queue), queue[k] = order[i] PROVE FALSE
    BY DEF Queued, Elements
  <2>1. Received + k \in 1..Len(order) /\ Received + k # i
    BY <1>1, <1>2, <1>3 DEF Received
  <2>2. QED BY <1>1, <1>2, <2>1 DEF NoRepeat
<1>5. order[i] \in Sent
  BY <1>1 DEF Sent
<1>6. QED BY <1>4, <1>5 DEF OInv, UnderWay

\* A callback overtaken by a later one is in the hands of another executor: the
\* pool receives in the order of Enqueue (callbackqueue.go:16-18, 97-116), for
\* any number of workers, senders and shutdowns.
THEOREM ReceivedInOrder == Spec => []OvertakenIsHeld
<1>1. Init => OInv
  BY DEF Init, OInv, LastSent, UnderWay, Sent, NoRepeat, Received
<1>2. TypeOK /\ SInv /\ OInv /\ [Next]_vars => OInv'
  BY LastSentKept, UnderWayKept DEF OInv, SInv
<1>3. QED BY <1>1, <1>2, TypeCorrect, SInvInductive, OvertakenHeld, PTL DEF Spec

-----------------------------------------------------------------------------
(* What is true of the pages, part by part.                                *)

\* Who is logged in: the client does not know until the user was fetched, and knows of
\* nobody only when there is no session; nor is there one where nobody goes on or may go
\* back to.  A login is asked for without a session.
ForNobody(u) == u.page \in {"login", "register"} \/ (u.page = "error" /\ u.id = "not-logged-in")
NobodyGoesOn == ForNobody(url) \/ ForNobody(previous) \/ store.error = "not-logged-in"
MeKnown ==
    /\ store.me <=> store.loggedIn = "yes"
    /\ store.loggedIn = "unknown" => \E r \in requests : r.kind = "me"
    /\ store.loggedIn = "no" => ~server.session
    /\ NobodyGoesOn /\ store.loggedIn = "unknown" => ~server.session
    /\ \A r \in requests : r.kind = "login" => ~server.session /\ store.loggedIn # "yes"

\* A shared board is opened by its address alone: the pages that lead to each other and
\* the shared ones are apart.
OnShared == previous.page = "shared"
SharedPage == url.page = "shared" \/ (url.page = "error" /\ url.id = "invalid-read-only-board")
SharedApart ==
    /\ url.page = "shared" => OnShared /\ url.board # None
    /\ OnShared => /\ SharedPage /\ previous.board # None
                   /\ \A r \in requests : r.kind \in {"me", "shared"}
                   /\ returning = None /\ dialog = None /\ store.error \in {None, "invalid-read-only-board"}
    /\ \A r \in requests : r.kind = "shared" => OnShared

\* An address of a board or of the login page is pushed late: it meets no error, no board in
\* front of which the page was not rendered, and a rendered board with its view.
ReturnsWell ==
    returning # None =>
        /\ returning.page \in {"board", "login"} /\ store.error = None /\ store.loggedIn # "unknown"
        /\ IF seen = None THEN url.page \notin {"board", "shared"} \/ url.board = None
           ELSE seen.board # None => store.view = seen.view

\* The board that was rendered is the current one, and its view, or the view it was
\* redirected to.
CurrentIsRendered ==
    seen # None /\ seen.board # None =>
        /\ store.current = seen.board
        /\ \/ store.view = seen.view
           \/ Rendering = None
           \/ seen.view = None /\ store.view # None /\ url.view = store.view

\* A board with views is not left without one: the address gets a view.
WantsView(s) == s.dialog = None /\ s.board # None /\ s.view = None /\ s.current = s.board /\ s.views # 0
ViewWasPicked == seen # None /\ WantsView(seen) => returning = None /\ (OnBoardPage => url.view # None)

\* The page of a board as the server's user sees it.
Live == seen # None /\ seen.page = "board" /\ seen.me /\ server.session

\* The store has the boards there are for the user, or they are asked for.
BoardsAreKnown ==
    Live => \/ \E r \in requests : r.kind = "initial"
            \/ /\ \A b \in Boards : MayRead(b) => b \in store.boards
               /\ store.boards \subseteq server.boards \cap (server.mine \cup server.open)

\* The store has the views of the rendered board, or they are asked for.
ViewsAreKnown ==
    Live /\ seen.board # None =>
        \/ stale
        \/ \E r \in requests : r.kind \in {"blocks", "joined"} /\ r.board = seen.board
        \/ MayRead(seen.board) => ViewsOf(seen.board) \cap server.views \subseteq store.views

\* A board that is lost is forgotten.
ForLost(u) == u.page = "error" /\ u.id = "board-not-found"
LostIsForgotten ==
    /\ store.error = "board-not-found" => settings.board = None
    /\ ForLost(url) => url.board = None
    /\ ForLost(previous) => previous.board = None
    /\ ForLost(url) /\ previous # url /\ ~stale => settings.board = None

NavInv == /\ NavTypeOK /\ MeKnown /\ SharedApart /\ ReturnsWell /\ CurrentIsRendered /\ ViewWasPicked
          /\ BoardsAreKnown /\ ViewsAreKnown /\ LostIsForgotten
-----------------------------------------------------------------------------
(* Addresses, renderings and requests.                                     *)

LEMMA AddressIs ==
    ASSUME NEW b \in BoardOrNone, NEW v \in ViewOrNone
    PROVE  /\ Address(b, v) \in Urls
           /\ Address(b, v).page = "board" /\ Address(b, v).board = b /\ Address(b, v).view = v /\ Address(b, v).id = None
BY DEF Address, Urls, Pages

LEMMA HomeIs == Home \in Urls /\ Home.page = "board" /\ Home.board = None /\ Home.view = None
BY AddressIs DEF Home, BoardOrNone, ViewOrNone

LEMMA LoginIs ==
    ASSUME NEW u \in Urls
    PROVE  LoginPage(u) \in Urls /\ LoginPage(u).page = "login" /\ LoginPage(u).board = u.board /\ LoginPage(u).view = u.view
BY DEF LoginPage, Urls, Pages

LEMMA ErrorIs ==
    ASSUME NEW u \in Urls, NEW id \in ErrorIds
    PROVE  ErrorPage(id, u) \in Urls /\ ErrorPage(id, u).page = "error" /\ ErrorPage(id, u).id = id /\ ErrorPage(id, u).board = u.board
BY DEF ErrorPage, Urls, Pages

LEMMA UrlIs ==
    ASSUME NEW u \in Urls
    PROVE  /\ u.page \in Pages /\ u.board \in BoardOrNone /\ u.view \in ViewOrNone
           /\ \A b \in BoardOrNone : [u EXCEPT !.board = b] \in Urls /\ [u EXCEPT !.board = b].page = u.page
                                     /\ [u EXCEPT !.board = b].board = b /\ [u EXCEPT !.board = b].view = u.view
                                     /\ [u EXCEPT !.board = b].id = u.id
           /\ \A v \in ViewOrNone : [u EXCEPT !.view = v] \in Urls /\ [u EXCEPT !.view = v].page = u.page
                                    /\ [u EXCEPT !.view = v].board = u.board /\ [u EXCEPT !.view = v].view = v
                                    /\ [u EXCEPT !.view = v].id = u.id
BY DEF Urls

LEMMA RenderingIs ==
    ASSUME NavTypeOK
    PROVE  IF OnBoardPage
           THEN /\ Rendering \in Renderings /\ Rendering # None
                /\ Rendering.page = url.page /\ Rendering.board = url.board /\ Rendering.view = url.view
                /\ Rendering.me = store.me /\ Rendering.current = store.current /\ Rendering.dialog = dialog
                /\ Rendering.views = Cardinality(CurrentViews) /\ Rendering.listed = (store.listed # None)
           ELSE Rendering = None
<1>1. CASE OnBoardPage
  <2>1. CurrentViews \subseteq Views
    BY DEF NavTypeOK, Stores, CurrentViews
  <2>2. Cardinality(CurrentViews) \in Nat
    BY <2>1, NavigationAssumption, FS_Subset, FS_CardinalityType
  <2>3. url.page \in {"board", "shared"} /\ url.board \in BoardOrNone /\ url.view \in ViewOrNone
    BY <1>1 DEF OnBoardPage, NavTypeOK, Urls
  <2>4. store.me \in BOOLEAN /\ store.current \in BoardOrNone /\ dialog \in {None, "join"}
    BY DEF NavTypeOK, Stores
  <2>5. Rendering = [board |-> url.board, view |-> url.view, page |-> url.page,
                     me |-> store.me, current |-> store.current,
                     views |-> Cardinality(CurrentViews), listed |-> store.listed # None,
                     dialog |-> dialog]
    BY <1>1 DEF Rendering
  <2> DEFINE c == Cardinality(CurrentViews)
             l == store.listed # None
  <2> HIDE DEF c, l
  <2>6. l \in BOOLEAN
    BY DEF l
  <2>7. Rendering = [board |-> url.board, view |-> url.view, page |-> url.page, me |-> store.me,
                     current |-> store.current, views |-> c, listed |-> l, dialog |-> dialog]
    BY <2>5 DEF c, l
  <2>8. Rendering \in Renderings
    BY <2>2, <2>3, <2>4, <2>6, <2>7 DEF Renderings, c
  <2>9. Rendering # None
    BY <2>8, NoneAssumption
  <2>10. /\ Rendering.page = url.page /\ Rendering.board = url.board /\ Rendering.view = url.view
         /\ Rendering.me = store.me /\ Rendering.current = store.current /\ Rendering.dialog = dialog
         /\ Rendering.views = c /\ Rendering.listed = l
    BY <2>7
  <2>11. QED BY <1>1, <2>8, <2>9, <2>10 DEF c, l
<1>2. CASE ~OnBoardPage
  BY <1>2 DEF Rendering
<1>3. QED BY <1>1, <1>2

LEMMA RequestIs ==
    ASSUME NEW r \in Requests
    PROVE  /\ r.kind \in {"me", "login", "logout", "initial", "join", "adminjoin", "blocks", "joined", "shared"}
           /\ r.kind \in Kept => r.board \in Boards
           /\ r.kind \in {"join", "adminjoin"} => r.board \in BoardOrNone
           /\ r.kind \in Kept /\ r.answer # None => r.answer.ok \in BOOLEAN /\ r.answer.views \in SUBSET Views
           /\ r.kind \notin Kept => r.answer = None
BY DEF Requests, Kept

LEMMA AskIs ==
    ASSUME NEW b, NEW kind, \/ kind \in {"me", "login", "logout", "initial"} /\ b = None
                            \/ kind \in {"join", "adminjoin"} /\ b \in BoardOrNone
                            \/ kind \in Kept /\ b \in Boards
    PROVE  Ask(kind, b) \in Requests /\ Ask(kind, b).kind = kind /\ Ask(kind, b).board = b
BY DEF Ask, Requests, Kept

\* A page that rests was rendered as it is.
LEMMA CalmIs ==
    ASSUME NavInv, Calm
    PROVE  /\ store.error = None /\ ~Guarded
           /\ url.page = "error" => url.id # "not-logged-in"
           /\ url.page \in {"login", "register"} => store.loggedIn # "yes"
           /\ IF url.page \in {"board", "shared"}
              THEN /\ seen # None /\ seen.page = url.page /\ seen.board = url.board /\ seen.view = url.view
                   /\ seen.me = store.me /\ seen.dialog = dialog
                   /\ seen.current = store.current /\ seen.views = Cardinality(CurrentViews)
                   /\ seen.board # None => store.current = seen.board /\ store.view = seen.view
                   /\ ~WantsView(seen)
              ELSE seen = None
<1>1. seen = Rendering /\ store.error = None /\ ~Guarded /\ (url.page = "error" => url.id # "not-logged-in")
      /\ (url.page \in {"login", "register"} => store.loggedIn # "yes")
  BY DEF Calm, Rendered
<1>2. OnBoardPage <=> url.page \in {"board", "shared"}
  BY <1>1 DEF OnBoardPage
<1>3. CASE OnBoardPage
  <2>1. /\ Rendering # None
        /\ Rendering.page = url.page /\ Rendering.board = url.board /\ Rendering.view = url.view
        /\ Rendering.me = store.me /\ Rendering.current = store.current /\ Rendering.dialog = dialog
        /\ Rendering.views = Cardinality(CurrentViews)
    BY <1>3, RenderingIs DEF NavInv
  <2>2. ~WantsView(seen)
    BY <1>1, <1>3, <2>1 DEF NavInv, ViewWasPicked, WantsView
  <2>3. seen.board # None => store.current = seen.board /\ store.view = seen.view
    BY <1>1, <2>1 DEF NavInv, CurrentIsRendered
  <2>4. QED BY <1>1, <1>2, <1>3, <2>1, <2>2, <2>3
<1>4. CASE ~OnBoardPage
  <2>1. Rendering = None
    BY <1>4, RenderingIs DEF NavInv
  <2>2. QED BY <1>1, <1>2, <1>4, <2>1
<1>5. QED BY <1>3, <1>4

-----------------------------------------------------------------------------
(* Types.                                                                  *)

LEMMA AnswersAre ==
    ASSUME NavTypeOK
    PROVE  /\ GetMe \in BOOLEAN /\ GetTeam \in BOOLEAN /\ GetBoards \in SUBSET Boards /\ GetSidebarCategories \in SUBSET Boards
           /\ \A r \in Requests : Answer(r) \in [ok : BOOLEAN, views : SUBSET Views]
<1>1. server.session \in BOOLEAN /\ server.boards \subseteq Boards /\ server.mine \subseteq Boards /\ server.open \subseteq Boards
      /\ server.views \subseteq Views /\ server.published \subseteq Boards
  BY DEF NavTypeOK, Servers
<1>2. GetMe \in BOOLEAN /\ GetTeam \in BOOLEAN /\ GetBoards \in SUBSET Boards /\ GetSidebarCategories \in SUBSET Boards
  BY <1>1 DEF GetMe, GetTeam, GetBoards, GetSidebarCategories
<1>3. ASSUME NEW b, NEW c \in BOOLEAN PROVE GetAllBlocks(b, c) \in SUBSET Views
  BY <1>1 DEF GetAllBlocks, ViewsOf
<1>4. ASSUME NEW r \in Requests PROVE Answer(r) \in [ok : BOOLEAN, views : SUBSET Views]
  <2>1. /\ GetBoard(r.board) \in BOOLEAN /\ (server.session /\ MayRead(r.board)) \in BOOLEAN
        /\ (Published(r.board) \/ (server.session /\ MayRead(r.board))) \in BOOLEAN
    BY <1>1 DEF GetBoard, Published, MayRead
  <2>2. /\ GetAllBlocks(r.board, Published(r.board) \/ (server.session /\ MayRead(r.board))) \in SUBSET Views
        /\ GetAllBlocks(r.board, server.session /\ MayRead(r.board)) \in SUBSET Views
    BY <1>3, <2>1
  <2>3. QED BY <1>1, <2>1, <2>2 DEF Answer
<1>5. QED BY <1>2, <1>4

LEMMA BoardSetIs ==
    ASSUME NavTypeOK, NEW b \in BoardOrNone
    PROVE  /\ LastBoardSet(settings, b) \in [board : BoardOrNone, view : [Boards -> ViewOrNone]]
           /\ LastBoardSet(settings, b).board = b
BY DEF LastBoardSet, NavTypeOK

LEMMA ViewSetIs ==
    ASSUME NEW s \in [board : BoardOrNone, view : [Boards -> ViewOrNone]], NEW b, NEW v \in ViewOrNone
    PROVE  /\ LastViewSet(s, b, v) \in [board : BoardOrNone, view : [Boards -> ViewOrNone]]
           /\ LastViewSet(s, b, v).board = s.board
<1>1. LastViewSet(s, b, v) = [s EXCEPT !.view = [s.view EXCEPT ![b] = v]]
  BY DEF LastViewSet
<1>2. [s.view EXCEPT ![b] = v] \in [Boards -> ViewOrNone]
  OBVIOUS
<1>3. QED BY <1>1, <1>2

\* The addresses of a redirect are of the same page, with another board or view.
LEMMA RedirectsAre ==
    ASSUME NavTypeOK, NEW to \in Redirects
    PROVE  /\ to \in Urls /\ to.page = url.page /\ to.id = url.id
           /\ to = url \/ (url.board = None /\ to.view = url.view) \/ (url.view = None /\ to.board = url.board /\ to.view # None)
           /\ url.board # None /\ url.view = None /\ store.current = url.board /\ CurrentViews # {} => to.view # None
<1>1. url \in Urls /\ settings.board \in BoardOrNone /\ settings.view \in [Boards -> ViewOrNone] /\ store.boards \subseteq Boards
      /\ store.views \subseteq Views /\ url.board \in BoardOrNone
  BY DEF NavTypeOK, Stores, Urls
<1>2. FirstBoards \subseteq BoardOrNone
  BY <1>1 DEF FirstBoards, BoardOrNone
<1>3. CASE url.board = None
  <2>1. PICK b \in IF settings.board # None THEN {settings.board} ELSE FirstBoards : to = IF b = None THEN url ELSE [url EXCEPT !.board = b]
    BY <1>3 DEF Redirects
  <2>2. b \in BoardOrNone
    BY <1>1, <1>2, <2>1
  <2>3. QED BY <1>1, <1>3, <2>1, <2>2, UrlIs
<1>4. CASE url.board # None /\ url.view = None /\ store.current = url.board /\ CurrentViews # {}
  <2>1. PICK v \in IF settings.view[url.board] # None THEN {settings.view[url.board]} ELSE CurrentViews : to = [url EXCEPT !.view = v]
    BY <1>4 DEF Redirects
  <2>2. url.board \in Boards
    BY <1>1, <1>4 DEF BoardOrNone
  <2>3. settings.view[url.board] \in ViewOrNone /\ CurrentViews \subseteq Views
    BY <1>1, <2>2 DEF CurrentViews
  <2>4. v \in ViewOrNone /\ v # None
    BY <2>1, <2>3, NoneAssumption DEF ViewOrNone
  <2>5. QED BY <1>1, <1>4, <2>1, <2>4, UrlIs
<1>5. CASE url.board # None /\ ~(url.view = None /\ store.current = url.board /\ CurrentViews # {})
  <2>1. to = url
    BY <1>5 DEF Redirects
  <2>2. QED BY <1>1, <1>5, <2>1
<1>6. QED BY <1>3, <1>4, <1>5

\* Rendering: what it does, with the address it goes to.
LEMMA RenderIs ==
    ASSUME NavTypeOK, SharedApart, Render
    PROVE  \E to \in Urls :
            LET redirect == Changed({"board", "view", "views", "listed", "current", "dialog"}) /\ dialog = None
                load == Changed({"board", "view", "me", "page"})
                open == Changed({"board", "me", "page"}) /\ url.page = "board" /\ url.board # None /\ store.me
                went == redirect /\ to.view # url.view
            IN  /\ IF redirect THEN to \in Redirects ELSE to = url
                /\ url' = to /\ seen' = Rendering /\ seen # Rendering /\ (returning # None => seen = None)
                /\ store' \in Stores /\ store'.me = store.me /\ store'.loggedIn = store.loggedIn /\ store'.error = store.error
                /\ store'.boards = store.boards /\ store'.views = store.views
                /\ store'.current = IF load /\ url.board # None THEN url.board ELSE store.current
                /\ store'.view = IF load /\ url.board # None THEN url.view ELSE IF went THEN to.view ELSE store.view
                /\ settings' \in [board : BoardOrNone, view : [Boards -> ViewOrNone]] /\ settings'.board = settings.board
                /\ requests' = requests
                     \cup (IF load THEN {IF url.page = "shared" THEN Ask("shared", url.board) ELSE Ask("initial", None)} ELSE {})
                     \cup (IF open THEN {Ask("blocks", url.board)} ELSE {})
                /\ dialog' = IF Rendering = None THEN None ELSE dialog
                /\ UNCHANGED <<previous, server, returning, acts, stale>>
<1> DEFINE redirect == Changed({"board", "view", "views", "listed", "current", "dialog"}) /\ dialog = None
           load == Changed({"board", "view", "me", "page"})
           open == Changed({"board", "me", "page"}) /\ url.page = "board" /\ url.board # None /\ store.me
           appears == seen = None /\ Rendering # None /\ url.page = "board"
<1>1. PICK to \in IF redirect THEN Redirects ELSE {url} :
            LET went == redirect /\ to.view # url.view
                remembered == IF went THEN LastViewSet(settings, to.board, to.view)
                              ELSE settings
            IN  /\ url' = to
                /\ settings' = IF load /\ url.board # None /\ url.view # None
                               THEN LastViewSet(remembered, url.board, url.view)
                               ELSE remembered
                /\ store' =
                     [store EXCEPT
                        !.current = IF load /\ url.board # None THEN url.board ELSE @,
                        !.view = IF load /\ url.board # None THEN url.view
                                 ELSE IF went THEN to.view ELSE @,
                        !.loading = @ \/ open,
                        !.listed = IF appears /\ store.team THEN GetSidebarCategories ELSE @]
                /\ requests' = requests
                     \cup (IF load THEN {IF url.page = "shared" THEN Ask("shared", url.board)
                                         ELSE Ask("initial", None)} ELSE {})
                     \cup (IF open THEN {Ask("blocks", url.board)} ELSE {})
  BY DEF Render
<1>2. to \in Urls /\ url \in Urls
  BY RedirectsAre DEF NavTypeOK
<1>3. /\ to.board \in BoardOrNone /\ to.view \in ViewOrNone /\ url.board \in BoardOrNone /\ url.view \in ViewOrNone
  BY <1>2, UrlIs
<1> DEFINE went == redirect /\ to.view # url.view
           remembered == IF went THEN LastViewSet(settings, to.board, to.view) ELSE settings
           S == [board : BoardOrNone, view : [Boards -> ViewOrNone]]
<1>4. remembered \in S /\ remembered.board = settings.board
  <2>1. settings \in S
    BY DEF NavTypeOK
  <2>2. LastViewSet(settings, to.board, to.view) \in S /\ LastViewSet(settings, to.board, to.view).board = settings.board
    BY <1>3, <2>1, ViewSetIs
  <2> HIDE DEF went, S
  <2>3. QED BY <2>1, <2>2
<1>5. settings' \in S /\ settings'.board = settings.board
  <2>1. settings' = IF load /\ url.board # None /\ url.view # None THEN LastViewSet(remembered, url.board, url.view) ELSE remembered
    BY <1>1
  <2> HIDE DEF remembered, load
  <2>2. LastViewSet(remembered, url.board, url.view) \in S /\ LastViewSet(remembered, url.board, url.view).board = remembered.board
    BY <1>3, <1>4, ViewSetIs
  <2> HIDE DEF S
  <2>3. QED BY <1>4, <2>1, <2>2
<1>6. store \in Stores /\ GetSidebarCategories \in SUBSET Boards
  BY AnswersAre DEF NavTypeOK
<1>7. /\ store' \in Stores /\ store'.me = store.me /\ store'.loggedIn = store.loggedIn /\ store'.error = store.error
      /\ store'.boards = store.boards /\ store'.views = store.views
      /\ store'.current = IF load /\ url.board # None THEN url.board ELSE store.current
      /\ store'.view = IF load /\ url.board # None THEN url.view ELSE IF went THEN to.view ELSE store.view
  <2> DEFINE l == store.loading \/ open
             c == IF load /\ url.board # None THEN url.board ELSE store.current
             v == IF load /\ url.board # None THEN url.view ELSE IF went THEN to.view ELSE store.view
             m == IF appears /\ store.team THEN GetSidebarCategories ELSE store.listed
  <2>1. store' = [store EXCEPT !.current = c, !.view = v, !.loading = l, !.listed = m]
    BY <1>1
  <2>2. l \in BOOLEAN /\ c \in BoardOrNone /\ v \in ViewOrNone /\ m \in (SUBSET Boards) \cup {None}
    <3> HIDE DEF load, open, went, appears
    <3>1. store.current \in BoardOrNone /\ store.view \in ViewOrNone /\ store.listed \in (SUBSET Boards) \cup {None}
      BY <1>6 DEF Stores
    <3>2. QED BY <1>3, <1>6, <3>1
  <2> HIDE DEF l, c, v, m
  <2>3. /\ store' \in Stores /\ store'.me = store.me /\ store'.loggedIn = store.loggedIn /\ store'.error = store.error
        /\ store'.boards = store.boards /\ store'.views = store.views /\ store'.current = c /\ store'.view = v
    BY <1>6, <2>1, <2>2 DEF Stores
  <2>4. QED BY <2>3 DEF c, v
<1>8. IF redirect THEN to \in Redirects ELSE to = url
  BY <1>1
<1>9. /\ seen' = Rendering /\ seen # Rendering /\ (returning # None => seen = None)
      /\ dialog' = IF Rendering = None THEN None ELSE dialog
      /\ UNCHANGED <<previous, server, returning, acts, stale>>
  BY DEF Render
<1> HIDE DEF redirect, load, open, went, S, remembered
<1>10. /\ IF redirect THEN to \in Redirects ELSE to = url
       /\ url' = to /\ seen' = Rendering /\ seen # Rendering /\ (returning # None => seen = None)
       /\ store' \in Stores /\ store'.me = store.me /\ store'.loggedIn = store.loggedIn /\ store'.error = store.error
       /\ store'.boards = store.boards /\ store'.views = store.views
       /\ store'.current = IF load /\ url.board # None THEN url.board ELSE store.current
       /\ store'.view = IF load /\ url.board # None THEN url.view ELSE IF went THEN to.view ELSE store.view
       /\ settings' \in S /\ settings'.board = settings.board
       /\ requests' = requests
            \cup (IF load THEN {IF url.page = "shared" THEN Ask("shared", url.board) ELSE Ask("initial", None)} ELSE {})
            \cup (IF open THEN {Ask("blocks", url.board)} ELSE {})
       /\ dialog' = IF Rendering = None THEN None ELSE dialog
       /\ UNCHANGED <<previous, server, returning, acts, stale>>
  BY <1>1, <1>5, <1>7, <1>8, <1>9
<1>11. QED BY <1>2, <1>10 DEF redirect, load, open, went, S

-----------------------------------------------------------------------------
(* Rendering.                                                              *)

LEMMA ChangedIs ==
    ASSUME NEW F, F \subseteq {"page", "board", "view", "me", "current", "views", "listed", "dialog"}
    PROVE  /\ Rendering = None => ~Changed(F)
           /\ Rendering # None /\ ~Changed(F) => seen # None /\ \A f \in F : seen[f] = Rendering[f]
BY DEF Changed

LEMMA RenderKeepsType == ASSUME NavTypeOK, SharedApart, Render PROVE NavTypeOK'
<1>1. PICK to \in Urls : /\ url' = to
                         /\ store' \in Stores
                         /\ settings' \in [board : BoardOrNone, view : [Boards -> ViewOrNone]]
                         /\ \A r \in requests' : \/ r \in requests \/ r = Ask("initial", None)
                                                 \/ r = Ask("shared", url.board) /\ url.page = "shared"
                                                 \/ r = Ask("blocks", url.board) /\ url.board # None
                         /\ dialog' \in {None, dialog} /\ seen' = Rendering
                         /\ UNCHANGED <<previous, server, returning, acts, stale>>
  BY RenderIs
<1>2. Rendering \in Renderings \cup {None}
  BY RenderingIs
<1>3. url.page = "shared" => url.board # None
  BY DEF SharedApart
<1>4. url.board # None => url.board \in Boards
  BY DEF NavTypeOK, Urls, BoardOrNone
<1>5. requests' \subseteq Requests
  <2>1. requests \subseteq Requests
    BY DEF NavTypeOK
  <2>2. Ask("initial", None) \in Requests
    BY AskIs
  <2>3. url.board # None => Ask("shared", url.board) \in Requests /\ Ask("blocks", url.board) \in Requests
    BY <1>4, AskIs DEF Kept
  <2>4. QED BY <1>1, <1>3, <2>1, <2>2, <2>3
<1>6. QED BY <1>1, <1>2, <1>5 DEF NavTypeOK

LEMMA RenderKeeps == ASSUME NavInv, Render PROVE NavInv'
<1> DEFINE redirect == Changed({"board", "view", "views", "listed", "current", "dialog"}) /\ dialog = None
           load == Changed({"board", "view", "me", "page"})
           open == Changed({"board", "me", "page"}) /\ url.page = "board" /\ url.board # None /\ store.me
<1>1. PICK to \in Urls :
                /\ IF redirect THEN to \in Redirects ELSE to = url
                /\ url' = to /\ seen' = Rendering /\ seen # Rendering /\ (returning # None => seen = None)
                /\ store' \in Stores /\ store'.me = store.me /\ store'.loggedIn = store.loggedIn /\ store'.error = store.error
                /\ store'.boards = store.boards /\ store'.views = store.views
                /\ store'.current = IF load /\ url.board # None THEN url.board ELSE store.current
                /\ store'.view = IF load /\ url.board # None THEN url.view
                                 ELSE IF redirect /\ to.view # url.view THEN to.view ELSE store.view
                /\ settings'.board = settings.board
                /\ requests' = requests
                     \cup (IF load THEN {IF url.page = "shared" THEN Ask("shared", url.board) ELSE Ask("initial", None)} ELSE {})
                     \cup (IF open THEN {Ask("blocks", url.board)} ELSE {})
                /\ dialog' = IF Rendering = None THEN None ELSE dialog
                /\ UNCHANGED <<previous, server, returning, acts, stale>>
  BY RenderIs DEF NavInv
<1>2. /\ NavTypeOK /\ SharedApart /\ MeKnown /\ ReturnsWell /\ CurrentIsRendered /\ ViewWasPicked
      /\ BoardsAreKnown /\ ViewsAreKnown /\ LostIsForgotten
  BY DEF NavInv
<1>3. NavTypeOK'
  BY <1>2, RenderKeepsType
<1>4. CASE ~OnBoardPage
  <2>1. Rendering = None
    BY <1>2, <1>4, RenderingIs
  <2>2. ~redirect /\ ~load /\ ~open
    BY <2>1, ChangedIs
  <2> HIDE DEF redirect, load, open
  <2>3. /\ url' = url /\ seen' = None /\ requests' = requests /\ dialog' = None /\ returning' = returning /\ returning = None
        /\ server' = server /\ previous' = previous /\ stale' = stale
    BY <1>1, <2>1, <2>2
  <2>4. MeKnown'
    BY <1>1, <1>2, <2>3 DEF MeKnown, NobodyGoesOn, ForNobody
  <2>5. SharedApart'
    BY <1>1, <1>2, <2>3 DEF SharedApart, OnShared, SharedPage
  <2>6. ReturnsWell' /\ CurrentIsRendered' /\ ViewWasPicked' /\ BoardsAreKnown' /\ ViewsAreKnown'
    BY <2>3 DEF ReturnsWell, CurrentIsRendered, ViewWasPicked, BoardsAreKnown, ViewsAreKnown, Live
  <2>7. LostIsForgotten'
    BY <1>1, <1>2, <2>3 DEF LostIsForgotten, ForLost
  <2>8. QED BY <1>3, <2>4, <2>5, <2>6, <2>7 DEF NavInv
<1>5. CASE OnBoardPage
  <2>1. /\ Rendering # None
        /\ Rendering.page = url.page /\ Rendering.board = url.board /\ Rendering.view = url.view
        /\ Rendering.me = store.me /\ Rendering.current = store.current /\ Rendering.dialog = dialog
        /\ Rendering.views = Cardinality(CurrentViews)
    BY <1>2, <1>5, RenderingIs
  <2>2. ~load => /\ seen # None /\ seen.page = Rendering.page /\ seen.board = Rendering.board
                 /\ seen.view = Rendering.view /\ seen.me = Rendering.me
    BY <2>1, ChangedIs
  <2>3. ~Changed({"board", "me", "page"}) => /\ seen # None /\ seen.page = Rendering.page /\ seen.board = Rendering.board
                                             /\ seen.me = Rendering.me
    BY <2>1, ChangedIs
  <2>4. dialog = None /\ ~redirect =>
           /\ seen # None /\ seen.board = Rendering.board /\ seen.view = Rendering.view /\ seen.views = Rendering.views
           /\ seen.current = Rendering.current /\ seen.dialog = Rendering.dialog
    BY <2>1, ChangedIs
  <2>5. url.page \in {"board", "shared"}
    BY <1>5 DEF OnBoardPage
  <2>6. /\ to.page = url.page /\ to.id = url.id
        /\ to = url \/ (url.board = None /\ to.view = url.view) \/ (url.view = None /\ to.board = url.board /\ to.view # None)
        /\ redirect /\ url.board # None /\ url.view = None /\ store.current = url.board /\ CurrentViews # {} => to.view # None
    <3> HIDE DEF redirect
    <3>1. CASE redirect
      BY <1>1, <1>2, <3>1, RedirectsAre
    <3>2. CASE ~redirect
      BY <1>1, <3>2
    <3>3. QED BY <3>1, <3>2
  <2>7. open <=> Changed({"board", "me", "page"}) /\ url.page = "board" /\ url.board # None /\ store.me
    OBVIOUS
  <2> HIDE DEF redirect, load, open
  <2>8. /\ \A r \in requests : r \in requests'
        /\ \A r \in requests' : \/ r \in requests
                                \/ r.kind = "initial" /\ url.page # "shared"
                                \/ r.kind = "shared" /\ url.page = "shared"
                                \/ r.kind = "blocks" /\ url.page = "board"
        /\ load /\ url.page # "shared" => \E r \in requests' : r.kind = "initial"
        /\ open => \E r \in requests' : r.kind = "blocks" /\ r.board = url.board
    <3>1. Ask("initial", None).kind = "initial" /\ Ask("shared", url.board).kind = "shared"
          /\ Ask("blocks", url.board).kind = "blocks" /\ Ask("blocks", url.board).board = url.board
      BY DEF Ask
    <3>2. QED BY <1>1, <2>7, <3>1
  <2>9. MeKnown'
    <3>1. NobodyGoesOn' => NobodyGoesOn
      BY <1>1, <2>6 DEF NobodyGoesOn, ForNobody
    <3>2. \A r \in requests' : r.kind = "login" => r \in requests
      BY <2>8
    <3>3. QED BY <1>1, <1>2, <2>8, <3>1, <3>2 DEF MeKnown
  <2>10. SharedApart'
    <3>1. SharedPage => url.page = "shared"
      BY <2>5 DEF SharedPage
    <3>2. previous' = previous /\ returning' = returning /\ url' = to /\ store'.error = store.error /\ (dialog = None => dialog' = None)
      BY <1>1
    <3>3. url.page = "shared" => url'.page = "shared" /\ url'.board # None
      BY <1>2, <2>6, <3>2 DEF SharedApart
    <3>4. url'.page = "shared" => url.page = "shared"
      BY <2>6, <3>2
    <3>5. OnShared' <=> OnShared
      BY <3>2 DEF OnShared
    <3>6. QED BY <1>2, <2>8, <3>1, <3>2, <3>3, <3>4, <3>5 DEF SharedApart, SharedPage
  <2>11. returning # None => url.board = None
    BY <1>1, <1>2, <2>5 DEF ReturnsWell
  <2>12. ReturnsWell'
    BY <1>1, <1>2, <2>1, <2>11 DEF ReturnsWell
  <2>13. CurrentIsRendered'
    <3>1. seen' = Rendering /\ url' = to
      BY <1>1
    <3>2. CASE load
      BY <1>1, <2>1, <3>1, <3>2 DEF CurrentIsRendered
    <3>3. CASE ~load
      <4>1. ASSUME url.board # None PROVE store.current = url.board /\ store.view = url.view
        BY <1>2, <2>1, <2>2, <3>3, <4>1 DEF CurrentIsRendered
      <4>2. store'.current = store.current /\ store'.view = IF redirect /\ to.view # url.view THEN to.view ELSE store.view
        BY <1>1, <3>3
      <4>3. to.view # url.view => url.view = None /\ to.view # None
        BY <2>6
      <4>4. QED BY <2>1, <3>1, <4>1, <4>2, <4>3 DEF CurrentIsRendered
    <3>4. QED BY <3>2, <3>3
  <2>14. ViewWasPicked'
    <3>1. ASSUME WantsView(Rendering) PROVE returning = None /\ to.view # None
      <4>1. dialog = None /\ url.board # None /\ url.view = None /\ store.current = url.board /\ Cardinality(CurrentViews) # 0
        BY <2>1, <3>1 DEF WantsView
      <4>2. CurrentViews # {}
        BY <4>1, FS_EmptySet
      <4>3. CASE redirect
        BY <2>6, <2>11, <4>1, <4>2, <4>3
      <4>4. CASE ~redirect
        <5>1. seen # None /\ WantsView(seen)
          BY <2>1, <2>4, <3>1, <4>1, <4>4 DEF WantsView
        <5>2. QED BY <1>2, <1>5, <4>1, <5>1 DEF ViewWasPicked
      <4>5. QED BY <4>3, <4>4
    <3>2. seen' = Rendering /\ url' = to /\ returning' = returning
      BY <1>1
    <3>3. WantsView(seen)' => WantsView(Rendering)
      BY <3>2 DEF WantsView
    <3>4. QED BY <3>1, <3>2, <3>3 DEF ViewWasPicked
  <2>15. BoardsAreKnown'
    <3>1. seen' = Rendering /\ server' = server /\ store'.boards = store.boards
      BY <1>1
    <3>2. CASE load
      BY <2>1, <2>8, <3>1, <3>2 DEF BoardsAreKnown, Live
    <3>3. CASE ~load
      <4>1. Live' => Live
        BY <2>1, <2>2, <3>1, <3>3 DEF Live
      <4>2. QED BY <1>2, <2>8, <3>1, <4>1 DEF BoardsAreKnown, MayRead
    <3>4. QED BY <3>2, <3>3
  <2>16. ViewsAreKnown'
    <3>1. seen' = Rendering /\ server' = server /\ store'.views = store.views /\ stale' = stale
      BY <1>1
    <3>2. CASE Changed({"board", "me", "page"})
      BY <2>1, <2>7, <2>8, <3>1, <3>2 DEF ViewsAreKnown, Live
    <3>3. CASE ~Changed({"board", "me", "page"})
      <4>1. (Live' => Live) /\ seen'.board = seen.board
        BY <2>1, <2>3, <3>1, <3>3 DEF Live
      <4>2. QED BY <1>2, <2>8, <3>1, <4>1 DEF ViewsAreKnown, MayRead, ViewsOf
    <3>4. QED BY <3>2, <3>3
  <2>17. LostIsForgotten'
    BY <1>1, <1>2, <2>5, <2>6 DEF LostIsForgotten, ForLost
  <2>18. QED BY <1>3, <2>9, <2>10, <2>12, <2>13, <2>14, <2>15, <2>16, <2>17 DEF NavInv
<1>6. QED BY <1>4, <1>5

-----------------------------------------------------------------------------
(* What a step at rest leaves alone.                                       *)

\* A step of a page at rest that leaves the current board and its view alone.
LEMMA CalmKeeps ==
    ASSUME NavInv, Calm, seen' = seen, store'.current = store.current, store'.view = store.view,
           returning' = None \/ (returning'.page \in {"board", "login"} /\ url' = url /\ store'.error = None /\ store'.loggedIn # "unknown")
    PROVE  CurrentIsRendered' /\ ViewWasPicked' /\ ReturnsWell'
<1>1. CurrentIsRendered'
  BY CalmIs DEF CurrentIsRendered
<1>2. ViewWasPicked'
  BY CalmIs DEF ViewWasPicked, WantsView
<1>3. ReturnsWell'
  BY CalmIs DEF ReturnsWell
<1>4. QED BY <1>1, <1>2, <1>3

\* Who is logged in does not change by what is asked and answered, but by a login.
LEMMA MeStays ==
    ASSUME MeKnown, store'.me = store.me, store'.loggedIn = store.loggedIn, NobodyGoesOn' => NobodyGoesOn,
           server'.session = server.session,
           \A r \in requests' : r.kind = "login" => \E q \in requests : q.kind = "login",
           store.loggedIn = "unknown" => \A r \in requests : r.kind = "me" => \E q \in requests' : q.kind = "me"
    PROVE  MeKnown'
BY DEF MeKnown

\* Pages that are not shared stay so.
LEMMA SharedStays ==
    ASSUME SharedApart, ~OnShared, url'.page # "shared", previous'.page # "shared",
           \A r \in requests' : r.kind = "shared" => \E q \in requests : q.kind = "shared"
    PROVE  SharedApart'
BY DEF SharedApart, OnShared

LEMMA BoardsStay ==
    ASSUME BoardsAreKnown, seen' = seen, server'.session => server.session,
           server'.boards = server.boards, server'.mine = server.mine, server'.open = server.open,
           store'.boards = store.boards,
           \A r \in requests : r.kind = "initial" => \E q \in requests' : q.kind = "initial"
    PROVE  BoardsAreKnown'
BY DEF BoardsAreKnown, Live, MayRead

LEMMA ViewsStay ==
    ASSUME ViewsAreKnown, seen' = seen, server'.session => server.session,
           server'.boards \subseteq server.boards, server'.mine \subseteq server.mine, server'.views \subseteq server.views,
           store'.views = store.views, stale => stale',
           \A r \in requests : r.kind \in {"blocks", "joined"} =>
               \E q \in requests' : q.kind \in {"blocks", "joined"} /\ q.board = r.board
    PROVE  ViewsAreKnown'
BY DEF ViewsAreKnown, Live, MayRead, ViewsOf

\* On the board page, or another that shows no lost board.
LEMMA LostStays ==
    ASSUME LostIsForgotten, store'.error = store.error, settings'.board = settings.board \/ store'.error # "board-not-found",
           url' = url, previous' = previous,
           ForLost(url) /\ previous # url /\ ~stale' => ~stale /\ settings'.board = settings.board
    PROVE  LostIsForgotten'
BY DEF LostIsForgotten, ForLost

\* The page of a board that is rendered.
LEMMA LiveIs ==
    ASSUME NavInv, Calm
    PROVE  /\ Live => url.page = "board" /\ store.me /\ server.session /\ store.loggedIn = "yes" /\ seen.board = url.board
           /\ url.page = "board" => Live \/ ~server.session \/ store.loggedIn = "unknown"
           /\ ~OnShared => url.page # "shared"
<1>1. /\ store.me <=> store.loggedIn = "yes"
      /\ store.loggedIn = "no" => ~server.session
      /\ url.page = "shared" => OnShared
  BY DEF NavInv, MeKnown, SharedApart
<1>2. store.loggedIn \in {"yes", "no", "unknown"}
  BY DEF NavInv, NavTypeOK, Stores
<1>3. QED BY <1>1, <1>2, CalmIs DEF Live

-----------------------------------------------------------------------------
(* The answers.                                                            *)

LEMMA ServeKeeps == ASSUME NavInv, NEW r \in requests, Serve(r) PROVE NavInv'
<1>1. /\ Calm /\ returning = None /\ r.kind \in Kept /\ r.answer = None
      /\ requests' = (requests \ {r}) \cup {[r EXCEPT !.answer = Answer(r)]}
      /\ UNCHANGED <<url, previous, store, settings, server, seen, returning, dialog, acts, stale>>
  BY DEF Serve
<1>2. r \in Requests /\ requests \subseteq Requests
  BY DEF NavInv, NavTypeOK
<1>3. Answer(r) \in [ok : BOOLEAN, views : SUBSET Views]
  BY <1>2, AnswersAre DEF NavInv
<1> DEFINE s == [r EXCEPT !.answer = Answer(r)]
<1>4. s \in Requests /\ s.kind = r.kind /\ s.board = r.board
  BY <1>1, <1>2, <1>3 DEF Requests, Kept
<1>5. /\ \A q \in requests' : \E p \in requests : p.kind = q.kind /\ p.board = q.board
      /\ \A p \in requests : \E q \in requests' : p.kind = q.kind /\ p.board = q.board
  <2> HIDE DEF s
  <2>1. requests' = (requests \ {r}) \cup {s}
    BY <1>1 DEF s
  <2>2. QED BY <1>4, <2>1
<1>6. NavTypeOK'
  BY <1>1, <1>2, <1>4 DEF NavInv, NavTypeOK
<1>7. CurrentIsRendered' /\ ViewWasPicked' /\ ReturnsWell'
  BY <1>1, CalmKeeps
<1>8. MeKnown'
  BY <1>1, <1>5, MeStays DEF NavInv, NobodyGoesOn, ForNobody
<1>9. SharedApart'
  BY <1>1, <1>5 DEF NavInv, SharedApart, OnShared, SharedPage
<1>10. BoardsAreKnown'
  BY <1>1, <1>5, BoardsStay DEF NavInv
<1>11. ViewsAreKnown'
  <2>1. \A p \in requests : p.kind \in {"blocks", "joined"} => \E q \in requests' : q.kind \in {"blocks", "joined"} /\ q.board = p.board
    BY <1>5
  <2>2. QED BY <1>1, <2>1, ViewsStay DEF NavInv
<1>12. LostIsForgotten'
  BY <1>1, LostStays DEF NavInv
<1>13. QED BY <1>6, <1>7, <1>8, <1>9, <1>10, <1>11, <1>12 DEF NavInv

LEMMA MeFetchedKeeps == ASSUME NavInv, NEW r \in requests, MeFetched(r) PROVE NavInv'
<1>1. /\ Calm /\ returning = None /\ r.kind = "me"
      /\ store' = [store EXCEPT !.me = GetMe, !.loggedIn = IF GetMe THEN "yes" ELSE "no"]
      /\ requests' = requests \ {r}
      /\ UNCHANGED <<url, previous, settings, server, seen, returning, dialog, acts, stale>>
  BY DEF MeFetched, Arriving
<1>2. GetMe = server.session /\ server.session \in BOOLEAN /\ store \in Stores
  BY DEF GetMe, NavInv, NavTypeOK, Servers
<1>3. /\ store' \in Stores /\ store'.me = server.session /\ store'.loggedIn = (IF server.session THEN "yes" ELSE "no")
      /\ store'.boards = store.boards /\ store'.views = store.views /\ store'.current = store.current
      /\ store'.view = store.view /\ store'.error = store.error
  BY <1>1, <1>2 DEF Stores
<1>4. NavTypeOK'
  BY <1>1, <1>3 DEF NavInv, NavTypeOK
<1>5. CurrentIsRendered' /\ ViewWasPicked' /\ ReturnsWell'
  BY <1>1, <1>3, CalmKeeps
<1>6. MeKnown'
  BY <1>1, <1>2, <1>3 DEF NavInv, MeKnown
<1>7. SharedApart'
  BY <1>1 DEF NavInv, SharedApart, OnShared, SharedPage
<1>8. BoardsAreKnown'
  BY <1>1, <1>3, BoardsStay DEF NavInv
<1>9. ViewsAreKnown'
  <2>1. \A p \in requests : p.kind \in {"blocks", "joined"} => p \in requests'
    BY <1>1
  <2>2. QED BY <1>1, <1>3, <2>1, ViewsStay DEF NavInv
<1>10. LostIsForgotten'
  BY <1>1, <1>3, LostStays DEF NavInv
<1>11. QED BY <1>4, <1>5, <1>6, <1>7, <1>8, <1>9, <1>10 DEF NavInv

LEMMA LoginIsOne ==
    ASSUME NEW p \in Requests, NEW q \in Requests, p.kind = "login", q.kind = "login"
    PROVE  p = q
BY DEF Requests, Kept

LEMMA LoginDoneKeeps == ASSUME NavInv, NEW r \in requests, LoginDone(r) PROVE NavInv'
<1>1. /\ Calm /\ returning = None /\ r.kind = "login"
      /\ requests' = requests \ {r} /\ server' = Login(server)
      /\ store' = [store EXCEPT !.me = TRUE, !.loggedIn = "yes"]
      /\ returning' = IF url.page = "login" THEN Address(url.board, url.view) ELSE Home
      /\ UNCHANGED <<url, previous, settings, seen, dialog, acts, stale>>
  BY DEF LoginDone, Arriving
<1>2. requests \subseteq Requests /\ store \in Stores /\ server \in Servers /\ url \in Urls
  BY DEF NavInv, NavTypeOK
<1>3. store' \in Stores /\ store'.me = TRUE /\ store'.loggedIn = "yes" /\ store'.current = store.current
      /\ store'.view = store.view /\ store'.error = store.error
  BY <1>1, <1>2 DEF Stores
<1>4. server' \in Servers
  BY <1>1, <1>2 DEF Servers, Login
<1>5. returning' \in Urls /\ returning'.page = "board"
  BY <1>1, <1>2, UrlIs, AddressIs, HomeIs
<1>6. NavTypeOK'
  BY <1>1, <1>3, <1>4, <1>5 DEF NavInv, NavTypeOK
<1>7. store.loggedIn # "yes" /\ ~store.me /\ ~OnShared
  BY <1>1 DEF NavInv, MeKnown, SharedApart
<1>8. CurrentIsRendered' /\ ViewWasPicked' /\ ReturnsWell'
  BY <1>1, <1>3, <1>5, CalmIs, CalmKeeps
<1>9. MeKnown'
  BY <1>1, <1>2, <1>3, LoginIsOne DEF MeKnown
<1>10. SharedApart'
  BY <1>1, <1>7, SharedStays, LiveIs DEF NavInv, OnShared
<1>11. BoardsAreKnown' /\ ViewsAreKnown'
  BY <1>1, <1>7, CalmIs DEF BoardsAreKnown, ViewsAreKnown, Live
<1>12. LostIsForgotten'
  BY <1>1, <1>3, LostStays DEF NavInv
<1>13. QED BY <1>6, <1>8, <1>9, <1>10, <1>11, <1>12 DEF NavInv

LEMMA LogoutDoneKeeps == ASSUME NavInv, NEW r \in requests, LogoutDone(r) PROVE NavInv'
<1>1. /\ Calm /\ returning = None /\ r.kind = "logout"
      /\ requests' = requests \ {r} /\ server' = Logout(server)
      /\ store' = [store EXCEPT !.me = FALSE, !.loggedIn = "no"]
      /\ returning' = LoginPage(Home)
      /\ UNCHANGED <<url, previous, settings, seen, dialog, acts, stale>>
  BY DEF LogoutDone, Arriving
<1>2. requests \subseteq Requests /\ store \in Stores /\ server \in Servers /\ url \in Urls
  BY DEF NavInv, NavTypeOK
<1>3. store' \in Stores /\ store'.me = FALSE /\ store'.loggedIn = "no" /\ store'.current = store.current
      /\ store'.view = store.view /\ store'.error = store.error
  BY <1>1, <1>2 DEF Stores
<1>4. server' \in Servers /\ server'.session = FALSE
  BY <1>1, <1>2 DEF Servers, Logout
<1>5. returning' \in Urls /\ returning'.page = "login"
  BY <1>1, LoginIs, HomeIs
<1>6. NavTypeOK'
  BY <1>1, <1>3, <1>4, <1>5 DEF NavInv, NavTypeOK
<1>7. ~OnShared
  BY <1>1 DEF NavInv, SharedApart
<1>8. CurrentIsRendered' /\ ViewWasPicked' /\ ReturnsWell'
  BY <1>1, <1>3, <1>5, CalmIs, CalmKeeps
<1>9. MeKnown'
  BY <1>3, <1>4 DEF MeKnown
<1>10. SharedApart'
  BY <1>1, <1>7, SharedStays, LiveIs DEF NavInv, OnShared
<1>11. BoardsAreKnown' /\ ViewsAreKnown'
  BY <1>4 DEF BoardsAreKnown, ViewsAreKnown, Live
<1>12. LostIsForgotten'
  BY <1>1, <1>3, LostStays DEF NavInv
<1>13. QED BY <1>6, <1>8, <1>9, <1>10, <1>11, <1>12 DEF NavInv

LEMMA InitialLoadedKeeps == ASSUME NavInv, NEW r \in requests, InitialLoaded(r) PROVE NavInv'
<1>1. /\ Calm /\ returning = None /\ r.kind = "initial"
      /\ store' = IF GetMe
                  THEN [store EXCEPT !.boards = GetBoards, !.team = GetTeam,
                                     !.listed = IF ~store.team /\ url.page = "board" THEN GetSidebarCategories ELSE @]
                  ELSE [store EXCEPT !.error = "not-logged-in"]
      /\ requests' = requests \ {r}
      /\ UNCHANGED <<url, previous, settings, server, seen, returning, dialog, acts, stale>>
  BY DEF InitialLoaded, Arriving
<1>2. store \in Stores /\ GetMe = server.session
  BY DEF NavInv, NavTypeOK, GetMe
<1>3. GetTeam \in BOOLEAN /\ GetBoards \in SUBSET Boards /\ GetSidebarCategories \in SUBSET Boards
  BY AnswersAre DEF NavInv
<1>4. /\ store' \in Stores /\ store'.me = store.me /\ store'.loggedIn = store.loggedIn /\ store'.current = store.current
      /\ store'.view = store.view /\ store'.views = store.views
      /\ IF server.session THEN store'.boards = GetBoards /\ store'.error = store.error
                           ELSE store'.error = "not-logged-in"
  <2>1. CASE server.session
    <3> DEFINE m == IF ~store.team /\ url.page = "board" THEN GetSidebarCategories ELSE store.listed
    <3>1. store' = [store EXCEPT !.boards = GetBoards, !.team = GetTeam, !.listed = m]
      BY <1>1, <1>2, <2>1
    <3>2. m \in (SUBSET Boards) \cup {None}
      BY <1>2, <1>3 DEF Stores
    <3> HIDE DEF m
    <3>3. QED BY <1>2, <1>3, <2>1, <3>1, <3>2 DEF Stores
  <2>2. CASE ~server.session
    <3>1. store' = [store EXCEPT !.error = "not-logged-in"]
      BY <1>1, <1>2, <2>2
    <3>2. QED BY <1>2, <2>2, <3>1 DEF Stores, ErrorIds
  <2>3. QED BY <2>1, <2>2
<1>5. NavTypeOK'
  BY <1>1, <1>4 DEF NavInv, NavTypeOK
<1>6. ~OnShared
  BY <1>1 DEF NavInv, SharedApart
<1>7. CurrentIsRendered' /\ ViewWasPicked' /\ ReturnsWell'
  BY <1>1, <1>4, CalmKeeps
<1>8. MeKnown'
  <2>1. NobodyGoesOn' => NobodyGoesOn \/ ~server.session
    BY <1>1, <1>4 DEF NobodyGoesOn, ForNobody
  <2>2. QED BY <1>1, <1>4, <2>1 DEF NavInv, MeKnown
<1>9. SharedApart'
  BY <1>1, <1>6, SharedStays, LiveIs DEF NavInv, OnShared
<1>10. BoardsAreKnown'
  BY <1>1, <1>4 DEF BoardsAreKnown, Live, GetBoards, MayRead
<1>11. ViewsAreKnown'
  <2>1. \A p \in requests : p.kind \in {"blocks", "joined"} => p \in requests'
    BY <1>1
  <2>2. QED BY <1>1, <1>4, <2>1, ViewsStay DEF NavInv
<1>12. LostIsForgotten'
  BY <1>1, <1>4 DEF NavInv, LostIsForgotten, ForLost
<1>13. QED BY <1>5, <1>7, <1>8, <1>9, <1>10, <1>11, <1>12 DEF NavInv

LEMMA SharedLoadedKeeps == ASSUME NavInv, NEW r \in requests, SharedLoaded(r) PROVE NavInv'
<1>1. /\ Calm /\ returning = None /\ r.kind = "shared" /\ r.answer # None
      /\ requests' = requests \ {r}
      /\ store' = IF r.answer.ok THEN [store EXCEPT !.boards = {r.board}, !.views = r.answer.views]
                  ELSE [store EXCEPT !.error = "invalid-read-only-board"]
      /\ stale' = Stale(r)
      /\ UNCHANGED <<url, previous, settings, server, seen, returning, dialog, acts>>
  BY DEF SharedLoaded, Arriving, Kept
<1>2. store \in Stores /\ r \in Requests
  BY DEF NavInv, NavTypeOK
<1>3. r.answer.views \in SUBSET Views /\ r.board \in Boards
  BY <1>1, <1>2, RequestIs DEF Kept
<1>4. /\ store' \in Stores /\ store'.me = store.me /\ store'.loggedIn = store.loggedIn /\ store'.current = store.current
      /\ store'.view = store.view /\ store'.error \in {store.error, "invalid-read-only-board"}
  BY <1>1, <1>2, <1>3 DEF Stores, ErrorIds
<1>5. NavTypeOK'
  BY <1>1, <1>4 DEF NavInv, NavTypeOK, Stale
<1>6. OnShared /\ SharedPage
  BY <1>1 DEF NavInv, SharedApart
<1>7. CurrentIsRendered' /\ ViewWasPicked' /\ ReturnsWell'
  BY <1>1, <1>4, CalmKeeps
<1>8. MeKnown'
  <2>1. NobodyGoesOn' => NobodyGoesOn
    BY <1>1, <1>4 DEF NobodyGoesOn, ForNobody
  <2>2. QED BY <1>1, <1>4, <2>1, MeStays DEF NavInv
<1>9. SharedApart'
  BY <1>1 DEF NavInv, SharedApart, OnShared, SharedPage
<1>10. BoardsAreKnown' /\ ViewsAreKnown'
  BY <1>1, <1>6, CalmIs DEF BoardsAreKnown, ViewsAreKnown, Live, SharedPage
<1>11. LostIsForgotten'
  BY <1>1, <1>4, <1>6 DEF NavInv, LostIsForgotten, ForLost, SharedPage
<1>12. QED BY <1>5, <1>7, <1>8, <1>9, <1>10, <1>11 DEF NavInv

\* Blocks that arrive are those of the rendered board, or they are stale.
LEMMA LoadedAre ==
    ASSUME NavInv, Calm, NEW r \in requests, r.kind \in {"blocks", "joined"}, r.answer # None,
           store'.views = r.answer.views, stale' = Stale(r), UNCHANGED <<seen, server>>
    PROVE  ViewsAreKnown'
<1>1. SUFFICES ASSUME Live, seen.board # None, ~Stale(r), MayRead(seen.board)
               PROVE  ViewsOf(seen.board) \cap server.views \subseteq store'.views
  BY DEF ViewsAreKnown, Live, MayRead, ViewsOf
<1>2. r.answer = Answer(r) /\ r.board = seen.board
  BY <1>1, LiveIs DEF Stale
<1>3. Answer(r).views = GetAllBlocks(seen.board, server.session /\ MayRead(seen.board))
  BY <1>2 DEF Answer
<1>4. QED BY <1>1, <1>2, <1>3 DEF GetAllBlocks, Live

LEMMA BlocksLoadedKeeps == ASSUME NavInv, NEW r \in requests, BlocksLoaded(r) \/ JoinedLoaded(r) PROVE NavInv'
<1>1. /\ Calm /\ returning = None /\ r.kind \in {"blocks", "joined"} /\ r.answer # None
      /\ store' = [store EXCEPT !.views = r.answer.views, !.loading = FALSE]
      /\ requests' \in {requests \ {r}, (requests \ {r}) \cup {Ask("join", r.board)}}
      /\ settings' \in {settings, LastBoardSet(settings, r.board)}
      /\ stale' = Stale(r)
      /\ UNCHANGED <<url, previous, server, seen, returning, dialog, acts>>
  BY DEF BlocksLoaded, JoinedLoaded, Arriving, Kept
<1>2. store \in Stores /\ requests \subseteq Requests
  BY DEF NavInv, NavTypeOK
<1>3. r.answer.views \in SUBSET Views /\ r.board \in Boards /\ r.board # None
  BY <1>1, <1>2, RequestIs, NoneAssumption DEF Kept
<1>4. /\ store' \in Stores /\ store'.me = store.me /\ store'.loggedIn = store.loggedIn /\ store'.current = store.current
      /\ store'.view = store.view /\ store'.error = store.error /\ store'.views = r.answer.views /\ store'.boards = store.boards
  BY <1>1, <1>2, <1>3 DEF Stores
<1>5. Ask("join", r.board) \in Requests /\ Ask("join", r.board).kind = "join"
  BY <1>3, AskIs DEF BoardOrNone
<1>6. /\ requests' \subseteq Requests
      /\ \A p \in requests : p.kind \notin {"blocks", "joined"} => p \in requests'
      /\ \A p \in requests' : p \in requests \/ p.kind = "join"
  BY <1>1, <1>2, <1>5
<1>7. settings' \in [board : BoardOrNone, view : [Boards -> ViewOrNone]]
  BY <1>1, <1>3, BoardSetIs DEF NavInv, NavTypeOK, BoardOrNone
<1>8. NavTypeOK'
  BY <1>1, <1>4, <1>6, <1>7 DEF NavInv, NavTypeOK, Stale
<1>9. ~OnShared
  BY <1>1 DEF NavInv, SharedApart
<1>10. CurrentIsRendered' /\ ViewWasPicked' /\ ReturnsWell'
  BY <1>1, <1>4, CalmKeeps
<1>11. MeKnown'
  <2>1. NobodyGoesOn' => NobodyGoesOn
    BY <1>1, <1>4 DEF NobodyGoesOn, ForNobody
  <2>2. QED BY <1>1, <1>4, <1>6, <2>1, MeStays DEF NavInv
<1>12. SharedApart'
  BY <1>1, <1>6, <1>9, SharedStays, LiveIs DEF NavInv, OnShared
<1>13. BoardsAreKnown'
  BY <1>1, <1>4, <1>6, BoardsStay DEF NavInv
<1>14. ViewsAreKnown'
  BY <1>1, <1>4, LoadedAre
<1>15. LostIsForgotten'
  <2>1. store.error = None
    BY <1>1, CalmIs
  <2>2. store'.error # "board-not-found"
    BY <1>4, <2>1, NoneAssumption DEF ErrorIds
  <2>3. ForLost(url) => stale'
    BY <1>1, <1>3 DEF NavInv, LostIsForgotten, Stale
  <2>4. QED BY <1>1, <1>4, <2>2, <2>3, LostStays DEF NavInv
<1>16. QED BY <1>8, <1>10, <1>11, <1>12, <1>13, <1>14, <1>15 DEF NavInv

LEMMA JoinAnsweredKeeps == ASSUME NavInv, NEW r \in requests, JoinAnswered(r) PROVE NavInv'
<1>1. /\ Calm /\ returning = None /\ r.kind \in {"join", "adminjoin"}
      /\ UNCHANGED <<url, previous, seen, returning, acts, stale>>
  BY DEF JoinAnswered, Arriving
<1>2. store \in Stores /\ server \in Servers /\ requests \subseteq Requests
  BY DEF NavInv, NavTypeOK
<1>3. ~OnShared
  BY <1>1 DEF NavInv, SharedApart
<1>4. CASE JoinBoard(r.board, r.kind = "adminjoin")
  <2>1. /\ server' = [server EXCEPT !.mine = server.mine \cup {r.board}]
        /\ store' = [store EXCEPT !.loading = TRUE, !.boards = store.boards \cup {r.board}]
        /\ requests' = (requests \ {r}) \cup {Ask("joined", r.board)}
        /\ UNCHANGED <<settings, dialog>>
    BY <1>4 DEF JoinAnswered
  <2>2. r.board \in server.boards /\ r.board \in Boards
    BY <1>2, <1>4 DEF JoinBoard, MayJoin, Servers
  <2>3. /\ server' \in Servers /\ server'.session = server.session /\ server'.boards = server.boards /\ server'.open = server.open
        /\ server'.mine = server.mine \cup {r.board} /\ server'.views = server.views
    BY <1>2, <2>1, <2>2 DEF Servers
  <2>4. /\ store' \in Stores /\ store'.me = store.me /\ store'.loggedIn = store.loggedIn /\ store'.current = store.current
        /\ store'.view = store.view /\ store'.error = store.error /\ store'.views = store.views
        /\ store'.boards = store.boards \cup {r.board}
    BY <1>2, <2>1, <2>2 DEF Stores
  <2>5. Ask("joined", r.board) \in Requests /\ Ask("joined", r.board).kind = "joined" /\ Ask("joined", r.board).board = r.board
    BY <2>2, AskIs DEF Kept
  <2>6. /\ requests' \subseteq Requests
        /\ \A p \in requests : p.kind \notin {"join", "adminjoin"} => p \in requests'
        /\ \A p \in requests' : p \in requests \/ p.kind = "joined"
    BY <1>1, <1>2, <2>1, <2>5
  <2>7. NavTypeOK'
    BY <1>1, <2>1, <2>3, <2>4, <2>6 DEF NavInv, NavTypeOK
  <2>8. CurrentIsRendered' /\ ViewWasPicked' /\ ReturnsWell'
    BY <1>1, <2>4, CalmKeeps
  <2>9. MeKnown'
    <3>1. NobodyGoesOn' => NobodyGoesOn
      BY <1>1, <2>4 DEF NobodyGoesOn, ForNobody
    <3>2. QED BY <1>1, <2>3, <2>4, <2>6, <3>1, MeStays DEF NavInv
  <2>10. SharedApart'
    BY <1>1, <1>3, <2>6, SharedStays, LiveIs DEF NavInv, OnShared
  <2>11. BoardsAreKnown'
    BY <1>1, <2>2, <2>3, <2>4, <2>6 DEF NavInv, BoardsAreKnown, Live, MayRead
  <2>12. ViewsAreKnown'
    <3>1. CASE Live /\ seen.board # r.board
      BY <1>1, <2>3, <2>4, <2>6, <3>1 DEF NavInv, ViewsAreKnown, Live, MayRead, ViewsOf
    <3>2. CASE seen.board = r.board
      BY <1>1, <2>1, <2>5, <3>2 DEF ViewsAreKnown
    <3>3. QED BY <1>1, <2>3, <3>1, <3>2 DEF ViewsAreKnown, Live
  <2>13. LostIsForgotten'
    BY <1>1, <2>1, <2>4, LostStays DEF NavInv
  <2>14. QED BY <2>7, <2>8, <2>9, <2>10, <2>11, <2>12, <2>13 DEF NavInv
<1>5. CASE ~JoinBoard(r.board, r.kind = "adminjoin")
  <2>1. /\ requests' = requests \ {r}
        /\ server' = server
        /\ \/ /\ dialog' \in {dialog, "join"}
              /\ UNCHANGED <<store, settings>>
           \/ /\ settings' = LastViewSet(LastBoardSet(settings, None), r.board, None)
              /\ store' = [store EXCEPT !.error = "board-not-found"]
              /\ UNCHANGED dialog
    BY <1>5 DEF JoinAnswered
  <2>2. /\ LastViewSet(LastBoardSet(settings, None), r.board, None) \in [board : BoardOrNone, view : [Boards -> ViewOrNone]]
        /\ LastViewSet(LastBoardSet(settings, None), r.board, None).board = None
    BY BoardSetIs, ViewSetIs DEF NavInv, BoardOrNone, ViewOrNone
  <2>3. /\ store' \in Stores /\ store'.me = store.me /\ store'.loggedIn = store.loggedIn /\ store'.current = store.current
        /\ store'.view = store.view /\ store'.views = store.views /\ store'.boards = store.boards
        /\ \/ store'.error = store.error /\ settings' = settings
           \/ store'.error = "board-not-found" /\ settings'.board = None
        /\ settings' \in [board : BoardOrNone, view : [Boards -> ViewOrNone]]
    <3>1. CASE UNCHANGED <<store, settings>>
      BY <1>2, <3>1 DEF NavInv, NavTypeOK
    <3>2. CASE settings' = LastViewSet(LastBoardSet(settings, None), r.board, None) /\ store' = [store EXCEPT !.error = "board-not-found"]
      BY <1>2, <2>2, <3>2 DEF Stores, ErrorIds
    <3>3. QED BY <2>1, <3>1, <3>2
  <2>4. NavTypeOK'
    BY <1>1, <2>1, <2>3 DEF NavInv, NavTypeOK
  <2>5. CurrentIsRendered' /\ ViewWasPicked' /\ ReturnsWell'
    BY <1>1, <2>3, CalmKeeps
  <2>6. MeKnown'
    <3>1. NobodyGoesOn' => NobodyGoesOn
      BY <1>1, <2>3 DEF NobodyGoesOn, ForNobody
    <3>2. QED BY <1>1, <2>1, <2>3, <3>1, MeStays DEF NavInv
  <2>7. SharedApart'
    BY <1>1, <1>3, <2>1, SharedStays, LiveIs DEF NavInv, OnShared
  <2>8. BoardsAreKnown'
    BY <1>1, <2>1, <2>3, BoardsStay DEF NavInv
  <2>9. ViewsAreKnown'
    <3>1. \A p \in requests : p.kind \in {"blocks", "joined"} => p \in requests'
      BY <1>1, <2>1
    <3>2. QED BY <1>1, <2>1, <2>3, <3>1, ViewsStay DEF NavInv
  <2>10. LostIsForgotten'
    BY <1>1, <2>3 DEF NavInv, LostIsForgotten, ForLost
  <2>11. QED BY <2>4, <2>5, <2>6, <2>7, <2>8, <2>9, <2>10 DEF NavInv
<1>6. QED BY <1>4, <1>5
-----------------------------------------------------------------------------
(* What the users do.                                                      *)

LEMMA ActIs == ASSUME NavInv, Act PROVE Calm /\ returning = None /\ store.error = None /\ acts' \in 0 .. MaxActs
BY NavigationAssumption DEF Act, Calm, NavInv, NavTypeOK

\* The application starts anew at an address a user without session may be at.
LEMMA EnterKeeps ==
    ASSUME NavInv, NEW u \in Urls, Enter(u), acts' \in 0 .. MaxActs, ForNobody(u) => ~server.session,
           u.page = "shared" => u.board # None, ForLost(u) => u.board = None
    PROVE  NavInv'
<1>1. /\ url' = u /\ previous' = u /\ store' = FreshStore /\ requests' = {Ask("me", None)}
      /\ seen' = None /\ returning' = None /\ dialog' = None /\ stale' = FALSE /\ UNCHANGED <<settings, server>>
  BY DEF Enter
<1>2. /\ store' \in Stores /\ store'.me = FALSE /\ store'.loggedIn = "unknown" /\ store'.error = None
  BY <1>1 DEF FreshStore, Stores, BoardOrNone, ViewOrNone
<1>3. Ask("me", None) \in Requests /\ Ask("me", None).kind = "me"
  BY AskIs
<1>4. NavTypeOK'
  BY <1>1, <1>2, <1>3 DEF NavInv, NavTypeOK
<1>5. ReturnsWell' /\ CurrentIsRendered' /\ ViewWasPicked' /\ BoardsAreKnown' /\ ViewsAreKnown'
  BY <1>1 DEF ReturnsWell, CurrentIsRendered, ViewWasPicked, BoardsAreKnown, ViewsAreKnown, Live
<1>6. MeKnown'
  <2>1. None # "not-logged-in"
    BY NoneAssumption DEF ErrorIds
  <2>2. NobodyGoesOn' => ForNobody(u)
    BY <1>1, <1>2, <2>1 DEF NobodyGoesOn, ForNobody
  <2>3. QED BY <1>1, <1>2, <1>3, <2>2 DEF MeKnown
<1>7. SharedApart'
  BY <1>1, <1>2, <1>3 DEF SharedApart, OnShared, SharedPage
<1>8. LostIsForgotten'
  <2>1. None # "board-not-found"
    BY NoneAssumption DEF ErrorIds
  <2>2. QED BY <1>1, <1>2, <2>1 DEF LostIsForgotten, ForLost
<1>9. QED BY <1>4, <1>5, <1>6, <1>7, <1>8 DEF NavInv

LEMMA ReloadKeeps == ASSUME NavInv, Reload PROVE NavInv'
<1>1. Act /\ Enter(url) /\ Calm /\ acts' \in 0 .. MaxActs
  BY ActIs DEF Reload
<1>2. url \in Urls /\ store.loggedIn \in {"yes", "no", "unknown"}
  BY DEF NavInv, NavTypeOK, Stores
<1>3. ForNobody(url) => ~server.session
  BY <1>1, <1>2, CalmIs DEF NavInv, MeKnown, NobodyGoesOn, ForNobody
<1>4. (url.page = "shared" => url.board # None) /\ (ForLost(url) => url.board = None)
  BY DEF NavInv, SharedApart, LostIsForgotten
<1>5. QED BY <1>1, <1>2, <1>3, <1>4, EnterKeeps

\* The address changes, and nothing else.
LEMMA GoKeeps ==
    ASSUME NavInv, Calm, returning = None, url' \in Urls, previous' \in Urls, acts' \in 0 .. MaxActs,
           UNCHANGED <<store, settings, server, requests, seen, returning, stale>>, dialog' \in {dialog, None},
           NobodyGoesOn' => NobodyGoesOn, SharedApart',
           ForLost(url)' => url'.board = None /\ previous' = url', ForLost(previous)' => previous'.board = None
    PROVE  NavInv'
<1>1. NavTypeOK'
  BY DEF NavInv, NavTypeOK
<1>2. CurrentIsRendered' /\ ViewWasPicked' /\ ReturnsWell'
  BY CalmKeeps
<1>3. MeKnown'
  BY MeStays DEF NavInv
<1>4. BoardsAreKnown' /\ ViewsAreKnown'
  BY BoardsStay, ViewsStay DEF NavInv
<1>5. LostIsForgotten'
  BY DEF NavInv, LostIsForgotten, ForLost
<1>6. QED BY <1>1, <1>2, <1>3, <1>4, <1>5 DEF NavInv

LEMMA OpenKeeps == ASSUME NavInv, NEW u \in Addresses, Open(u) PROVE NavInv'
<1>1. /\ Calm /\ returning = None /\ store.error = None /\ acts' \in 0 .. MaxActs
      /\ url.page = "board" /\ previous' = url /\ url' = u
      /\ UNCHANGED <<store, settings, server, requests, seen, returning, dialog, stale>>
  BY ActIs DEF Open, Push
<1>2. u \in Urls /\ u.page = "board"
  BY HomeIs, AddressIs, NavigationAssumption DEF Addresses, BoardOrNone, ViewOrNone
<1>3. url \in Urls
  BY DEF NavInv, NavTypeOK
<1>4. ~OnShared
  BY <1>1 DEF NavInv, SharedApart, SharedPage
<1>5. SharedApart'
  BY <1>1, <1>2, <1>4, SharedStays DEF NavInv
<1>6. NobodyGoesOn' => NobodyGoesOn
  BY <1>1, <1>2 DEF NobodyGoesOn, ForNobody
<1>7. ~ForLost(url)' /\ ~ForLost(previous)'
  BY <1>1, <1>2 DEF ForLost
<1>8. QED BY <1>1, <1>2, <1>3, <1>5, <1>6, <1>7, GoKeeps

LEMMA BackKeeps == ASSUME NavInv, Back PROVE NavInv'
<1>1. /\ Calm /\ returning = None /\ acts' \in 0 .. MaxActs
      /\ previous # url /\ url' = previous /\ dialog' = None
      /\ UNCHANGED <<previous, store, settings, server, requests, seen, returning, stale>>
  BY ActIs DEF Back
<1>2. previous \in Urls
  BY DEF NavInv, NavTypeOK
<1>3. SharedApart'
  BY <1>1 DEF NavInv, SharedApart, OnShared, SharedPage
<1>4. NobodyGoesOn' => NobodyGoesOn
  BY <1>1 DEF NobodyGoesOn, ForNobody
<1>5. (ForLost(url)' => url'.board = None /\ previous' = url') /\ (ForLost(previous)' => previous'.board = None)
  BY <1>1 DEF NavInv, LostIsForgotten, ForLost
<1>6. QED BY <1>1, <1>2, <1>3, <1>4, <1>5, GoKeeps

LEMMA PressErrorButtonKeeps == ASSUME NavInv, PressErrorButton PROVE NavInv'
<1>1. /\ Calm /\ returning = None /\ store.error = None /\ acts' \in 0 .. MaxActs /\ url.page = "error"
      /\ IF url.id = "invalid-read-only-board" THEN Enter(Home)
         ELSE /\ previous' = url /\ url' = ErrorTarget(url)
              /\ UNCHANGED <<store, settings, server, requests, seen, returning, dialog, stale>>
  BY ActIs DEF PressErrorButton, Push
<1>2. CASE url.id = "invalid-read-only-board"
  BY <1>1, <1>2, HomeIs, EnterKeeps DEF ForNobody, ForLost
<1>3. CASE url.id # "invalid-read-only-board"
  <2>1. url.id # "not-logged-in" /\ url' = Home /\ previous' = url
    BY <1>1, <1>3, CalmIs DEF ErrorTarget
  <2>2. url \in Urls
    BY DEF NavInv, NavTypeOK
  <2>3. ~OnShared
    BY <1>1, <1>3 DEF NavInv, SharedApart, SharedPage
  <2>4. SharedApart'
    BY <1>1, <1>3, <2>1, <2>3, HomeIs, SharedStays DEF NavInv
  <2>5. NobodyGoesOn' => NobodyGoesOn
    BY <1>1, <1>3, <2>1, HomeIs DEF NobodyGoesOn, ForNobody
  <2>6. ~ForLost(url)' /\ (ForLost(previous)' => previous'.board = None)
    BY <1>1, <2>1, HomeIs DEF NavInv, LostIsForgotten, ForLost
  <2>7. QED BY <1>1, <1>3, <2>1, <2>2, <2>4, <2>5, <2>6, HomeIs, GoKeeps
<1>4. QED BY <1>2, <1>3

LEMMA GoToRegisterKeeps == ASSUME NavInv, GoToRegister PROVE NavInv'
<1>1. /\ Calm /\ returning = None /\ acts' \in 0 .. MaxActs
      /\ url.page = "login" /\ previous' = url /\ url' = [Home EXCEPT !.page = "register"]
      /\ UNCHANGED <<store, settings, server, requests, seen, returning, dialog, stale>>
  BY ActIs DEF GoToRegister, Push
<1>2. url' \in Urls /\ url'.page = "register" /\ url \in Urls
  BY <1>1, HomeIs DEF Urls, Pages, NavInv, NavTypeOK
<1>3. ~OnShared
  BY <1>1 DEF NavInv, SharedApart, SharedPage
<1>4. SharedApart'
  BY <1>1, <1>2, <1>3, SharedStays DEF NavInv
<1>5. NobodyGoesOn
  BY <1>1 DEF NobodyGoesOn, ForNobody
<1>6. ~ForLost(url)' /\ ~ForLost(previous)'
  BY <1>1, <1>2 DEF ForLost
<1>7. QED BY <1>1, <1>2, <1>4, <1>5, <1>6, GoKeeps

\* A request more, and nothing else.
LEMMA AsksKeeps ==
    ASSUME NavInv, Calm, returning = None, ~OnShared, acts' \in 0 .. MaxActs, dialog' \in {dialog, None},
           UNCHANGED <<url, previous, store, settings, server, seen, returning, stale>>,
           NEW q \in Requests, requests' = requests \cup {q}, q.kind \in {"adminjoin", "login", "logout"},
           q.kind = "login" => ~server.session /\ store.loggedIn # "yes"
    PROVE  NavInv'
<1>1. NavTypeOK'
  BY DEF NavInv, NavTypeOK
<1>2. CurrentIsRendered' /\ ViewWasPicked' /\ ReturnsWell'
  BY CalmKeeps
<1>3. MeKnown'
  BY DEF NavInv, MeKnown, NobodyGoesOn, ForNobody
<1>4. SharedApart'
  BY SharedStays, LiveIs DEF NavInv, OnShared
<1>5. BoardsAreKnown' /\ ViewsAreKnown'
  BY BoardsStay, ViewsStay DEF NavInv
<1>6. LostIsForgotten'
  BY LostStays DEF NavInv
<1>7. QED BY <1>1, <1>2, <1>3, <1>4, <1>5, <1>6 DEF NavInv

LEMMA AskedKeeps == ASSUME NavInv, ConfirmJoin \/ LogIn \/ LogOut PROVE NavInv'
<1>1. url \in Urls /\ store.loggedIn \in {"yes", "no", "unknown"}
  BY DEF NavInv, NavTypeOK, Stores
<1>2. url.board \in BoardOrNone
  BY <1>1, UrlIs
<1>3. CASE ConfirmJoin
  <2>1. /\ Calm /\ returning = None /\ acts' \in 0 .. MaxActs /\ dialog = "join" /\ dialog' = None
        /\ requests' = requests \cup {Ask("adminjoin", url.board)}
        /\ UNCHANGED <<url, previous, store, settings, server, seen, returning, stale>>
    BY <1>3, ActIs DEF ConfirmJoin
  <2>2. ~OnShared
    BY <2>1, NoneAssumption DEF NavInv, SharedApart
  <2>3. Ask("adminjoin", url.board) \in Requests /\ Ask("adminjoin", url.board).kind = "adminjoin"
    BY <1>2, AskIs
  <2>4. QED BY <2>1, <2>2, <2>3, AsksKeeps
<1>4. CASE LogIn
  <2>1. /\ Calm /\ returning = None /\ acts' \in 0 .. MaxActs /\ url.page \in {"login", "register"}
        /\ requests' = requests \cup {Ask("login", None)}
        /\ UNCHANGED <<url, previous, store, settings, server, seen, returning, dialog, stale>>
    BY <1>4, ActIs DEF LogIn
  <2>2. ~OnShared
    BY <2>1 DEF NavInv, SharedApart, SharedPage
  <2>3. ~server.session /\ store.loggedIn # "yes"
    BY <1>1, <2>1, CalmIs DEF NavInv, MeKnown, NobodyGoesOn, ForNobody
  <2>4. Ask("login", None) \in Requests /\ Ask("login", None).kind = "login"
    BY AskIs
  <2>5. QED BY <2>1, <2>2, <2>3, <2>4, AsksKeeps
<1>5. CASE LogOut
  <2>1. /\ Calm /\ returning = None /\ acts' \in 0 .. MaxActs /\ url.page = "board"
        /\ requests' = requests \cup {Ask("logout", None)}
        /\ UNCHANGED <<url, previous, store, settings, server, seen, returning, dialog, stale>>
    BY <1>5, ActIs DEF LogOut
  <2>2. ~OnShared
    BY <2>1 DEF NavInv, SharedApart, SharedPage
  <2>3. Ask("logout", None) \in Requests /\ Ask("logout", None).kind = "logout"
    BY AskIs
  <2>4. QED BY <2>1, <2>2, <2>3, AsksKeeps
<1>6. QED BY <1>3, <1>4, <1>5

-----------------------------------------------------------------------------
(* Changes of the server by others.                                        *)

LEMMA OthersKeep ==
    ASSUME NavInv, Calm, returning = None, acts' \in 0 .. MaxActs,
           UNCHANGED <<url, previous, settings, requests, seen, returning, dialog>>,
           store' \in Stores, server' \in Servers, stale' \in BOOLEAN, stale => stale', server'.session => server.session,
           store'.me = store.me, store'.loggedIn = store.loggedIn, store'.error = store.error,
           store'.current = store.current, store'.view = store.view, BoardsAreKnown', ViewsAreKnown'
    PROVE  NavInv'
<1>1. NavTypeOK'
  BY DEF NavInv, NavTypeOK
<1>2. CurrentIsRendered' /\ ViewWasPicked' /\ ReturnsWell'
  BY CalmKeeps
<1>3. MeKnown'
  BY DEF NavInv, MeKnown, NobodyGoesOn, ForNobody
<1>4. SharedApart'
  BY DEF NavInv, SharedApart, OnShared, SharedPage
<1>5. LostIsForgotten'
  BY LostStays DEF NavInv
<1>6. QED BY <1>1, <1>2, <1>3, <1>4, <1>5 DEF NavInv

LEMMA SessionExpiresKeeps == ASSUME NavInv, SessionExpires PROVE NavInv'
<1>1. /\ Calm /\ returning = None /\ acts' \in 0 .. MaxActs /\ server' = [server EXCEPT !.session = FALSE]
      /\ UNCHANGED <<url, previous, store, settings, requests, seen, returning, dialog, stale>>
  BY ActIs DEF SessionExpires
<1>2. store \in Stores /\ stale \in BOOLEAN /\ server \in Servers
  BY DEF NavInv, NavTypeOK
<1>3. server' \in Servers /\ server'.session = FALSE
  BY <1>1, <1>2 DEF Servers
<1>4. BoardsAreKnown' /\ ViewsAreKnown'
  BY <1>3 DEF BoardsAreKnown, ViewsAreKnown, Live
<1>5. QED BY <1>1, <1>2, <1>3, <1>4, OthersKeep

\* What the client hears of a change it keeps in its store.
LEMMA OthersIs ==
    ASSUME NavInv, NEW change, NEW heard, Others(change, heard)
    PROVE  /\ Calm /\ returning = None /\ acts' \in 0 .. MaxActs
           /\ UNCHANGED <<url, previous, settings, requests, seen, returning, dialog>>
           /\ server' = change /\ store' \in {store, heard} /\ (Live => store' = heard)
<1>1. Calm
  BY ActIs DEF Others
<1>2. Live => url.page = "board" /\ server.session
  BY <1>1, LiveIs
<1>3. QED BY <1>2, ActIs DEF Others

LEMMA DeleteViewKeeps == ASSUME NavInv, NEW v \in Views, DeleteView(v) PROVE NavInv'
<1> DEFINE change == [server EXCEPT !.views = server.views \ {v}]
           heard == [store EXCEPT !.views = IF MayRead(BoardOf[v]) THEN store.views \ {v} ELSE store.views]
<1>1. Others(change, heard) /\ stale' = stale
  BY DEF DeleteView
<1>2. store \in Stores /\ server \in Servers /\ stale \in BOOLEAN
  BY DEF NavInv, NavTypeOK
<1>3. /\ change \in Servers /\ change.session = server.session /\ change.boards = server.boards /\ change.mine = server.mine
      /\ change.open = server.open /\ change.views = server.views \ {v}
  BY <1>2 DEF Servers
<1>4. /\ heard \in Stores /\ heard.me = store.me /\ heard.loggedIn = store.loggedIn /\ heard.error = store.error
      /\ heard.current = store.current /\ heard.view = store.view /\ heard.boards = store.boards
      /\ store.views \ {v} \subseteq heard.views
  BY <1>2 DEF Stores
<1> HIDE DEF change, heard
<1>5. /\ Calm /\ returning = None /\ acts' \in 0 .. MaxActs
      /\ UNCHANGED <<url, previous, settings, requests, seen, returning, dialog>>
      /\ server' = change /\ store' \in {store, heard} /\ (Live => store' = heard)
  BY <1>1, OthersIs
<1>6. BoardsAreKnown'
  BY <1>3, <1>4, <1>5, BoardsStay DEF NavInv
<1>7. ViewsAreKnown'
  BY <1>1, <1>3, <1>4, <1>5 DEF NavInv, ViewsAreKnown, Live, MayRead, ViewsOf
<1>8. QED BY <1>1, <1>2, <1>3, <1>4, <1>5, <1>6, <1>7, OthersKeep

LEMMA DeleteBoardKeeps == ASSUME NavInv, NEW b \in Boards, DeleteBoard(b) \/ RemoveMember(b) PROVE NavInv'
<1> DEFINE heard == [store EXCEPT !.boards = store.boards \ {b}]
<1>1. PICK change \in {[server EXCEPT !.boards = server.boards \ {b}], [server EXCEPT !.mine = server.mine \ {b}]} :
          Others(change, heard) /\ stale' = stale
  BY DEF DeleteBoard, RemoveMember
<1>2. store \in Stores /\ server \in Servers /\ stale \in BOOLEAN
  BY DEF NavInv, NavTypeOK
<1>3. /\ change \in Servers /\ change.session = server.session
      /\ change.open = server.open /\ change.views = server.views
      /\ \/ change.boards = server.boards \ {b} /\ change.mine = server.mine
         \/ change.boards = server.boards /\ change.mine = server.mine \ {b}
  BY <1>1, <1>2 DEF Servers
<1>4. /\ heard \in Stores /\ heard.me = store.me /\ heard.loggedIn = store.loggedIn /\ heard.error = store.error
      /\ heard.current = store.current /\ heard.view = store.view /\ heard.boards = store.boards \ {b}
      /\ heard.views = store.views
  BY <1>2 DEF Stores
<1> HIDE DEF heard
<1>5. /\ Calm /\ returning = None /\ acts' \in 0 .. MaxActs
      /\ UNCHANGED <<url, previous, settings, requests, seen, returning, dialog>>
      /\ server' = change /\ store' \in {store, heard} /\ (Live => store' = heard)
  BY <1>1, OthersIs
<1>6. BoardsAreKnown'
  BY <1>1, <1>3, <1>4, <1>5 DEF NavInv, BoardsAreKnown, Live, MayRead
<1>7. ViewsAreKnown'
  BY <1>1, <1>3, <1>4, <1>5, ViewsStay DEF NavInv
<1>8. QED BY <1>1, <1>2, <1>3, <1>4, <1>5, <1>6, <1>7, OthersKeep

LEMMA AddMemberKeeps == ASSUME NavInv, NEW b \in Boards, AddMember(b) PROVE NavInv'
<1> DEFINE change == [server EXCEPT !.mine = server.mine \cup {b}]
           heard == [store EXCEPT !.boards = store.boards \cup {b}]
<1>1. Others(change, heard) /\ stale' = (stale \/ b = store.current) /\ b \in server.boards
  BY DEF AddMember
<1>2. store \in Stores /\ server \in Servers /\ stale \in BOOLEAN
  BY DEF NavInv, NavTypeOK
<1>3. /\ change \in Servers /\ change.session = server.session /\ change.boards = server.boards
      /\ change.mine = server.mine \cup {b}
      /\ change.open = server.open /\ change.views = server.views
  BY <1>2 DEF Servers
<1>4. /\ heard \in Stores /\ heard.me = store.me /\ heard.loggedIn = store.loggedIn /\ heard.error = store.error
      /\ heard.current = store.current /\ heard.view = store.view /\ heard.boards = store.boards \cup {b}
      /\ heard.views = store.views
  BY <1>2 DEF Stores
<1> HIDE DEF change, heard
<1>5. /\ Calm /\ returning = None /\ acts' \in 0 .. MaxActs
      /\ UNCHANGED <<url, previous, settings, requests, seen, returning, dialog>>
      /\ server' = change /\ store' \in {store, heard} /\ (Live => store' = heard)
  BY <1>1, OthersIs
<1>6. BoardsAreKnown'
  BY <1>1, <1>3, <1>4, <1>5 DEF NavInv, BoardsAreKnown, Live, MayRead
<1>7. ViewsAreKnown'
  <2>1. Live /\ seen.board # None => store.current = seen.board
    BY <1>5, CalmIs, LiveIs DEF Live
  <2>2. QED BY <1>1, <1>3, <1>4, <1>5, <2>1 DEF NavInv, ViewsAreKnown, Live, MayRead, ViewsOf
<1>8. QED BY <1>1, <1>2, <1>3, <1>4, <1>5, <1>6, <1>7, OthersKeep

LEMMA UnshareKeeps == ASSUME NavInv, NEW b \in Boards, Unshare(b) PROVE NavInv'
<1> DEFINE change == [server EXCEPT !.published = server.published \ {b}]
<1>1. Others(change, store) /\ stale' = stale
  BY DEF Unshare
<1>2. store \in Stores /\ server \in Servers /\ stale \in BOOLEAN
  BY DEF NavInv, NavTypeOK
<1>3. /\ change \in Servers /\ change.session = server.session /\ change.boards = server.boards
      /\ change.mine = server.mine /\ change.open = server.open /\ change.views = server.views
  BY <1>2 DEF Servers
<1> HIDE DEF change
<1>4. /\ Calm /\ returning = None /\ acts' \in 0 .. MaxActs
      /\ UNCHANGED <<url, previous, settings, requests, seen, returning, dialog>>
      /\ server' = change /\ store' = store
  BY <1>1, OthersIs
<1>5. BoardsAreKnown'
  BY <1>3, <1>4, BoardsStay DEF NavInv
<1>6. ViewsAreKnown'
  BY <1>1, <1>3, <1>4, ViewsStay DEF NavInv
<1>7. QED BY <1>1, <1>2, <1>3, <1>4, <1>5, <1>6, OthersKeep
-----------------------------------------------------------------------------
(* The pages that go on by themselves.                                     *)

\* A step to an address at which nothing is rendered but the other parts stay.
LEMMA MoveKeeps ==
    ASSUME NavInv, seen = None, url' \in Urls, previous' \in Urls,
           UNCHANGED <<store, settings, server, requests, seen, returning, dialog, acts, stale>>, ~OnShared,
           url'.page # "shared", previous'.page # "shared",
           url'.page # "board" \/ url'.board = None,
           NobodyGoesOn' => NobodyGoesOn \/ store.loggedIn # "unknown", ~ForLost(url)', ~ForLost(previous)' \/ previous' = previous
    PROVE  NavInv'
<1>1. NavTypeOK'
  BY DEF NavInv, NavTypeOK
<1>2. CurrentIsRendered' /\ ViewWasPicked' /\ BoardsAreKnown' /\ ViewsAreKnown'
  BY DEF CurrentIsRendered, ViewWasPicked, BoardsAreKnown, ViewsAreKnown, Live
<1>3. ReturnsWell'
  BY DEF NavInv, ReturnsWell
<1>4. MeKnown'
  BY DEF NavInv, MeKnown
<1>5. SharedApart'
  BY SharedStays DEF NavInv
<1>6. LostIsForgotten'
  BY DEF NavInv, LostIsForgotten, ForLost
<1>7. QED BY <1>1, <1>2, <1>3, <1>4, <1>5, <1>6 DEF NavInv

LEMMA RenderedIs == ASSUME NavInv, Rendered, ~OnBoardPage PROVE seen = None
BY RenderingIs DEF NavInv, Rendered

LEMMA RouteGuardKeeps == ASSUME NavInv, RouteGuard PROVE NavInv'
<1>1. /\ Rendered /\ url.page = "board" /\ store.loggedIn = "no" /\ ~OnBoardPage
      /\ url' = ErrorPage("not-logged-in", url)
      /\ UNCHANGED <<previous, store, settings, server, requests, seen, returning, dialog, acts, stale>>
  BY DEF RouteGuard, Guarded, LoginRequired, OnBoardPage
<1>2. seen = None
  BY <1>1, RenderedIs
<1>3. url \in Urls /\ previous \in Urls
  BY DEF NavInv, NavTypeOK
<1>4. url' \in Urls /\ url'.page = "error" /\ url'.id = "not-logged-in"
  BY <1>1, <1>3, ErrorIs DEF ErrorIds
<1>5. ~OnShared
  BY <1>1 DEF NavInv, SharedApart, SharedPage
<1>6. ~ForLost(url)'
  BY <1>4 DEF ForLost
<1>7. QED BY <1>1, <1>2, <1>3, <1>4, <1>5, <1>6, MoveKeeps DEF OnShared

LEMMA ErrorToLoginKeeps == ASSUME NavInv, ErrorToLogin PROVE NavInv'
<1>1. /\ Rendered /\ url.page = "error" /\ url.id = "not-logged-in" /\ ~OnBoardPage
      /\ previous' = url /\ url' = LoginPage(url)
      /\ UNCHANGED <<store, settings, server, requests, seen, returning, dialog, acts, stale>>
  BY DEF ErrorToLogin, ErrorTarget, OnBoardPage
<1>2. seen = None
  BY <1>1, RenderedIs
<1>3. url \in Urls
  BY DEF NavInv, NavTypeOK
<1>4. url' \in Urls /\ url'.page = "login"
  BY <1>1, <1>3, LoginIs
<1>5. ~OnShared
  BY <1>1 DEF NavInv, SharedApart, SharedPage
<1>6. ~ForLost(url)' /\ ~ForLost(previous)'
  BY <1>1, <1>4 DEF ForLost
<1>7. NobodyGoesOn
  BY <1>1 DEF NobodyGoesOn, ForNobody
<1>8. QED BY <1>1, <1>2, <1>3, <1>4, <1>5, <1>6, <1>7, MoveKeeps

LEMMA LoggedInGoesHomeKeeps == ASSUME NavInv, LoggedInGoesHome PROVE NavInv'
<1>1. /\ Rendered /\ url.page \in {"login", "register"} /\ store.loggedIn = "yes" /\ ~OnBoardPage
      /\ url' = Home
      /\ UNCHANGED <<previous, store, settings, server, requests, seen, returning, dialog, acts, stale>>
  BY DEF LoggedInGoesHome, OnBoardPage
<1>2. seen = None
  BY <1>1, RenderedIs
<1>3. previous \in Urls
  BY DEF NavInv, NavTypeOK
<1>4. ~OnShared
  BY <1>1 DEF NavInv, SharedApart, SharedPage
<1>5. ~ForLost(url)'
  BY <1>1, HomeIs DEF ForLost
<1>6. QED BY <1>1, <1>2, <1>3, <1>4, <1>5, HomeIs, MoveKeeps DEF OnShared

LEMMA GlobalErrorRedirectKeeps == ASSUME NavInv, GlobalErrorRedirect PROVE NavInv'
<1>1. /\ store.error # None /\ url' = ErrorPage(store.error, Home) /\ store' = [store EXCEPT !.error = None]
      /\ UNCHANGED <<previous, settings, server, requests, seen, returning, dialog, acts, stale>>
  BY DEF GlobalErrorRedirect
<1>2. store \in Stores /\ store.error \in ErrorIds
  BY <1>1 DEF NavInv, NavTypeOK, Stores
<1>3. /\ store' \in Stores /\ store'.me = store.me /\ store'.loggedIn = store.loggedIn /\ store'.error = None
      /\ store'.current = store.current /\ store'.view = store.view /\ store'.boards = store.boards
      /\ store'.views = store.views
  BY <1>1, <1>2 DEF Stores
<1>4. url' \in Urls /\ url'.page = "error" /\ url'.id = store.error /\ url'.board = None
  BY <1>1, <1>2, HomeIs, ErrorIs
<1>5. returning = None
  BY <1>1 DEF NavInv, ReturnsWell
<1>6. ~OnBoardPage' /\ Rendering' = None
  BY <1>4 DEF OnBoardPage, Rendering
<1>7. NavTypeOK'
  BY <1>1, <1>3, <1>4 DEF NavInv, NavTypeOK
<1>8. CurrentIsRendered' /\ ReturnsWell'
  BY <1>1, <1>3, <1>5, <1>6 DEF NavInv, CurrentIsRendered, ReturnsWell
<1>9. ViewWasPicked'
  BY <1>1, <1>5, <1>6 DEF ViewWasPicked
<1>10. MeKnown'
  <2>1. None # "not-logged-in"
    BY NoneAssumption DEF ErrorIds
  <2>2. NobodyGoesOn' => NobodyGoesOn
    BY <1>1, <1>3, <1>4, <2>1 DEF NobodyGoesOn, ForNobody
  <2>3. QED BY <1>1, <1>3, <2>2, MeStays DEF NavInv
<1>11. SharedApart'
  BY <1>1, <1>3, <1>4 DEF NavInv, SharedApart, OnShared, SharedPage
<1>12. BoardsAreKnown' /\ ViewsAreKnown'
  BY <1>1, <1>3, BoardsStay, ViewsStay DEF NavInv
<1>13. LostIsForgotten'
  <2>1. None # "board-not-found"
    BY NoneAssumption DEF ErrorIds
  <2>2. QED BY <1>1, <1>3, <1>4, <2>1 DEF NavInv, LostIsForgotten, ForLost
<1>14. QED BY <1>7, <1>8, <1>9, <1>10, <1>11, <1>12, <1>13 DEF NavInv

LEMMA ReturnKeeps == ASSUME NavInv, Return PROVE NavInv'
<1>1. /\ returning # None /\ returning' = None
      /\ (url' = returning /\ previous' = url) \/ UNCHANGED <<url, previous>>
      /\ UNCHANGED <<store, settings, server, requests, seen, dialog, acts, stale>>
  BY DEF Return
<1>2. /\ returning \in Urls /\ returning.page \in {"board", "login"} /\ store.error = None /\ store.loggedIn # "unknown"
      /\ seen # None /\ seen.board # None => store.view = seen.view
      /\ ~OnShared /\ url \in Urls
  BY <1>1 DEF NavInv, NavTypeOK, ReturnsWell, SharedApart
<1>3. NavTypeOK'
  BY <1>1, <1>2 DEF NavInv, NavTypeOK
<1>4. CurrentIsRendered' /\ ReturnsWell'
  BY <1>1, <1>2 DEF NavInv, CurrentIsRendered, ReturnsWell
<1>5. ViewWasPicked'
  BY <1>1 DEF NavInv, ViewWasPicked, WantsView
<1>6. MeKnown'
  BY <1>1, <1>2 DEF NavInv, MeKnown
<1>7. SharedApart'
  <2>1. url.page # "shared"
    BY <1>2 DEF NavInv, SharedApart
  <2>2. url'.page # "shared" /\ previous'.page # "shared"
    BY <1>1, <1>2, <2>1 DEF OnShared
  <2>3. QED BY <1>1, <1>2, <2>2, SharedStays DEF NavInv
<1>8. BoardsAreKnown' /\ ViewsAreKnown'
  BY <1>1, BoardsStay, ViewsStay DEF NavInv
<1>9. LostIsForgotten'
  BY <1>1, <1>2 DEF NavInv, LostIsForgotten, ForLost
<1>10. QED BY <1>3, <1>4, <1>5, <1>6, <1>7, <1>8, <1>9 DEF NavInv

-----------------------------------------------------------------------------
(* The specification.                                                      *)

LEMMA InitGivesNavInv == NavInit => NavInv
<1> SUFFICES ASSUME NavInit PROVE NavInv
  OBVIOUS
<1>1. /\ previous = url /\ store = FreshStore /\ requests = {Ask("me", None)}
      /\ seen = None /\ returning = None /\ dialog = None /\ acts = 0 /\ stale = FALSE
  BY DEF NavInit
<1>2. /\ url \in Urls /\ url.page \in {"board", "shared"} /\ (url.page = "shared" => url.board # None)
  <2>1. CASE url \in {Home} \cup {Address(b, None) : b \in Boards} \cup {Address(BoardOf[v], v) : v \in Views}
    BY <2>1, HomeIs, AddressIs, NavigationAssumption DEF BoardOrNone, ViewOrNone
  <2>2. CASE url \in {[Address(b, None) EXCEPT !.page = "shared"] : b \in Boards}
    <3>1. PICK b \in Boards : url = [Address(b, None) EXCEPT !.page = "shared"]
      BY <2>2
    <3>2. b # None
      BY NoneAssumption
    <3>3. QED BY <3>1, <3>2 DEF Address, Urls, Pages, BoardOrNone, ViewOrNone
  <2>3. QED BY <2>1, <2>2 DEF NavInit
<1>3. server \in Servers
  BY NavigationAssumption DEF NavInit, Servers
<1>4. settings \in [board : BoardOrNone, view : [Boards -> ViewOrNone]]
  BY DEF NavInit, ViewOrNone
<1>5. /\ store \in Stores /\ store.me = FALSE /\ store.loggedIn = "unknown" /\ store.error = None
  BY <1>1 DEF FreshStore, Stores, BoardOrNone, ViewOrNone
<1>6. Ask("me", None) \in Requests /\ Ask("me", None).kind = "me"
  BY AskIs
<1>7. NavTypeOK
  <2>1. acts \in 0 .. MaxActs /\ requests \subseteq Requests
    BY <1>1, <1>6, NavigationAssumption
  <2>2. QED BY <1>1, <1>2, <1>3, <1>4, <1>5, <2>1 DEF NavTypeOK
<1>8. ReturnsWell /\ CurrentIsRendered /\ ViewWasPicked /\ BoardsAreKnown /\ ViewsAreKnown
  BY <1>1 DEF ReturnsWell, CurrentIsRendered, ViewWasPicked, BoardsAreKnown, ViewsAreKnown, Live
<1>9. None # "not-logged-in" /\ None # "board-not-found"
  BY NoneAssumption DEF ErrorIds
<1>10. MeKnown
  BY <1>1, <1>2, <1>5, <1>6, <1>9 DEF MeKnown, NobodyGoesOn, ForNobody
<1>11. SharedApart
  BY <1>1, <1>2, <1>5, <1>6 DEF SharedApart, OnShared, SharedPage
<1>12. LostIsForgotten
  BY <1>1, <1>2, <1>5, <1>9 DEF LostIsForgotten, ForLost
<1>13. QED BY <1>7, <1>8, <1>10, <1>11, <1>12 DEF NavInv

LEMMA NextKeepsNavInv == NavInv /\ [NavNext]_navVars => NavInv'
<1> SUFFICES ASSUME NavInv, [NavNext]_navVars PROVE NavInv'
  OBVIOUS
<1>1. CASE Page
  BY <1>1, RenderKeeps, RouteGuardKeeps, GlobalErrorRedirectKeeps, ErrorToLoginKeeps, LoggedInGoesHomeKeeps, ReturnKeeps
     DEF Page
<1>2. ASSUME NEW r \in requests, Serve(r) \/ Answered(r) PROVE NavInv'
  BY <1>2, ServeKeeps, MeFetchedKeeps, LoginDoneKeeps, LogoutDoneKeeps, InitialLoadedKeeps, SharedLoadedKeeps,
     BlocksLoadedKeeps, JoinAnsweredKeeps DEF Answered
<1>3. CASE Users
  BY <1>3, OpenKeeps, ReloadKeeps, BackKeeps, PressErrorButtonKeeps, AskedKeeps, GoToRegisterKeeps, SessionExpiresKeeps,
     DeleteViewKeeps, DeleteBoardKeeps, AddMemberKeeps, UnshareKeeps DEF Users
<1>4. CASE UNCHANGED navVars
  <2>1. /\ url' = url /\ previous' = previous /\ store' = store /\ settings' = settings /\ server' = server
        /\ requests' = requests /\ seen' = seen /\ returning' = returning /\ dialog' = dialog /\ acts' = acts /\ stale' = stale
    BY <1>4 DEF navVars
  <2>2. NavTypeOK' /\ MeKnown' /\ SharedApart' /\ ReturnsWell'
    BY <2>1 DEF NavInv, NavTypeOK, MeKnown, NobodyGoesOn, ForNobody, SharedApart, OnShared, SharedPage, ReturnsWell
  <2>3. Rendering' = Rendering /\ (OnBoardPage' <=> OnBoardPage)
    BY <2>1 DEF Rendering, OnBoardPage, Guarded, CurrentViews
  <2>4. CurrentIsRendered' /\ ViewWasPicked'
    BY <2>1, <2>3 DEF NavInv, CurrentIsRendered, ViewWasPicked, WantsView
  <2>5. BoardsAreKnown' /\ ViewsAreKnown' /\ LostIsForgotten'
    BY <2>1, BoardsStay, ViewsStay DEF NavInv, LostIsForgotten, ForLost
  <2>6. QED BY <2>2, <2>4, <2>5 DEF NavInv
<1>5. QED BY <1>1, <1>2, <1>3, <1>4 DEF NavNext, System

\* The page at rest shows what its address names.
LEMMA AtRestShows == NavInv => AddressIsShown
<1> SUFFICES ASSUME NavInv PROVE AddressIsShown
  OBVIOUS
<1>1. NavTypeOK
  BY DEF NavInv
<1>2. LostBoardIsForgotten
  BY DEF NavInv, LostIsForgotten, ForLost, LostBoardIsForgotten
<1>3. ASSUME AtRest, url.page = "board"
      PROVE  /\ store.loggedIn = "yes"
             /\ url.board # None => store.current = url.board /\ store.view = url.view
  <2>1. Calm /\ requests = {}
    BY <1>3 DEF AtRest
  <2>2. store.loggedIn # "unknown"
    BY <2>1 DEF NavInv, MeKnown
  <2>3. store.loggedIn # "no"
    BY <1>3, <2>1 DEF Calm, Guarded, LoginRequired
  <2>4. store.loggedIn = "yes"
    BY <1>1, <2>2, <2>3 DEF NavTypeOK, Stores
  <2>5. QED BY <1>3, <2>1, <2>4, CalmIs
<1>4. ASSUME AtRest, url.page = "board", url.board # None, dialog = None, ~stale, server.session
      PROVE  IF MayRead(url.board)
             THEN /\ url.view \in server.views \cap ViewsOf(url.board) => Shown = "view" /\ store.view = url.view
                  /\ url.view = None => ViewsOf(url.board) \cap server.views = {}
             ELSE Shown # "view" \/ url.board \in server.open
  <2>1. Calm /\ requests = {}
    BY <1>4 DEF AtRest
  <2>2. store.loggedIn = "yes" /\ store.current = url.board /\ store.view = url.view
    BY <1>3, <1>4
  <2>3. Live /\ seen.board = url.board /\ seen.view = url.view /\ seen.current = store.current /\ seen.dialog = None
        /\ seen.views = Cardinality(CurrentViews) /\ ~WantsView(seen)
    BY <1>4, <2>1, <2>2, CalmIs, LiveIs
  <2>4. /\ \A b \in Boards : MayRead(b) => b \in store.boards
        /\ store.boards \subseteq server.boards \cap (server.mine \cup server.open)
    BY <2>1, <2>3 DEF NavInv, BoardsAreKnown
  <2>5. url.board \in Boards
    BY <1>1, <1>4 DEF NavTypeOK, Urls, BoardOrNone
  <2>6. CASE MayRead(url.board)
    <3>1. ViewsOf(url.board) \cap server.views \subseteq store.views
      BY <1>4, <2>1, <2>3, <2>6 DEF NavInv, ViewsAreKnown
    <3>2. store.current \in store.boards
      BY <2>2, <2>4, <2>5, <2>6
    <3>3. ASSUME url.view \in server.views \cap ViewsOf(url.board) PROVE Shown = "view"
      BY <2>2, <3>1, <3>2, <3>3 DEF Shown
    <3>4. ASSUME url.view = None PROVE ViewsOf(url.board) \cap server.views = {}
      <4>1. Cardinality(CurrentViews) = 0
        BY <1>4, <2>2, <2>3, <3>4 DEF WantsView
      <4>2. IsFiniteSet(CurrentViews)
        <5>1. CurrentViews \subseteq Views
          BY <1>1 DEF NavTypeOK, Stores, CurrentViews
        <5>2. QED BY <5>1, NavigationAssumption, FS_Subset
      <4>3. CurrentViews = {}
        BY <4>1, <4>2, FS_EmptySet
      <4>4. QED BY <2>2, <3>1, <4>3 DEF CurrentViews, ViewsOf
    <3>5. QED BY <2>2, <2>6, <3>3, <3>4
  <2>7. CASE ~MayRead(url.board)
    BY <2>2, <2>4, <2>7 DEF MayRead, Shown
  <2>8. QED BY <2>6, <2>7
<1>5. QED BY <1>1, <1>2, <1>3, <1>4 DEF AddressIsShown

\* When nothing is left to do the page is the one of the address, however many acts, boards and
\* views there are: the page of AddressIsShown, from pages/boardPage and the routes' guard.
THEOREM PageIsOfTheAddress == NavSpec => []AddressIsShown
<1>1. NavSpec => []NavInv
  <2>1. NavInv /\ [NavNext]_navVars => NavInv'
    BY NextKeepsNavInv
  <2>2. QED BY <2>1, InitGivesNavInv, PTL DEF NavSpec
<1>2. QED BY <1>1, AtRestShows, PTL
=============================================================================

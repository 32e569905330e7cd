--------------------------- MODULE CallbackQueue ---------------------------
(***************************************************************************)
(* The thread pool of server/utils/callbackqueue.go.  Request goroutines   *)
(* Enqueue callbacks on a bounded Go channel, poolSize worker goroutines   *)
(* (loop) receive and execute them, and Shutdown closes the pool and       *)
(* drains what is left.  App.New creates the one queue of the server,      *)
(* blockChangeNotifier; its callbacks broadcast over the websocket, call   *)
(* the webhooks and the notification backends.  A backend may itself call  *)
(* an App operation that enqueues (mentions_backend.go:201 calls           *)
(* AddMemberToBoard, app/boards.go:550 enqueues): Parent names, for such a *)
(* callback, the callback whose execution enqueues it.                     *)
(***************************************************************************)
EXTENDS Naturals, Sequences, FiniteSets

CONSTANTS
    Callbacks,   \* the callbacks ever passed to Enqueue
    Workers,     \* the pool threads; poolSize = Cardinality(Workers)
    Closers,     \* the goroutines that call Shutdown
    QueueSize,   \* capacity of the channel
    Parent,      \* [Callbacks -> Callbacks \cup {NoCallback}]
    NoCallback

ASSUME WorkersAssumption == IsFiniteSet(Workers)
ASSUME QueueSizeAssumption == QueueSize \in Nat \ {0}
ASSUME NoCallbackAssumption == NoCallback \notin Callbacks
ASSUME RolesAssumption == Workers \cap Closers = {}
ASSUME ParentAssumption == Parent \in [Callbacks -> Callbacks \cup {NoCallback}]

VARIABLES
    idone,      \* cn.idone: has some Shutdown won the compare-and-swap
    done,       \* is the channel cn.done closed
    queue,      \* cn.queue: the buffered callbacks, then the blocked senders'
    alive,      \* tokens in the channel cn.alive
    enq,        \* where the call Enqueue(f) is, for each callback f
    exited,     \* workers that returned from loop
    holds,      \* the callback a worker, or the drain of a Shutdown, has received
    calling,    \* those of them that are inside the call of their callback
    close,      \* where each call of Shutdown is
    count,      \* the local variable count of the one Shutdown that won
    expired,    \* Shutdown calls whose context is done
    order,      \* history: callbacks in the order they were sent
    started,    \* history: callbacks in the order their execution began
    finished,   \* history: callbacks whose execution returned
    promised    \* history: callbacks already sent when Shutdown won the swap

chanVars == <<queue, enq, order>>
execVars == <<holds, calling, started, finished>>
closeVars == <<idone, done, close, count, expired, promised>>
vars == <<idone, done, queue, alive, enq, exited, holds, calling, close, count,
          expired, order, started, finished, promised>>

Executors == Workers \cup Closers
Sent == {order[i] : i \in 1..Len(order)}
Started == {started[i] : i \in 1..Len(started)}

TypeOK ==
    /\ idone \in BOOLEAN
    /\ done \in BOOLEAN
    /\ queue \in Seq(Callbacks)
    /\ alive \in Nat
    /\ enq \in [Callbacks -> {"idle", "checked", "skipped", "blocked", "returned"}]
    /\ exited \in SUBSET Workers
    /\ holds \in [Executors -> Callbacks \cup {NoCallback}]
    /\ calling \in SUBSET {e \in Executors : holds[e] # NoCallback}
    /\ close \in [Closers -> {"idle", "won", "wait", "drain", "true", "lost", "false"}]
    /\ count \in Nat
    /\ expired \in SUBSET Closers
    /\ order \in Seq(Callbacks)
    /\ started \in Seq(Callbacks)
    /\ finished \in SUBSET Callbacks
    /\ promised \in SUBSET Callbacks

Init ==
    /\ idone = FALSE
    /\ done = FALSE
    /\ queue = <<>>
    /\ alive = 0
    /\ enq = [f \in Callbacks |-> "idle"]
    /\ exited = {}
    /\ holds = [e \in Executors |-> NoCallback]
    /\ calling = {}
    /\ close = [c \in Closers |-> "idle"]
    /\ count = 0
    /\ expired = {}
    /\ order = <<>>
    /\ started = <<>>
    /\ finished = {}
    /\ promised = {}

-----------------------------------------------------------------------------
(* Enqueue.  The flag is loaded first; the send is a step of its own.      *)

\* A request calls Enqueue at any time, a callback only while it executes.
MayEnqueue(f) == Parent[f] = NoCallback \/ \E e \in calling : holds[e] = Parent[f]

LoadIdone(f) ==
    /\ enq[f] = "idle"
    /\ MayEnqueue(f)
    /\ enq' = [enq EXCEPT ![f] = IF idone THEN "skipped" ELSE "checked"]
    /\ UNCHANGED <<queue, order, alive, exited, execVars, closeVars>>

HasRoom == Len(queue) < QueueSize

\* The select: the send succeeds at once when the buffer has room, and the
\* default branch blocks in a second send when it has none.  A blocked sender
\* waits in the channel's FIFO behind the buffered callbacks.
Send(f) ==
    /\ enq[f] = "checked"
    /\ queue' = Append(queue, f)
    /\ order' = Append(order, f)
    /\ enq' = [enq EXCEPT ![f] = IF HasRoom THEN "returned" ELSE "blocked"]
    /\ UNCHANGED <<alive, exited, execVars, closeVars>>

-----------------------------------------------------------------------------
(* Receiving and executing, by a worker or by the drain of Shutdown.       *)

Rest == Tail(queue)

\* Mutant: a blocked sender hands its callback over before the buffered ones.
ReceiveNewest(e) ==
    /\ holds[e] = NoCallback
    /\ queue # <<>>
    /\ holds' = [holds EXCEPT ![e] = queue[Len(queue)]]
    /\ queue' = SubSeq(queue, 1, Len(queue) - 1)
    /\ enq' = [enq EXCEPT ![queue[Len(queue)]] = "returned"]
    /\ UNCHANGED <<order, alive, exited, calling, started, finished, closeVars>>

\* A receive takes the oldest callback and lets the first blocked sender in.
Receive(e) ==
    /\ holds[e] = NoCallback
    /\ queue # <<>>
    /\ holds' = [holds EXCEPT ![e] = Head(queue)]
    /\ queue' = Rest
    /\ enq' = IF Len(queue) > QueueSize
              THEN [enq EXCEPT ![queue[QueueSize + 1]] = "returned"]
              ELSE enq
    /\ UNCHANGED <<order, alive, exited, calling, started, finished, closeVars>>

\* exec(f) calls f().
Start(e) ==
    /\ holds[e] # NoCallback
    /\ e \notin calling
    /\ calling' = calling \cup {e}
    /\ started' = Append(started, holds[e])
    /\ UNCHANGED <<holds, finished, chanVars, alive, exited, closeVars>>

\* f() returns, fails or panics: all three end exec the same way.  A callback
\* that enqueues another one does not return before that Enqueue returns.
Finish(e) ==
    /\ e \in calling
    /\ \A f \in Callbacks : Parent[f] = holds[e] => enq[f] \notin {"checked", "blocked"}
    /\ finished' = finished \cup {holds[e]}
    /\ calling' = calling \ {e}
    /\ holds' = [holds EXCEPT ![e] = NoCallback]
    /\ UNCHANGED <<started, chanVars, alive, exited, closeVars>>

Exec(e) == Start(e) \/ Finish(e)

WorkerReceive(w) ==
    /\ w \notin exited
    /\ Receive(w)

\* Mutant: a worker that finds the queue empty leaves.
ToldToExitOrIdle == done \/ queue = <<>>

ToldToExit == done

\* The other branch of the worker's select; the deferred send on cn.alive never
\* blocks, that channel has room for every worker.
Exit(w) ==
    /\ w \notin exited
    /\ holds[w] = NoCallback
    /\ ToldToExit
    /\ exited' = exited \cup {w}
    /\ alive' = alive + 1
    /\ UNCHANGED <<chanVars, execVars, closeVars>>

Worker(w) == WorkerReceive(w) \/ Exec(w) \/ Exit(w)

-----------------------------------------------------------------------------
(* Shutdown.                                                               *)

\* Mutant: the loop stops one worker early.
AfterWaitOffByOne(n) == IF n + 1 < Cardinality(Workers) THEN "wait" ELSE "drain"

\* for count < cn.poolSize
AfterWait(n) == IF n < Cardinality(Workers) THEN "wait" ELSE "drain"

AliveReady == alive > 0

\* Mutant: the channel is not looked at.
DrainedAtOnce == TRUE

Drained == queue = <<>>

SelectsOnContext == {"wait", "drain"}

\* The first statement: only the winner goes on.
CompareAndSwap(c) ==
    /\ close[c] = "idle"
    /\ close' = [close EXCEPT ![c] = IF idone THEN "lost" ELSE "won"]
    /\ idone' = TRUE
    /\ promised' = IF idone THEN promised ELSE Sent
    /\ UNCHANGED <<done, count, expired, chanVars, alive, exited, execVars>>

\* close(cn.done), then the loop over cn.alive begins.
CloseDone(c) ==
    /\ close[c] = "won"
    /\ done' = TRUE
    /\ close' = [close EXCEPT ![c] = AfterWait(count)]
    /\ UNCHANGED <<idone, count, expired, promised, chanVars, alive, exited, execVars>>

\* One iteration of the loop that waits for the workers.
ReceiveAlive(c) ==
    /\ close[c] = "wait"
    /\ AliveReady
    /\ alive' = alive - 1
    /\ count' = count + 1
    /\ close' = [close EXCEPT ![c] = AfterWait(count + 1)]
    /\ UNCHANGED <<idone, done, expired, promised, chanVars, exited, execVars>>

DrainReceive(c) ==
    /\ close[c] = "drain"
    /\ Receive(c)

\* The default branch: nothing to receive and the context not done.
DrainEmpty(c) ==
    /\ close[c] = "drain"
    /\ holds[c] = NoCallback
    /\ Drained
    /\ c \notin expired
    /\ close' = [close EXCEPT ![c] = "true"]
    /\ UNCHANGED <<idone, done, count, expired, promised, chanVars, alive, exited, execVars>>

\* context.Done() in either select.
TimedOut(c) ==
    /\ close[c] \in SelectsOnContext
    /\ holds[c] = NoCallback
    /\ c \in expired
    /\ close' = [close EXCEPT ![c] = "false"]
    /\ UNCHANGED <<idone, done, count, expired, promised, chanVars, alive, exited, execVars>>

\* The caller's context reaches its deadline (10s in App.Shutdown).
Expire(c) ==
    /\ close[c] \in {"won", "wait", "drain"}
    /\ c \notin expired
    /\ expired' = expired \cup {c}
    /\ UNCHANGED <<idone, done, close, count, promised, chanVars, alive, exited, execVars>>

Closer(c) ==
    \/ CompareAndSwap(c) \/ CloseDone(c) \/ ReceiveAlive(c)
    \/ DrainReceive(c) \/ DrainEmpty(c) \/ TimedOut(c) \/ Expire(c) \/ Exec(c)

Next ==
    \/ \E f \in Callbacks : LoadIdone(f) \/ Send(f)
    \/ \E w \in Workers : Worker(w)
    \/ \E c \in Closers : Closer(c)

Spec == Init /\ [][Next]_vars

\* A goroutine that can run eventually runs and a timer eventually fires.
\* Nobody is obliged to call Enqueue or Shutdown.
Fairness ==
    /\ \A f \in Callbacks : WF_vars(Send(f))
    /\ \A w \in Workers : WF_vars(Worker(w))
    /\ \A c \in Closers :
         /\ WF_vars(CloseDone(c) \/ ReceiveAlive(c) \/ DrainReceive(c) \/ Exec(c))
         /\ WF_vars(DrainEmpty(c) \/ TimedOut(c))
         /\ WF_vars(Expire(c))

FairSpec == Spec /\ Fairness

-----------------------------------------------------------------------------
(* Properties.                                                             *)

\* A callback is executed at most once, whoever takes it from the channel,
\* worker or drain, and only if it was sent.
AtMostOnce ==
    /\ \A i, j \in 1..Len(started) : started[i] = started[j] => i = j
    /\ Started \subseteq Sent

\* When the Shutdown that won the swap drains the channel or has returned true,
\* no worker is left: nobody executes beside it, nor after it returned.
PoolQuiescent ==
    \A c \in Closers :
        /\ close[c] = "drain" => exited = Workers
        /\ close[c] = "true" => exited = Workers /\ \A e \in Executors : holds[e] = NoCallback

\* Shutdown returning true from the drain keeps the promise of the queue: every
\* callback sent before it won the swap has been executed to its end.
ShutdownDrains ==
    \A c \in Closers : close[c] = "true" => promised \subseteq finished

\* Callbacks start in the order they were sent (the comment on the type, lines
\* 16-18), up to what the workers hold: one that is overtaken has already been
\* received by another worker, so one worker starts them in order.
OvertakenIsHeld ==
    \A i, j \in DOMAIN order :
        i < j /\ order[j] \in Started /\ order[i] \notin Started =>
            \E e \in Executors : holds[e] = order[i]

\* Every worker executes a callback that waits for room in the full channel,
\* room that only a worker could make.
Stuck ==
    \A w \in Workers : w \in calling /\ \E f \in Callbacks : Parent[f] = holds[w] /\ enq[f] = "blocked"

\* Without a Shutdown, a callback that was sent is executed to its end, even
\* when its sender had to block on the full channel, unless all the workers wait
\* for each other in callbacks that enqueue.
SentIsExecuted ==
    \A f \in Callbacks : (f \in Sent) ~> (f \in finished \/ idone \/ Stuck)
=============================================================================

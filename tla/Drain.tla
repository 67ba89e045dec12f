------------------------------- MODULE Drain -------------------------------
(***************************************************************************)
(* Writing to one client's socket: lib/write.js, and in lib/client.js      *)
(* waitForDrain, _handleDrain, _handleDrainTimeout, _onError and the parts *)
(* of close() that touch the socket.  A write whose packet does not fit in *)
(* the socket's buffer parks its callback until the socket drains, until   *)
(* one timer shared by all the parked callbacks expires, or until the      *)
(* client closes.  Each action is one turn of the event loop.              *)
(*                                                                         *)
(* Abstracted: packets (a write is a name) and the size of the buffer      *)
(* (writeToStream answers true or false as it likes while there is room).  *)
(* The order inside _pendingDrains is dropped: they are always released    *)
(* all together.                                                           *)
(***************************************************************************)
EXTENDS Naturals, FiniteSets

CONSTANTS
  Writes,          \* the calls of write() made on this client
  DrainTimeout     \* whether broker.opts.drainTimeout > 0

ASSUME DrainAssumption ==
  /\ IsFiniteSet(Writes)
  /\ DrainTimeout \in BOOLEAN

VARIABLES
  requested,       \* the writes that have been called
  pending,         \* client._pendingDrains
  raw,             \* callbacks registered with conn.once('drain', callback)
  timer,           \* client._drainTimer # null
  bound,           \* how often _onDrainBound is registered for 'drain'
  tasks,           \* setImmediate(done, error): pairs of a write and "has an error"
  answered,        \* how often each write's callback has been called
  full,            \* the socket is above its high water mark
  conn,            \* the socket: "open" or "destroyed"
  errored,         \* client.errored
  phase,           \* "open", "closing": close() ran, "closed": its finish() ran
  writable,        \* client.connecting || client.connected
  connectPending   \* the CONNECT's chain of actions has not called back yet

waiting == <<pending, raw, timer, bound>>
socket == <<full, conn>>
vars == <<requested, pending, raw, timer, bound, tasks, answered, full, conn,
          errored, phase, writable, connectPending>>

TypeOK ==
  /\ requested \subseteq Writes
  /\ pending \subseteq Writes
  /\ raw \subseteq Writes
  /\ timer \in BOOLEAN
  /\ bound \in Nat
  /\ tasks \subseteq Writes \X BOOLEAN
  /\ answered \in [Writes -> Nat]
  /\ full \in BOOLEAN
  /\ conn \in {"open", "destroyed"}
  /\ errored \in BOOLEAN
  /\ phase \in {"open", "closing", "closed"}
  /\ writable \in BOOLEAN
  /\ connectPending \in BOOLEAN

\* A client whose CONNECT has been accepted by preConnect: the first state in
\* which write() may be called on it.
Init ==
  /\ requested = {} /\ pending = {} /\ raw = {} /\ tasks = {}
  /\ timer = FALSE /\ bound = 0
  /\ answered = [w \in Writes |-> 0]
  /\ full = FALSE /\ conn = "open" /\ errored = FALSE
  /\ phase = "open" /\ writable = TRUE /\ connectPending = TRUE

-----------------------------------------------------------------------------
\* Parts of the handlers.

Call(count, W) == [w \in Writes |-> IF w \in W THEN count[w] + 1 ELSE count[w]]

Less(n) == IF n > 0 THEN n - 1 ELSE 0      \* removeListener of one listener

\* (faulty variant) the timer is not started with the first parked callback
WaitForDrainNoTimer(w) ==
  /\ pending' = pending \cup {w} /\ bound' = 1
  /\ UNCHANGED <<raw, timer>>

\* waitForDrain(callback)
WaitForDrain(w) ==
  IF DrainTimeout
  THEN /\ pending' = pending \cup {w}
       /\ timer' = TRUE
       /\ bound' = IF timer THEN bound ELSE bound + 1
       /\ UNCHANGED raw
  ELSE /\ raw' = raw \cup {w}
       /\ UNCHANGED <<pending, timer, bound>>

\* The listeners of 'drain' run: _handleDrain, or the callbacks themselves.
EmitDrain ==
  /\ pending' = IF bound > 0 THEN {} ELSE pending
  /\ tasks' = IF bound > 0 THEN tasks \cup (pending \X {FALSE}) ELSE tasks
  /\ timer' = (timer /\ bound = 0)
  /\ bound' = 0
  /\ answered' = Call(answered, raw)
  /\ raw' = {}

\* (faulty variants) close() keeps the list it flushes, or drops it unflushed
DropWaitersKeeping(base) ==
  /\ timer' = FALSE
  /\ tasks' = base \cup (pending \X {TRUE})
  /\ UNCHANGED pending

DropWaitersSilently(base) ==
  /\ timer' = FALSE /\ tasks' = base /\ pending' = {}

\* The drain part of close(): timer, listener and parked callbacks.  'base'
\* is the set of tasks this turn of the event loop leaves behind.
DropWaiters(base) ==
  /\ timer' = FALSE
  /\ tasks' = base \cup (pending \X {TRUE})
  /\ pending' = {}

\* close(), as far as waiting writes go: a no-op on a client already closing.
\* finish() runs in the same turn when there is no subscription to remove, in
\* a later one otherwise; it emits 'drain' by hand and drops the listeners.
\* 'count' is answered, this turn's call included.
Close(base, count) ==
  IF phase # "open"
  THEN /\ tasks' = base /\ answered' = count
       /\ UNCHANGED <<waiting, phase>>
  ELSE /\ DropWaiters(base)
       /\ \/ /\ phase' = "closing" /\ bound' = Less(bound)
             /\ answered' = count
             /\ UNCHANGED raw
          \/ /\ phase' = "closed" /\ bound' = 0
             /\ answered' = Call(count, raw)
             /\ raw' = {}

Finishes == phase # "closed" /\ phase' = "closed"

\* _onError(err)
OnError(base, count) ==
  /\ errored' = TRUE /\ conn' = "destroyed"
  /\ Close(base, count)

-----------------------------------------------------------------------------
\* write(client, packet, done)
Write(w) ==
  /\ w \notin requested
  /\ requested' = requested \cup {w}
  /\ \/ \* 'connection closed', or 'packet received not valid' thrown by writeToStream
        /\ tasks' = tasks \cup {<<w, TRUE>>}
        /\ UNCHANGED <<waiting, full>>
     \/ /\ writable
        /\ \E result \in IF full \/ conn = "destroyed" THEN {FALSE} ELSE BOOLEAN :
             /\ full' = (full \/ ~result)
             /\ IF ~result /\ ~errored
                THEN WaitForDrain(w) /\ UNCHANGED tasks
                ELSE tasks' = tasks \cup {<<w, FALSE>>} /\ UNCHANGED waiting
  /\ UNCHANGED <<answered, conn, errored, phase, writable, connectPending>>

\* A scheduled callback runs.  Every caller of write() hands an error it gets
\* on to client._onError, through nextBatch, deliver0 or writeQoS.
RunTask(w, err) ==
  /\ <<w, err>> \in tasks
  /\ LET base  == tasks \ {<<w, err>>}
         count == Call(answered, {w})
     IN  IF err
         THEN OnError(base, count)
         ELSE /\ tasks' = base /\ answered' = count
              /\ UNCHANGED <<waiting, conn, errored, phase>>
  /\ writable' = (writable /\ ~Finishes)
  /\ UNCHANGED <<requested, full, connectPending>>

\* The peer has read enough: the socket is writable again and emits 'drain'.
SocketDrain ==
  /\ conn = "open" /\ full
  /\ full' = FALSE
  /\ EmitDrain
  /\ UNCHANGED <<requested, conn, errored, phase, writable, connectPending>>

\* (faulty variant) the 'drain' listener survives the timeout
HandleDrainTimeoutKeepsListener ==
  /\ timer
  /\ timer' = FALSE
  /\ tasks' = tasks \cup (pending \X {TRUE})
  /\ pending' = {}
  /\ conn' = "destroyed"
  /\ UNCHANGED <<requested, raw, bound, answered, full, errored, phase, writable, connectPending>>

\* _handleDrainTimeout
HandleDrainTimeout ==
  /\ timer
  /\ timer' = FALSE
  /\ bound' = Less(bound)
  /\ tasks' = tasks \cup (pending \X {TRUE})
  /\ pending' = {}
  /\ conn' = "destroyed"
  /\ UNCHANGED <<requested, raw, answered, full, errored, phase, writable, connectPending>>

\* A handler destroys the socket: DISCONNECT, or a packet out of protocol.
Destroy ==
  /\ conn = "open" /\ phase = "open"
  /\ conn' = "destroyed"
  /\ UNCHANGED <<requested, waiting, tasks, answered, full, errored, phase, writable,
                 connectPending>>

\* The socket reports its end, its close or an error, or another handler
\* closes the client: close(), directly or through _onError.
SocketEvent ==
  /\ phase = "open"
  /\ \/ OnError(tasks, answered)
     \/ /\ Close(tasks, answered)
        /\ conn' = IF phase' = "closed" THEN "destroyed" ELSE conn
        /\ UNCHANGED errored
  /\ writable' = (writable /\ ~Finishes)
  /\ UNCHANGED <<requested, full, connectPending>>

\* (faulty variants) finish() does not emit 'drain' before it drops the
\* listeners, or leaves the listeners alone altogether
FinishWithoutDrain ==
  /\ phase = "closing"
  /\ phase' = "closed"
  /\ writable' = FALSE
  /\ raw' = {} /\ bound' = 0 /\ conn' = "destroyed"
  /\ UNCHANGED <<requested, pending, timer, tasks, answered, full, errored, connectPending>>

FinishKeepingListeners ==
  /\ phase = "closing"
  /\ phase' = "closed"
  /\ writable' = FALSE
  /\ conn' = "destroyed"
  /\ UNCHANGED <<requested, waiting, tasks, answered, full, errored, connectPending>>

\* finish() of close(): the client's subscriptions have been removed.
Finish ==
  /\ phase = "closing"
  /\ phase' = "closed"
  /\ writable' = FALSE
  /\ EmitDrain
  /\ conn' = "destroyed"
  /\ UNCHANGED <<requested, full, errored, connectPending>>

\* The last callback of the CONNECT's chain.  It does not look at
\* client.closed: a success sets connected again on a client that has closed.
ConnectDone ==
  /\ connectPending
  /\ connectPending' = FALSE
  /\ \/ /\ writable' = TRUE
        /\ UNCHANGED <<waiting, tasks, answered, conn, errored, phase>>
     \/ /\ writable' = FALSE
        /\ OnError(tasks, answered)
  /\ UNCHANGED <<requested, full>>

RunTasks == \E w \in Writes, err \in BOOLEAN : RunTask(w, err)

Next ==
  \/ \E w \in Writes : Write(w)
  \/ RunTasks
  \/ SocketDrain
  \/ HandleDrainTimeout
  \/ Destroy
  \/ SocketEvent
  \/ Finish
  \/ ConnectDone

\* setImmediate callbacks run, timers expire, mqemitter answers a removal and
\* a destroyed socket reports its close.  Nothing obliges a peer to read (no
\* fairness of SocketDrain), to send or to disconnect.
Fairness ==
  /\ \A w \in Writes, err \in BOOLEAN : WF_vars(RunTask(w, err))
  /\ WF_vars(HandleDrainTimeout)
  /\ WF_vars(Finish)
  /\ WF_vars(SocketEvent /\ conn = "destroyed")

Safe == Init /\ [][Next]_vars
Spec == Safe /\ Fairness

-----------------------------------------------------------------------------
\* Properties.

\* The callback of a write is called at most once, whatever mix of drain
\* events, timeouts, errors and closes it meets (client.js:233, 254, 342).
AnsweredOnce == \A w \in Writes : answered[w] <= 1

\* Parked callbacks, the shared timer and the 'drain' listener come and go
\* together: no callback waits without a timer that will release it, no timer
\* or listener outlives the callbacks it serves, and the listener is never
\* registered twice (client.js:269-296).
TimerServesWaiters ==
  DrainTimeout => /\ timer <=> pending # {}
                  /\ bound = IF timer THEN 1 ELSE 0

\* Once finish() has run no callback waits on the dead socket (client.js:395),
\* unless the CONNECT's chain has set the client connected again.
NoWaiterAfterFinish == phase = "closed" /\ ~writable => pending \cup raw = {}

\* Every write is in exactly one place: not called yet, answered, or where some
\* event will release it, parked for the timer, parked on 'drain' or scheduled.
\* A callback is never forgotten, and never left in two places.
InTasks(w, T) == <<w, TRUE>> \in T \/ <<w, FALSE>> \in T

PlacedOnce(w, P, R, T, A) ==
  /\ w \in requested <=> w \in P \/ w \in R \/ InTasks(w, T) \/ A[w] = 1
  /\ w \in P => w \notin R
  /\ w \in P \cup R => ~InTasks(w, T)
  /\ ~(<<w, TRUE>> \in T /\ <<w, FALSE>> \in T)
  /\ w \in P \cup R \/ InTasks(w, T) => A[w] = 0

Accounted == \A w \in Writes : PlacedOnce(w, pending, raw, tasks, answered)

\* Every write gets its answer although the peer may never read again: the
\* callbacks a frozen client holds are released by the timer.
EveryWriteAnswered == \A w \in Writes : w \in requested ~> answered[w] = 1

\* Without a drain timeout a callback may wait for ever on a frozen client,
\* but closing the client releases it.
CloseReleasesWaiters ==
  \A w \in Writes : w \in raw /\ phase = "closing" ~> answered[w] = 1

\* Where each write stands, for the abstract specification.
ReplyOf(w) ==
  CASE answered[w] = 0 /\ w \notin requested -> "unasked"
    [] answered[w] = 0 /\ w \in requested -> "owed"
    [] answered[w] = 1 -> "given"
    [] OTHER -> "twice"

\* The socket code implements the promise of module WriteReply: safety and,
\* with a drain timeout, liveness.
Reply == INSTANCE WriteReply WITH reply <- [w \in Writes |-> ReplyOf(w)]
ImplementsReply == Reply!Spec
=============================================================================

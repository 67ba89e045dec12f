------------------------------- MODULE Intake -------------------------------
(***************************************************************************)
(* From the socket to the packet handlers: nextBatch(), enqueue() and      *)
(* dequeue() of lib/client.js, with the parts of the CONNECT's chain that  *)
(* pause the client, resume it and empty its queue.                        *)
(*                                                                         *)
(* client._parsingBatch counts the handlers that have to call back before  *)
(* the socket is read again, but nextBatch() is also the listener of the   *)
(* socket's 'readable' event, and counts down for it as well.              *)
(*                                                                         *)
(* Packets are numbered as they arrive; number 1 is the CONNECT.           *)
(* Abstracted: what the handlers do.  Errors of handlers, of the CONNECT   *)
(* and of the socket all close the client, and are one action.             *)
(***************************************************************************)
EXTENDS Naturals, Sequences, FiniteSets, Functions

CONSTANTS
  MaxPackets,  \* bound: packets of the behaviour
  QueueLimit   \* broker.queueLimit

ASSUME IntakeAssumption == MaxPackets \in Nat /\ QueueLimit \in Nat

Packets == 1..MaxPackets

VARIABLES
  received,    \* packets that have reached the socket
  read,        \* packets that were read from it and parsed
  readable,    \* the socket is about to emit 'readable'
  paused,      \* client._paused
  batch,       \* client._parsingBatch
  queue,       \* client._parser._queue, empty when it is null
  handled,     \* the packets given to handle(), in order
  running,     \* those whose handler has not called back
  stage,       \* how far the CONNECT's chain is
  closed,      \* client.closed
  causes       \* what may have changed the order; only the properties read it

socket == <<received, readable>>
vars == <<socket, read, paused, batch, queue, handled, running, stage, closed, causes>>

Stages == {"start", "preConnect", "init", "session", "emptyQueue", "open"}

TypeOK ==
  /\ read \in 0..received /\ received \in 0..MaxPackets
  /\ readable \in BOOLEAN /\ paused \in BOOLEAN /\ closed \in BOOLEAN
  /\ batch \in Nat
  /\ queue \in Seq(Packets) /\ Len(queue) <= QueueLimit
  /\ handled \in Seq(Packets)
  /\ running \subseteq Packets
  /\ stage \in Stages
  /\ causes \subseteq {"early", "jumped"}

Init ==
  /\ received = 0 /\ read = 0 /\ readable = FALSE
  /\ paused = FALSE /\ batch = 1
  /\ queue = <<>> /\ handled = <<>> /\ running = {}
  /\ stage = "start" /\ closed = FALSE /\ causes = {}

-----------------------------------------------------------------------------
\* Parsing.

\* client.connackSent
ConnackSent == stage \in {"emptyQueue", "open"}

\* What a read returns: all that has arrived.
Fresh == [i \in 1..(received - read) |-> read + i]
Less(n, k) == IF n > k THEN n - k ELSE 0

\* (faulty variant) the packet that comes last is the first of the queue
PushFirst(q, w) == [i \in 1..Len(w) |-> w[Len(w) + 1 - i]] \o q

\* _queue.push() of each packet of w
Push(q, w) == q \o w

\* (faulty variant) packets beyond the queue's limit are dropped
ParseDropping(run) ==
  LET room    == QueueLimit - Len(queue)
      waiting == IF Len(Fresh) - 1 <= room THEN Tail(Fresh) ELSE SubSeq(Fresh, 2, room + 1)
  IN  /\ read' = received
      /\ handled' = Append(handled, Fresh[1])
      /\ running' = run \cup {Fresh[1]}
      /\ batch' = 1 + Len(waiting)
      /\ stage' = IF Fresh[1] = 1 THEN "preConnect" ELSE stage
      /\ queue' = queue \o waiting
      /\ UNCHANGED <<closed, causes>>

\* enqueue() before the CONNACK, for the packets of a read: the first one finds
\* batch = 1 and is handled at once, and so is each one after it as long as the
\* handler of the one before has called back at once, which that of CONNECT
\* never does.  The others are queued; the queue's limit is an error.
ParseEarly(run) ==
  \E k \in 1..Len(Fresh) :
    LET waiting == SubSeq(Fresh, k + 1, Len(Fresh)) IN
    /\ Fresh[1] = 1 => k = 1
    /\ read' = received
    /\ handled' = handled \o SubSeq(Fresh, 1, k)
    /\ running' = run \cup {Fresh[k]}
    /\ batch' = 1 + Len(waiting)
    /\ stage' = IF Fresh[1] = 1 THEN "preConnect" ELSE stage
    /\ causes' = IF Fresh[1] = 1 THEN causes ELSE causes \cup {"early"}
    /\ IF Len(queue) + Len(waiting) <= QueueLimit
       THEN queue' = Push(queue, waiting) /\ UNCHANGED closed
       ELSE queue' = <<>> /\ closed' = TRUE

\* (faulty variant) the callback that leads to the read is counted once more
ParseLateOver(run) ==
  /\ read' = received
  /\ handled' = handled \o Fresh
  /\ running' = run \cup Range(Fresh)
  /\ batch' = 1 + Len(Fresh)
  /\ causes' = IF queue # <<>> /\ Fresh # <<>> THEN causes \cup {"jumped"} ELSE causes
  /\ UNCHANGED <<queue, stage, closed>>

\* The same after the CONNACK: every packet is handled at once, even if others
\* are still in the queue.
ParseLate(run) ==
  /\ read' = received
  /\ handled' = handled \o Fresh
  /\ running' = run \cup Range(Fresh)
  /\ batch' = Len(Fresh)
  /\ causes' = IF queue # <<>> /\ Fresh # <<>> THEN causes \cup {"jumped"} ELSE causes
  /\ UNCHANGED <<queue, stage, closed>>

\* (faulty variant) the socket is read one callback late
NextBatchLate(run) ==
  IF batch > 0 \/ Fresh = <<>>
  THEN /\ batch' = Less(batch, 1) /\ running' = run
       /\ UNCHANGED <<read, queue, handled, stage, closed, causes>>
  ELSE IF ConnackSent THEN ParseLate(run) ELSE ParseEarly(run)

\* nextBatch() of a client that is not paused, where 'run' are the handlers
\* still to call back.
NextBatch(run) ==
  IF batch > 1 \/ Fresh = <<>>
  THEN /\ batch' = Less(batch, 1)
       /\ running' = run
       /\ UNCHANGED <<read, queue, handled, stage, closed, causes>>
  ELSE IF ConnackSent THEN ParseLate(run) ELSE ParseEarly(run)

-----------------------------------------------------------------------------
\* Actions.

Arrive ==
  /\ ~closed
  /\ received' \in (received + 1)..MaxPackets
  /\ readable' = TRUE
  /\ UNCHANGED <<read, paused, batch, queue, handled, running, stage, closed, causes>>

\* The socket emits 'readable'.
Readable ==
  /\ ~closed /\ readable
  /\ readable' = FALSE
  /\ IF paused
     THEN UNCHANGED <<read, batch, queue, handled, running, stage, closed, causes>>
     ELSE NextBatch(running)
  /\ UNCHANGED <<received, paused>>

\* A handler calls back (not that of CONNECT, see Emptied).
Done(p) ==
  /\ ~closed /\ p \in running \ {1}
  /\ IF paused
     THEN /\ running' = running \ {p}
          /\ UNCHANGED <<read, batch, queue, handled, stage, closed, causes>>
     ELSE NextBatch(running \ {p})
  /\ UNCHANGED <<socket, paused>>

\* preConnect has called back: setImmediate(init).
PreConnected ==
  /\ ~closed /\ stage = "preConnect"
  /\ stage' = "init"
  /\ UNCHANGED <<socket, read, paused, batch, queue, handled, running, closed, causes>>

\* init() starts the chain with authenticate(), which pauses the client.
InitConnect ==
  /\ ~closed /\ stage = "init"
  /\ stage' = "session" /\ paused' = TRUE
  /\ UNCHANGED <<socket, read, batch, queue, handled, running, closed, causes>>

\* The CONNACK is written, and emptyQueue() resumes the client: resume() calls
\* nextBatch().
Connack ==
  /\ ~closed /\ stage = "session"
  /\ stage' = "emptyQueue" /\ paused' = FALSE
  /\ IF batch > 1 \/ Fresh = <<>>
     THEN batch' = Less(batch, 1) /\ UNCHANGED <<read, handled, running, causes>>
     ELSE /\ read' = received
          /\ handled' = handled \o Fresh
          /\ running' = running \cup Range(Fresh)
          /\ batch' = Len(Fresh)
          /\ causes' = IF queue # <<>> THEN causes \cup {"jumped"} ELSE causes
  /\ UNCHANGED <<socket, queue, closed>>

\* emptyQueue() is through: 'connected' is emitted, dequeue() handles the
\* queue, and the CONNECT's own handler calls back.  The handlers 'prompt' call
\* back at once, and the one that brings the count to zero reads the socket in
\* the middle of dequeue(), after the packet 'at' of the queue.
Emptied ==
  /\ ~closed /\ stage = "emptyQueue"
  /\ stage' = "open"
  /\ \E prompt \in SUBSET (1..Len(queue)), at \in 0..Len(queue) :
       LET calls == Cardinality(prompt) + 1
           turn  == IF batch = 0 THEN 1 ELSE batch
           new   == IF calls < turn THEN <<>> ELSE Fresh
       IN  /\ IF turn >= calls THEN at = Len(queue)
              ELSE at \in prompt /\ Cardinality({j \in prompt : j <= at}) = turn
           /\ handled' = handled \o SubSeq(queue, 1, at) \o new \o SubSeq(queue, at + 1, Len(queue))
           /\ running' = ((running \ {1}) \cup {queue[i] : i \in (1..Len(queue)) \ prompt})
                           \cup Range(new)
           /\ batch' = IF calls < turn THEN batch - calls ELSE Less(Len(new), calls - turn)
           /\ read' = read + Len(new)
           /\ causes' = IF new # <<>> /\ at < Len(queue) THEN causes \cup {"jumped"} ELSE causes
  /\ queue' = <<>>
  /\ UNCHANGED <<socket, paused, closed>>

\* An error of any handler or of the socket, or the end of the connection.
Close ==
  /\ ~closed
  /\ closed' = TRUE /\ queue' = <<>>
  /\ UNCHANGED <<socket, read, paused, batch, handled, running, stage, causes>>

Chain == PreConnected \/ InitConnect \/ Connack \/ Emptied

Next ==
  \/ Arrive \/ Readable \/ Chain \/ Close
  \/ \E p \in Packets : Done(p)

\* The socket emits its events, and the handlers and the CONNECT's chain go on.
Spec ==
  /\ Init /\ [][Next]_vars
  /\ WF_vars(Readable) /\ WF_vars(Chain) /\ WF_vars(\E p \in Packets : Done(p))

-----------------------------------------------------------------------------
\* Properties.

\* Each packet that was read is handled once or waits in the queue once.
NothingLost ==
  ~closed => /\ Range(handled) \cup Range(queue) = 1..read
             /\ Len(handled) + Len(queue) = read

\* Packets are handled in the order in which they arrived, unless a read found
\* packets still queued, or was the first one after that of the CONNECT but
\* before authenticate().
InOrder ==
  ~closed /\ causes = {} => handled \o queue = [i \in 1..read |-> i]

\* nextBatch() never waits for more callbacks than are still to come: those of
\* the queued packets and of the CONNECT, and from then on those of the running
\* handlers.  (Callbacks that come while the client is paused are not counted.)
CountdownEnds ==
  ~closed /\ stage # "start" =>
    batch <= IF ConnackSent THEN Cardinality(running) + Len(queue) ELSE 1 + Len(queue)

\* What has arrived is read at last, as long as the client is open.
EverythingRead == []<>(closed \/ read = received)
=============================================================================

------------------------------ MODULE Publish ------------------------------
(***************************************************************************)
(* Publishing through the broker: broker.publish() in aedes.js with its    *)
(* two series of actions, client.publish() and the delivery functions of   *)
(* lib/client.js with their dedupe(), and the concurrency slots of the     *)
(* external mqemitter that calls them.                                     *)
(*                                                                         *)
(* A message gets its number (packet.brokerCounter) when publish() is      *)
(* called, and is emitted when the persistence has answered for it.        *)
(* Subscribers compare numbers to drop duplicates, so what is published    *)
(* and what is emitted meanwhile matters.                                  *)
(*                                                                         *)
(* Abstracted: topics (Matches says which handlers a message reaches), and *)
(* what happens between the acceptance of a message by a client and the    *)
(* call of the handler's callback, which is the subject of module Drain.   *)
(* Only messages of this broker: numbers are kept per brokerId.            *)
(***************************************************************************)
EXTENDS Integers, Sequences, FiniteSets

CONSTANTS
  Msgs,         \* the calls of publish()
  Clients,      \* the subscribed clients
  Handlers,     \* their subscriptions: functions registered with mqemitter
  Owner,        \* the client of each handler
  Matches,      \* the handlers whose topic filter each message matches
  Retained,     \* messages with packet.retain
  Queued,       \* messages with packet.qos > 0
  Direct,       \* messages of client.publish(), not of broker.publish()
  Target,       \* the client such a message is published on
  Barred,       \* <<m, h>>: no-local makes handler h ignore message m
  Refused,      \* <<m, c>>: authorizeForward withholds message m from client c
  Concurrency   \* opts.concurrency; 0 for no limit

ASSUME PublishAssumption ==
  /\ IsFiniteSet(Msgs) /\ IsFiniteSet(Handlers)
  /\ Owner \in [Handlers -> Clients]
  /\ Matches \in [Msgs -> SUBSET Handlers]
  /\ Retained \subseteq Msgs /\ Queued \subseteq Msgs /\ Direct \subseteq Msgs
  /\ Target \in [Direct -> Clients]
  /\ Barred \subseteq Msgs \X Handlers
  /\ Refused \subseteq Msgs \X Clients
  /\ Concurrency \in Nat

VARIABLES
  counter,      \* broker.counter
  number,       \* packet.brokerCounter of each message, 0 before publish()
  stage,        \* the callback the message waits for
  queue,        \* messages waiting for a slot of mqemitter
  current,      \* the slots of mqemitter in use
  todo,         \* <<m, h>>: handler h has been called with m and not called back
  duplicates,   \* client.duplicates[broker.id] of each client
  got           \* the messages each client has accepted, in order

vars == <<counter, number, stage, queue, current, todo, duplicates, got>>

Stages == {"new", "storeRetained", "subscriptionsByTopic", "outgoingEnqueue",
           "waiting", "emitted", "published", "done", "failed", "stuck"}

TypeOK ==
  /\ counter \in Nat
  /\ number \in [Msgs -> Nat]
  /\ stage \in [Msgs -> Stages]
  /\ queue \in Seq(Msgs)
  /\ current \in Nat
  /\ todo \subseteq Msgs \X Handlers
  /\ duplicates \in [Clients -> Nat]
  /\ got \in [Clients -> Seq(Msgs)]

Init ==
  /\ counter = 0 /\ current = 0
  /\ number = [m \in Msgs |-> 0]
  /\ stage = [m \in Msgs |-> "new"]
  /\ queue = <<>>
  /\ todo = {}
  /\ duplicates = [c \in Clients |-> 0]
  /\ got = [c \in Clients |-> <<>>]

-----------------------------------------------------------------------------
\* Delivery.

\* How many handlers of client c pass the no-local test for m.
Asks(m, c) == Cardinality({h \in Matches[m] : Owner[h] = c /\ <<m, h>> \notin Barred})

\* (faulty variant) dedupe() accepts the number it has just seen again
FreshOrEqual(seen, n) == seen <= n

\* dedupe(client, packet), where seen is client.duplicates[broker.id]
Fresh(seen, n) == seen < n

\* Each client c is asked asks[c] times to take message m, numbered n.  It
\* remembers the number the first time, so the second time the number is no
\* longer fresh.  authorizeForward comes after dedupe().
Hand(m, asks, n) ==
  LET copies(c) == IF asks[c] = 0 \/ ~Fresh(duplicates[c], n) THEN 0
                   ELSE IF Fresh(n, n) THEN asks[c] ELSE 1
  IN  /\ duplicates' = [c \in Clients |-> IF copies(c) > 0 THEN n ELSE duplicates[c]]
      /\ got' = [c \in Clients |-> IF <<m, c>> \in Refused THEN got[c]
                                    ELSE got[c] \o [i \in 1..copies(c) |-> m]]

\* mqemitter calls the handlers of m, one after another in one turn.
Call(m, n) ==
  /\ todo' = todo \cup ({m} \X Matches[m])
  /\ Hand(m, [c \in Clients |-> Asks(m, c)], n)

\* (faulty variant) a message is emitted without taking a slot
EmitUncounted(m, numbers) ==
  /\ Call(m, numbers[m])
  /\ stage' = [stage EXCEPT ![m] = IF Matches[m] = {} THEN "published" ELSE "emitted"]
  /\ UNCHANGED <<queue, current>>

\* mq.emit(m, done): takes a slot, or waits for one.  A message that no
\* handler matches gives its slot back at once.  'numbers' is number, this
\* turn's changes included.
Emit(m, numbers) ==
  IF Concurrency > 0 /\ current >= Concurrency
  THEN /\ queue' = Append(queue, m)
       /\ stage' = [stage EXCEPT ![m] = "waiting"]
       /\ UNCHANGED <<current, todo, duplicates, got>>
  ELSE /\ Call(m, numbers[m])
       /\ IF Matches[m] = {}
          THEN stage' = [stage EXCEPT ![m] = "published"] /\ UNCHANGED current
          ELSE stage' = [stage EXCEPT ![m] = "emitted"] /\ current' = current + 1
       /\ UNCHANGED queue

\* (faulty variant) a released slot is never given to a waiting message
ReleaseOnly(m) ==
  /\ current' = current - 1
  /\ stage' = [stage EXCEPT ![m] = "published"]
  /\ todo' = {x \in todo : x[1] # m}
  /\ UNCHANGED <<queue, duplicates, got>>

\* The slot of m goes to the first waiting message that has handlers to call;
\* those before it are through at once.
Release(m) ==
  \E k \in 1..(Len(queue) + 1) :
    LET through == {queue[j] : j \in 1..(k - 1)} IN
    /\ \A x \in through : Matches[x] = {}
    /\ IF k > Len(queue)
       THEN /\ current' = current - 1
            /\ queue' = <<>>
            /\ stage' = [x \in Msgs |-> IF x \in through \cup {m} THEN "published"
                                        ELSE stage[x]]
            /\ todo' = {x \in todo : x[1] # m}
            /\ UNCHANGED <<duplicates, got>>
       ELSE /\ Matches[queue[k]] # {}
            /\ queue' = SubSeq(queue, k + 1, Len(queue))
            /\ stage' = [x \in Msgs |-> IF x \in through \cup {m} THEN "published"
                                        ELSE IF x = queue[k] THEN "emitted" ELSE stage[x]]
            /\ todo' = {x \in todo : x[1] # m} \cup ({queue[k]} \X Matches[queue[k]])
            /\ Hand(queue[k], [c \in Clients |-> Asks(queue[k], c)], number[queue[k]])
            /\ UNCHANGED current

-----------------------------------------------------------------------------
\* broker.publish(m): the number is given, and the first actions of the series
\* run until one of them has to wait.  QoS 0 messages have no enqueueOffline.

Goto(m, s) == stage' = [stage EXCEPT ![m] = s]

Waits(m, s) ==
  /\ Goto(m, s)
  /\ UNCHANGED <<queue, current, todo, duplicates, got>>

\* (faulty variant) every message is given the series for QoS > 0
AfterRetainEnqueues(m, numbers) == Waits(m, "subscriptionsByTopic")

\* The action after storeRetained.
AfterRetain(m, numbers) ==
  IF m \in Queued THEN Waits(m, "subscriptionsByTopic") ELSE Emit(m, numbers)

PublishMessage(m) ==
  /\ stage[m] = "new" /\ m \notin Direct
  /\ \/ \* 'topic has too many levels'
        Waits(m, "failed") /\ UNCHANGED <<counter, number>>
     \/ /\ counter' = counter + 1
        /\ number' = [number EXCEPT ![m] = counter + 1]
        /\ IF m \in Retained THEN Waits(m, "storeRetained")
           ELSE AfterRetain(m, [number EXCEPT ![m] = counter + 1])

\* persistence.storeRetained has answered.
StoreRetained(m) ==
  /\ stage[m] = "storeRetained"
  /\ AfterRetain(m, number) \/ Waits(m, "failed")
  /\ UNCHANGED <<counter, number>>

\* persistence.subscriptionsByTopic has answered: doneEnqueue.  On an error
\* the broker emits 'error' and never calls back.
SubscriptionsByTopic(m) ==
  /\ stage[m] = "subscriptionsByTopic"
  /\ Waits(m, "outgoingEnqueue") \/ Waits(m, "stuck")
  /\ UNCHANGED <<counter, number>>

\* persistence.outgoingEnqueueCombi has answered.
OutgoingEnqueue(m) ==
  /\ stage[m] = "outgoingEnqueue" /\ m \notin Direct
  /\ Emit(m, number) \/ Waits(m, "failed")
  /\ UNCHANGED <<counter, number>>

\* A handler calls back: its client has written the message, refused it, or
\* closed.  The last one of a message releases its slot, and callPublished runs.
HandlerDone(m, h) ==
  /\ <<m, h>> \in todo
  /\ IF \E x \in Matches[m] : x # h /\ <<m, x>> \in todo
     THEN todo' = todo \ {<<m, h>>} /\ UNCHANGED <<queue, current, stage, duplicates, got>>
     ELSE Release(m)
  /\ UNCHANGED <<counter, number>>

\* The program's 'published' has called back.
Published(m) ==
  /\ stage[m] = "published"
  /\ Waits(m, "done")
  /\ UNCHANGED <<counter, number>>

HandDirect(m, n) == Hand(m, [c \in Clients |-> IF c = Target[m] THEN 1 ELSE 0], n)

\* client.publish(m): past mqemitter, straight to one client.  With QoS > 0 a
\* persistent client enqueues it first.
ClientPublish(m) ==
  /\ stage[m] = "new" /\ m \in Direct
  /\ counter' = counter + 1
  /\ number' = [number EXCEPT ![m] = counter + 1]
  /\ \/ HandDirect(m, counter + 1) /\ Goto(m, "done")
     \/ /\ m \in Queued /\ Goto(m, "outgoingEnqueue")
        /\ UNCHANGED <<duplicates, got>>
  /\ UNCHANGED <<queue, current, todo>>

ClientEnqueued(m) ==
  /\ stage[m] = "outgoingEnqueue" /\ m \in Direct
  /\ \/ HandDirect(m, number[m]) /\ Goto(m, "done")
     \/ Goto(m, "failed") /\ UNCHANGED <<duplicates, got>>
  /\ UNCHANGED <<counter, number, queue, current, todo>>

Next ==
  \E m \in Msgs :
    \/ PublishMessage(m)
    \/ StoreRetained(m)
    \/ SubscriptionsByTopic(m)
    \/ OutgoingEnqueue(m)
    \/ \E h \in Handlers : HandlerDone(m, h)
    \/ Published(m)
    \/ ClientPublish(m)
    \/ ClientEnqueued(m)

\* Every handler calls back (module Drain), and 'published' does.  Nothing is
\* asked of the persistence.
Fairness ==
  \A m \in Msgs :
    /\ \A h \in Handlers : WF_vars(HandlerDone(m, h))
    /\ WF_vars(Published(m))

Safe == Init /\ [][Next]_vars
Spec == Safe /\ Fairness

-----------------------------------------------------------------------------
\* Properties.

\* A client accepts each message at most once, although several of its
\* subscriptions match, and in the order of publish() (client.js:432).
AcceptedInOrder ==
  \A c \in Clients : \A i, j \in 1..Len(got[c]) :
    i < j => number[got[c][i]] < number[got[c][j]]

\* The slots of mqemitter in use are those of the messages whose handlers have
\* not all called back, and messages wait only while all slots are taken: a
\* message published later never overtakes them.
SlotsAccounted ==
  /\ current = Cardinality({m \in Msgs : stage[m] = "emitted"})
  /\ \A m \in Msgs : stage[m] = "emitted" <=> \E h \in Handlers : <<m, h>> \in todo
  /\ queue # <<>> => Concurrency > 0 /\ current = Concurrency
  /\ Concurrency > 0 => current <= Concurrency

\* A client misses a message only because one published later has been offered
\* to it: dedupe() takes the message for a duplicate, even if authorizeForward
\* then withheld the later one.  That happens to a message that waits for the
\* persistence while the later one does not (client.js:439).  A message that
\* broker.publish() emits at once is missed by nobody, even if it has to wait
\* for a slot, unless client.publish() is used on that client.
Simple(m) == m \notin Retained \cup Queued \cup Direct
Emitted(m) == stage[m] \in {"emitted", "published", "done"}
Offered(m, c) == IF m \in Direct THEN Target[m] = c ELSE Asks(m, c) > 0
MeantFor(m, c) == Offered(m, c) /\ <<m, c>> \notin Refused
Accepted(m, c) == \E i \in 1..Len(got[c]) : got[c][i] = m

DroppedOnlyIfOvertaken ==
  \A m \in Msgs, c \in Clients :
    Emitted(m) /\ MeantFor(m, c) /\ ~Accepted(m, c) =>
      /\ Simple(m) => \E d \in Direct : Target[d] = c
      /\ \E x \in Msgs : Emitted(x) /\ Offered(x, c) /\ number[x] > number[m]

\* A message that waits for a slot is emitted and its publisher called back,
\* as long as the handlers of the messages before it call back.
WaitingIsPublished == \A m \in Msgs : stage[m] = "waiting" ~> stage[m] = "done"
=============================================================================

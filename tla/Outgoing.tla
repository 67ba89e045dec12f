------------------------------ MODULE Outgoing ------------------------------
(***************************************************************************)
(* QoS 1 and QoS 2 messages for one client with a persistent session:      *)
(* enqueueOffline (aedes.js), deliverQoS (client.js), handlePuback,        *)
(* handlePubrec, emptyQueue (connect.js) and the external persistence's    *)
(* outgoing packets.                                                       *)
(*                                                                         *)
(* A message is stored for the session, then emitted.  A connected client  *)
(* has it at once, with a messageId that the entry is given too; any other *)
(* finds the entry when it comes back.  The two ways run side by side: the *)
(* stored entries are read once, after the subscriptions are restored.     *)
(* The persistence carries out what it is asked for at some time between   *)
(* the call and its answer, and may answer in any order: what waits for    *)
(* the answer, the write or a clearing, is a step of its own.              *)
(*                                                                         *)
(* Abstracted: topics and subscriptions (module Subscriptions). A message  *)
(* is matched by one subscription, or by two (Twice), and authorizeForward *)
(* refuses some. Taking a messageId and updating the entry are one step; a *)
(* call that fails has changed nothing. Two acknowledgements of one packet *)
(* that are under way together are one. Retained messages are not stored,  *)
(* and are left out.                                                       *)
(***************************************************************************)
EXTENDS Naturals, Sequences, SequencesExt

CONSTANTS
  MaxMsgs,    \* bound: messages published
  MaxConns,   \* bound: connections of the client
  MaxId,      \* the largest messageId (65535 in the code)
  FirstIds,   \* bound: where the messageIds of the first connection begin,
  LaterIds,   \*   and those of the others
  QoS2,       \* the messages of QoS 2, the others have QoS 1
  Doubtful,   \* the messages authorizeForward may refuse
  Twice       \* the messages that two subscriptions of the client match

Msgs == 1..MaxMsgs
Conns == 1..MaxConns
Ids == 1..MaxId

ASSUME OutgoingAssumption ==
  /\ MaxMsgs \in Nat /\ MaxConns \in Nat /\ MaxId \in Nat \ {0}
  /\ FirstIds \subseteq Ids /\ LaterIds \subseteq Ids
  /\ QoS2 \subseteq Msgs /\ Doubtful \subseteq Msgs /\ Twice \subseteq Msgs

VARIABLES
  \* The client (external):
  held,       \* the QoS 2 messageIds it has got and not seen released
  accepted,   \* how often it took each message as a new one
  \* The network:
  conn,       \* the number of the latest connection
  phase,      \* "down", "new", "subscribed", or "open" when the store is read
  toClient,   \* the packets under way to the client, in order
  acks,       \* the packets of the client whose handler has not finished
  \* The broker:
  queued,     \* messages stored by outgoingEnqueueCombi so far
  emitted,    \* messages emitted so far, in the same order
  store,      \* the outgoing entries of the session
  queue,      \* what emptyQueue's stream has still to send, by connection
  forwards,   \* the chains that have still to update or clear their entry
  replies,    \* the chains whose entry is updated, and not answered yet
  nextId,     \* client._nextId of the latest connection
  forbidden,  \* the messages authorizeForward refuses, always the same
  causes      \* only the properties read this: what has gone wrong so far

client == <<held, accepted>>
topics == <<queued, emitted>>
chains == <<forwards, replies>>
vars == <<client, conn, phase, toClient, acks, topics, store, queue, chains,
          nextId, forbidden, causes>>

Entries == [cmd : {"publish", "pubrel"}, msg : Msgs, id : 0..MaxId]
\* "refused" and "repeated" clear the entry of a message that deliverQoS does not
\* send, "clearing" one that emptyQueue does not.
Clearings == {"refused", "repeated", "clearing"}
Acks == [conn : Conns, cmd : {"puback", "pubrec", "pubcomp"}, id : Ids]

\* A message that authorizeForward refuses.
Refused(e) == e.cmd = "publish" /\ e.msg \in forbidden

\* write() reaches the client only on a connection that is not gone.
Current(c) == c = conn /\ phase # "down"

TypeOK ==
  /\ held \subseteq Ids /\ accepted \in [Msgs -> Nat]
  /\ conn \in 0..MaxConns /\ phase \in {"down", "new", "subscribed", "open"}
  /\ toClient \in Seq([cmd : {"publish", "pubrel"}, msg : Msgs, id : Ids])
  /\ acks \subseteq Acks
  /\ queued \in 0..MaxMsgs /\ emitted \in 0..queued
  /\ store \in Seq(Entries) /\ queue \in [Conns -> Seq(Entries)]
  /\ forwards \subseteq [conn : Conns, by : {"live"} \cup Clearings, entry : Entries]
  /\ replies \subseteq [conn : Conns, by : {"live", "stream", "pubrec"}, entry : Entries]
  /\ nextId \in Ids /\ forbidden \subseteq Doubtful
  /\ phase = "down" => toClient = <<>>
  /\ \A r \in replies : Refused(r.entry) \/ Current(r.conn)
  /\ causes \subseteq {"collision", "renamed", "stale", "wrong"}

Init ==
  /\ held = {} /\ accepted = [m \in Msgs |-> 0]
  /\ conn = 0 /\ phase = "down" /\ toClient = <<>> /\ acks = {}
  /\ queued = 0 /\ emitted = 0 /\ store = <<>>
  /\ queue = [c \in Conns |-> <<>>] /\ forwards = {} /\ replies = {}
  /\ nextId = 1
  /\ forbidden \in SUBSET Doubtful /\ causes = {}

-----------------------------------------------------------------------------
\* The store.  Find is 0 when no entry has the property.

Find(Test(_)) == SelectInSeq(store, Test)

\* outgoingClearMessageId: the first entry with the messageId, if there is
\* one.  0 (undefined) is that of the entries not sent yet.
Cleared(id) ==
  LET i == Find(LAMBDA e : e.id = id) IN IF i = 0 THEN store ELSE RemoveAt(store, i)

\* outgoingUpdate: the entry of the same message is given the messageId;
\* otherwise the entry with the messageId, and not of a message, is replaced.
Place(e) ==
  LET same == Find(LAMBDA f : e.cmd = "publish" /\ f.cmd = "publish" /\ f.msg = e.msg)
  IN IF same # 0 THEN same
     ELSE Find(LAMBDA f : f.id = e.id /\ (e.cmd = "pubrel" \/ f.cmd = "pubrel"))

-----------------------------------------------------------------------------
\* The client and the network.

\* A new connection: client._nextId is random.
Connect ==
  /\ phase = "down" /\ conn < MaxConns
  /\ conn' = conn + 1 /\ phase' = "new"
  /\ nextId' \in IF conn = 0 THEN FirstIds ELSE LaterIds
  /\ UNCHANGED <<client, toClient, acks, topics, store, queue, chains, causes>>

\* The next packet is received and answered, which may be for the second time
\* when the live chain and the stream's both have sent the message.
Receive ==
  /\ toClient # <<>>
  /\ LET p == Head(toClient)
         new == p.cmd = "publish" /\ (p.msg \in QoS2 => p.id \notin held)
         ack == [conn |-> conn, id |-> p.id,
                        cmd |-> IF p.cmd = "pubrel" THEN "pubcomp"
                                ELSE IF p.msg \in QoS2 THEN "pubrec" ELSE "puback"]
     IN /\ acks' = acks \cup {ack}
        /\ held' = IF p.cmd = "pubrel" THEN held \ {p.id}
                   ELSE IF p.msg \in QoS2 THEN held \cup {p.id} ELSE held
        /\ accepted' = IF new THEN [accepted EXCEPT ![p.msg] = @ + 1] ELSE accepted
  /\ toClient' = Tail(toClient)
  /\ UNCHANGED <<conn, phase, topics, store, queue, chains, nextId, causes>>

\* What a lost connection leaves: the handlers of some packets may be at work,
\* and so are the chains, but those that would write to it have nothing to do.
Closed ==
  /\ phase' = "down" /\ toClient' = <<>>
  /\ replies' = {r \in replies : Refused(r.entry)}

Lose ==
  /\ phase # "down" /\ Closed
  /\ \E S \in SUBSET acks : acks' = S
  /\ UNCHANGED <<client, conn, topics, store, queue, forwards, nextId, causes>>

\* An error: client.emit('error') or done(err) closes the client.
Fail(c) == IF Current(c) THEN Closed ELSE UNCHANGED <<phase, toClient, replies>>

-----------------------------------------------------------------------------
\* The broker.

\* outgoingEnqueueCombi has answered.
Enqueue ==
  /\ queued < MaxMsgs
  /\ queued' = queued + 1
  /\ store' = Append(store, [cmd |-> "publish", msg |-> queued + 1, id |-> 0])
  /\ UNCHANGED <<client, conn, phase, toClient, acks, emitted, queue, chains, nextId, causes>>

\* mqemitter calls deliverQoS for each matching subscription: the first takes
\* the message, unless authorizeForward refuses; the second is a duplicate.
Emit ==
  /\ emitted < queued
  /\ emitted' = emitted + 1
  /\ LET m == emitted + 1
         one(by) == [conn |-> conn, by |-> by, entry |-> [cmd |-> "publish", msg |-> m, id |-> 0]]
         first == {one(IF m \in forbidden THEN "refused" ELSE "live")}
         second == IF m \in Twice THEN {one("repeated")} ELSE {}
     IN forwards' = IF phase \in {"subscribed", "open"} THEN forwards \cup first \cup second
                    ELSE forwards
  /\ UNCHANGED <<client, conn, phase, toClient, acks, queued, store, queue, replies, nextId, causes>>

RestoreSubs ==
  /\ phase = "new" /\ phase' = "subscribed"
  /\ UNCHANGED <<client, conn, toClient, acks, topics, store, queue, chains, nextId, causes>>


\* (faulty variant) the entries are taken out, as in client.emptyOutgoingQueue
EmptyQueueTaking ==
  /\ phase = "subscribed" /\ phase' = "open"
  /\ queue' = [queue EXCEPT ![conn] = store] /\ store' = <<>>
  /\ UNCHANGED <<client, conn, toClient, acks, topics, chains, nextId, causes>>

\* emptyQueue: outgoingStream reads what is stored now.
EmptyQueue ==
  /\ phase = "subscribed" /\ phase' = "open"
  /\ queue' = [queue EXCEPT ![conn] = store]
  /\ UNCHANGED <<client, conn, toClient, acks, topics, store, chains, nextId, causes>>

\* A chain waits for its answer to write the entry, if it still can, or to clear
\* a message that is refused.
Waits(r) == IF Current(r.conn) \/ Refused(r.entry) THEN replies \cup {r} ELSE replies

\* The messageIds in use, by other messages than m.
Used(m) ==
  LET packets == ToSet(store) \cup ToSet(toClient) \cup (UNION {ToSet(queue[c]) : c \in Conns})
                 \cup {f.entry : f \in forwards \cup replies}
  IN {p.id : p \in {q \in packets : q.msg # m}} \cup {a.id : a \in acks}

Succ(i) == IF i = MaxId THEN 1 ELSE i + 1

\* QoSPacket and outgoingUpdate, which has not answered yet.  (The counter of an
\* earlier connection may be anywhere.)
Update(r) ==
  \E id \in IF r.entry.id # 0 THEN {r.entry.id} ELSE IF r.conn = conn THEN {nextId} ELSE Ids :
    LET e == [r.entry EXCEPT !.id = id]
        i == Place(e)
        new == r.entry.id = 0
    IN /\ i # 0 /\ store' = [store EXCEPT ![i] = e]
       /\ replies' = Waits([r EXCEPT !.entry = e])
       /\ nextId' = IF new /\ r.conn = conn THEN Succ(nextId) ELSE nextId
       /\ causes' = causes
            \cup (IF new /\ id \in Used(e.msg) THEN {"collision"} ELSE {})
            \cup (IF store[i].id \notin {0, id} THEN {"renamed"} ELSE {})
            \cup (IF store[i].cmd # e.cmd THEN {"stale"} ELSE {})

\* QoSPacket, and outgoingUpdate finds nothing or fails.
UpdateFails(c, e) ==
  /\ Fail(c)
  /\ nextId' = IF e.id = 0 /\ c = conn THEN Succ(nextId) ELSE nextId
  /\ UNCHANGED <<store, causes>>

Forward(f) ==
  /\ f.by = "live" /\ forwards' = forwards \ {f}
  /\ \/ Update(f) /\ UNCHANGED <<phase, toClient>>
     \/ UpdateFails(f.conn, f.entry)
  /\ UNCHANGED <<client, conn, acks, topics, queue>>

\* emptyQueue goes to the next entry when it is done with the one before, on a
\* connection that is gone as well, and after an error of the update; or the
\* pipeline has ended, as it does when a write or a clearing or the stream fails.
Streaming(c) == \E f \in forwards \cup replies : f.conn = c /\ f.by \in {"stream", "clearing"}

StreamNext(c) ==
  /\ queue[c] # <<>> /\ ~Streaming(c)
  /\ \/ /\ queue' = [queue EXCEPT ![c] = Tail(@)]
        /\ \/ /\ Update([conn |-> c, by |-> "stream", entry |-> Head(queue[c])])
              /\ UNCHANGED <<phase, toClient>>
           \/ UpdateFails(c, Head(queue[c]))
     \/ /\ queue' = [queue EXCEPT ![c] = <<>>]
        /\ Fail(c) /\ UNCHANGED <<store, nextId, causes>>
  /\ UNCHANGED <<client, conn, acks, topics, forwards>>

\* A message whose PUBREC has been handled meanwhile.
Overtaken(e) ==
  e.cmd = "publish" /\ e.msg \in QoS2 /\ \A i \in DOMAIN store : store[i].cmd = "publish" => store[i].msg # e.msg

\* outgoingUpdate has answered: the entry is written, or the stream's is cleared
\* because authorizeForward refuses it.
Answer(r) ==
  /\ replies' = replies \ {r}
  /\ \/ /\ Refused(r.entry)
        /\ forwards' = forwards \cup {[r EXCEPT !.by = "clearing"]}
        /\ UNCHANGED <<toClient, causes>>
     \/ /\ ~Refused(r.entry)
        /\ toClient' = Append(toClient, r.entry)
        /\ causes' = IF Overtaken(r.entry) THEN causes \cup {"stale"} ELSE causes
        /\ UNCHANGED forwards
  /\ UNCHANGED <<client, conn, phase, acks, topics, store, queue, nextId>>

\* A refused message is cleared, with the messageId it does not have when it was
\* live: the entry that goes is then the first one without.  deliverQoS ignores
\* an error, emptyQueue ends.
ClearRefused(f) ==
  /\ f.by \in Clearings /\ forwards' = forwards \ {f}
  /\ \/ /\ store' = Cleared(f.entry.id)
        /\ causes' = IF f.entry.id # 0 \/ \A i \in DOMAIN store : store[i].id # 0 \/ store[i].msg \in forbidden
                     THEN causes ELSE causes \cup {"wrong"}
        /\ UNCHANGED <<phase, toClient, replies, queue>>
     \/ /\ f.by # "clearing" /\ UNCHANGED <<phase, toClient, replies, queue, store, causes>>
     \/ /\ f.by = "clearing" /\ queue' = [queue EXCEPT ![f.conn] = <<>>]
        /\ Fail(f.conn) /\ UNCHANGED <<store, causes>>
  /\ UNCHANGED <<client, conn, acks, topics, nextId>>

\* handlePuback, also for PUBCOMP.
Puback(a) ==
  /\ a.cmd \in {"puback", "pubcomp"} /\ acks' = acks \ {a}
  /\ \/ Fail(a.conn) /\ UNCHANGED store
     \/ store' = Cleared(a.id) /\ UNCHANGED <<phase, toClient, replies>>
  /\ UNCHANGED <<client, conn, topics, queue, forwards, nextId, causes>>

\* handlePubrec: PUBREL takes the message's place; it is written at the answer.
PubrelFor(a, i) ==
  [conn |-> a.conn, by |-> "pubrec",
   entry |-> [cmd |-> "pubrel", msg |-> store[i].msg, id |-> a.id]]

\* (faulty variant) PUBREL is written without being stored
PubrecUnstored(a) ==
  /\ a.cmd = "pubrec" /\ acks' = acks \ {a}
  /\ LET i == Find(LAMBDA e : e.id = a.id)
     IN replies' = IF i = 0 THEN replies ELSE Waits(PubrelFor(a, i))
  /\ UNCHANGED <<client, conn, phase, toClient, topics, store, queue, forwards, nextId, causes>>

Pubrec(a) ==
  /\ a.cmd = "pubrec" /\ acks' = acks \ {a}
  /\ \/ Fail(a.conn) /\ UNCHANGED store
     \/ \E i \in {Find(LAMBDA e : e.id = a.id)} \ {0} :
          /\ store' = [store EXCEPT ![i] = PubrelFor(a, i).entry]
          /\ replies' = Waits(PubrelFor(a, i))
          /\ UNCHANGED <<phase, toClient>>
  /\ UNCHANGED <<client, conn, topics, queue, forwards, nextId, causes>>

Work ==
  \/ Emit \/ RestoreSubs \/ EmptyQueue
  \/ \E c \in Conns : StreamNext(c)
  \/ \E f \in forwards : Forward(f) \/ ClearRefused(f)
  \/ \E r \in replies : Answer(r)
  \/ \E a \in acks : Puback(a) \/ Pubrec(a)

\* Bound: nothing is followed any further once a messageId is used twice.
Step(A) == "collision" \notin causes /\ A /\ UNCHANGED forbidden

Next == Step(Connect) \/ Step(Receive) \/ Step(Lose) \/ Step(Enqueue) \/ Step(Work)

\* The client connects and reads; the program, the persistence and mqemitter
\* answer: while any of this is due, some of it happens.  (That all of it comes to
\* an end is not assumed, it follows.)
Spec == Init /\ [][Next]_vars /\ WF_vars(Step(Connect \/ Receive \/ Work))

-----------------------------------------------------------------------------
\* Properties.

\* A message stored for the session stays stored until the client has it: no
\* acknowledgement, retransmission or refusal of another message removes it.
\* Except when a refused message takes another one with it; and a QoS 2 message
\* may be taken for one that the client still holds, once a message was given a
\* second messageId or was sent after its PUBREC had been handled.  (Behaviours
\* end where a messageId is used twice: qos-packet.js does not look for a free
\* one.)
Kept ==
  "wrong" \notin causes =>
    \A m \in (1..queued) \ forbidden :
      \/ accepted[m] > 0
      \/ \E i \in DOMAIN store : store[i].cmd = "publish" /\ store[i].msg = m
      \/ m \in QoS2 /\ causes \cap {"renamed", "stale"} # {}

\* A QoS 2 message is taken once by a client that remembers the messageIds it
\* holds, over any number of connections.  Except when a message that is
\* delivered live while emptyQueue reads the store is given a second messageId,
\* or the update of one of the two chains, or its answer, comes after the PUBREC
\* that the other's packet has brought.
ExactlyOnce ==
  causes \cap {"renamed", "stale"} = {} => \A m \in QoS2 : accepted[m] <= 1

\* The broker hands over what it stores for the session, but for what
\* authorizeForward refuses, and gives up a message when it has no entry left.
\* QoS 1 messages may be taken again, and what Kept and ExactlyOnce except is
\* withdrawn.
Exchange == INSTANCE Handover WITH
  sent <- (1..queued) \ forbidden, taken <- accepted,
  settled <- {m \in (1..queued) \ forbidden : \A i \in DOMAIN store : store[i].msg # m},
  mayRepeat <- IF causes \cap {"renamed", "stale"} = {} THEN Msgs \ QoS2 ELSE Msgs,
  mayLose <- IF "wrong" \in causes THEN Msgs
             ELSE IF causes \cap {"renamed", "stale"} = {} THEN {} ELSE QoS2,
  void <- "collision" \in causes

\* Over any number of connections, each message is taken after it was stored, if
\* of QoS 2 once, and before its entry is given up, which then never comes back;
\* a refused message is never taken.
HandedOver == Exchange!Safe

\* In the end nothing is stored any more but messages that are refused: all the
\* others are delivered and acknowledged, also what is published while the client
\* is connecting, and without waiting for another connection.  (Except when a
\* chain of an earlier connection gives the entry a second messageId, which
\* nobody acknowledges.)
GivenUp == phase = "down" /\ conn = MaxConns
OnlyRefused == \A i \in DOMAIN store : store[i].msg \in forbidden
=============================================================================

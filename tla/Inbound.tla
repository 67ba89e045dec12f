------------------------------ MODULE Inbound ------------------------------
(***************************************************************************)
(* QoS 1 and QoS 2 messages that a client sends: lib/handlers/publish.js,  *)
(* lib/handlers/pubrel.js and the external persistence's incoming packets. *)
(*                                                                         *)
(* A handler is a chain of callbacks that nothing stops: when its          *)
(* connection is gone it goes on to store, publish and delete, and only    *)
(* its answer is lost.  The client comes back with a new connection and    *)
(* retransmits what was not answered.  The broker's process may stop at    *)
(* any moment; what is stored survives.                                    *)
(*                                                                         *)
(* Abstracted: broker.publish() (module Publish) either publishes the      *)
(* message or answers an error; the client sends one message at a time and *)
(* always uses the same messageId, which MQTT lets it do.  QoS 0 messages  *)
(* are published as they come and leave nothing to say.                    *)
(***************************************************************************)
EXTENDS Naturals, FiniteSets

CONSTANTS
  MaxMsgs,    \* bound: messages of the client
  MaxConns,   \* bound: connections of the client
  QoS2        \* the messages of QoS 2, the others have QoS 1

ASSUME InboundAssumption ==
  MaxMsgs \in Nat /\ MaxConns \in Nat /\ QoS2 \subseteq 1..MaxMsgs

Msgs == 1..MaxMsgs
Conns == 1..MaxConns

VARIABLES
  \* The client (external):
  msg,        \* the message it is sending, or has sent last
  phase,      \* what it waits for: PUBACK or PUBREC, PUBCOMP, or nothing
  sent,       \* it has sent the packet of this phase on this connection
  \* The network:
  conn,       \* the number of the latest connection
  up,         \* it is open
  reply,      \* the packet under way to the client, "none" if there is none
  \* The broker:
  handlers,   \* the chains under way
  stored,     \* the message kept by the persistence for the messageId, or 0
  \* Variables that only the properties read:
  published,  \* how often each message was published
  completed,  \* the messages whose last answer has reached the client
  causes      \* what has gone wrong so far

client == <<msg, phase, sent>>
network == <<conn, up, reply>>
vars == <<client, network, handlers, stored, published, completed, causes>>

Steps == {"authorize", "lookup", "store", "publish", "get", "del"}
Handlers == [conn : Conns, msg : Msgs, step : Steps]

TypeOK ==
  /\ msg \in 0..MaxMsgs
  /\ phase \in {"idle", "publish", "release"}
  /\ sent \in BOOLEAN /\ up \in BOOLEAN
  /\ conn \in 0..MaxConns
  /\ reply \in {"none", "puback", "pubrec", "pubcomp"} /\ (reply # "none" => up)
  /\ handlers \subseteq Handlers
  /\ stored \in 0..MaxMsgs
  /\ published \in [Msgs -> Nat]
  /\ completed \subseteq Msgs
  /\ causes \subseteq {"overtaken", "blind", "cut", "undeleted"}

Init ==
  /\ msg = 0 /\ phase = "idle" /\ sent = FALSE
  /\ conn = 0 /\ up = FALSE /\ reply = "none"
  /\ handlers = {} /\ stored = 0
  /\ published = [m \in Msgs |-> 0]
  /\ completed = {} /\ causes = {}

-----------------------------------------------------------------------------
\* The client and the network.

Connect ==
  /\ ~up /\ conn < MaxConns
  /\ conn' = conn + 1 /\ up' = TRUE /\ reply' = "none"
  /\ sent' = FALSE
  /\ UNCHANGED <<msg, phase, handlers, stored, published, completed, causes>>

NewMessage ==
  /\ phase = "idle" /\ msg < MaxMsgs
  /\ msg' = msg + 1 /\ phase' = "publish" /\ sent' = FALSE
  /\ UNCHANGED <<network, handlers, stored, published, completed, causes>>

\* The packet reaches the broker: handlePublish or handlePubrel.
Send ==
  /\ up /\ ~sent /\ phase # "idle"
  /\ sent' = TRUE
  /\ handlers' = handlers \cup
       {[conn |-> conn, msg |-> msg, step |-> IF phase = "publish" THEN "authorize" ELSE "get"]}
  /\ causes' = IF \A h \in handlers : h.conn = conn THEN causes
             ELSE causes \cup {"overtaken"}
  /\ UNCHANGED <<msg, phase, network, stored, published, completed>>

Receive ==
  /\ up /\ reply # "none"
  /\ reply' = "none"
  /\ IF reply = "pubrec"
     THEN phase' = "release" /\ sent' = FALSE /\ UNCHANGED completed
     ELSE phase' = "idle" /\ completed' = completed \cup {msg} /\ UNCHANGED sent
  /\ UNCHANGED <<msg, conn, up, handlers, stored, published, causes>>

\* The connection is lost, with what is under way on it.
Lose ==
  /\ up
  /\ up' = FALSE /\ reply' = "none"
  /\ UNCHANGED <<client, conn, handlers, stored, published, completed, causes>>

\* The broker's process stops and is started again.
Crash ==
  /\ up \/ handlers # {}
  /\ up' = FALSE /\ reply' = "none" /\ handlers' = {}
  /\ causes' = IF \E h \in handlers : h.step = "publish" THEN causes \cup {"cut"} ELSE causes
  /\ UNCHANGED <<client, conn, stored, published, completed>>

-----------------------------------------------------------------------------
\* The handlers.

\* The handler goes to its next step.
Step(h, s) == handlers' = (handlers \ {h}) \cup {[h EXCEPT !.step = s]}
End(h) == handlers' = handlers \ {h}

\* write(client, packet, done) ends the handler.  On a lost connection it is
\* an error, which changes nothing more.
Reply(h, r) ==
  /\ reply' = IF up /\ h.conn = conn THEN r ELSE reply
  /\ UNCHANGED <<conn, up>>

\* done(err): the client is closed, if it is not yet.
Fail(h) ==
  /\ End(h)
  /\ IF h.conn = conn THEN up' = FALSE /\ reply' = "none" ELSE UNCHANGED <<up, reply>>
  /\ UNCHANGED conn

\* authorizePublish has answered (or the topic was invalid).  A QoS 1 message
\* is acknowledged first, and is published if this could be written.
AuthorizePublish(h) ==
  /\ h.step = "authorize"
  /\ \/ Fail(h)
     \/ h.msg \in QoS2 /\ Step(h, "lookup") /\ UNCHANGED network
     \/ /\ h.msg \notin QoS2 /\ Reply(h, "puback")
        /\ IF up /\ h.conn = conn THEN Step(h, "publish") ELSE End(h)
  /\ UNCHANGED <<client, stored, published, completed, causes>>

\* (faulty variant) the store is not asked
LookupSkipped(h) ==
  /\ h.step = "lookup"
  /\ Step(h, "store")
  /\ UNCHANGED <<network, client, stored, published, completed, causes>>

\* incomingGetPacket has answered; an error counts as 'not found'.
Lookup(h) ==
  /\ h.step = "lookup"
  /\ \/ stored # 0 /\ Reply(h, "pubrec") /\ End(h) /\ UNCHANGED causes
     \/ /\ Step(h, "store") /\ UNCHANGED network
        /\ causes' = IF stored # 0 THEN causes \cup {"blind"} ELSE causes
  /\ UNCHANGED <<client, stored, published, completed>>

\* incomingStorePacket has answered.
Store(h) ==
  /\ h.step = "store"
  /\ \/ Fail(h) /\ UNCHANGED stored
     \/ stored' = h.msg /\ Step(h, "publish") /\ UNCHANGED network
  /\ UNCHANGED <<client, published, completed, causes>>

\* (faulty variant) an error of broker.publish() is not looked at
PublishUnchecked(h) ==
  /\ h.step = "publish"
  /\ End(h)
  /\ IF h.msg \in QoS2 THEN Reply(h, "pubrec") ELSE UNCHANGED network
  /\ published' \in {published, [published EXCEPT ![h.msg] = @ + 1]}
  /\ UNCHANGED <<client, stored, completed, causes>>

\* broker.publish() has called back.
PublishMessage(h) ==
  /\ h.step = "publish"
  /\ \/ Fail(h) /\ causes' = causes \cup {"cut"} /\ UNCHANGED published
     \/ /\ published' = [published EXCEPT ![h.msg] = @ + 1]
        /\ End(h)
        /\ IF h.msg \in QoS2 THEN Reply(h, "pubrec") ELSE UNCHANGED network
        /\ UNCHANGED causes
  /\ UNCHANGED <<client, stored, completed>>

\* (faulty variant) a PUBREL that finds nothing is not answered
PubrelGetStrict(h) ==
  /\ h.step = "get"
  /\ IF stored # 0 THEN Step(h, "del") ELSE End(h)
  /\ UNCHANGED <<network, client, stored, published, completed, causes>>

\* pubrelGet: an error counts as 'not found', and PUBCOMP is written anyway.
PubrelGet(h) ==
  /\ h.step = "get"
  /\ \/ stored # 0 /\ Step(h, "del") /\ UNCHANGED <<network, causes>>
     \/ /\ End(h) /\ Reply(h, "pubcomp")
        /\ causes' = IF stored # 0 THEN causes \cup {"undeleted"} ELSE causes
  /\ UNCHANGED <<client, stored, published, completed>>

\* (faulty variant) PUBCOMP is written and the entry kept
PubrelDeleteNot(h) ==
  /\ h.step = "del"
  /\ End(h) /\ Reply(h, "pubcomp")
  /\ UNCHANGED <<client, stored, published, completed, causes>>

\* pubrelDelete and pubrelWrite: an error of incomingDelPacket is ignored.
PubrelDelete(h) ==
  /\ h.step = "del"
  /\ End(h) /\ Reply(h, "pubcomp")
  /\ \/ stored' = 0 /\ UNCHANGED causes
     \/ UNCHANGED stored /\ causes' = causes \cup {"undeleted"}
  /\ UNCHANGED <<client, published, completed>>

Handle(h) ==
  \/ AuthorizePublish(h) \/ Lookup(h) \/ Store(h) \/ PublishMessage(h)
  \/ PubrelGet(h) \/ PubrelDelete(h)

Next ==
  \/ Connect \/ NewMessage \/ Send \/ Receive \/ Lose \/ Crash
  \/ \E h \in handlers : Handle(h)

\* The client connects, sends and reads; the program, the persistence and
\* mqemitter answer.  (Each handler takes finitely many steps, and there are
\* finitely many: no one is forgotten for ever.)
Spec ==
  /\ Init /\ [][Next]_vars
  /\ WF_vars(Connect) /\ WF_vars(Send) /\ WF_vars(Receive)
  /\ WF_vars(\E h \in handlers : Handle(h))

-----------------------------------------------------------------------------
\* Properties.

\* publish.js:57: 'store first, then publish', so that no retransmission is
\* published twice.  It takes an error of the lookup, or a packet that arrives
\* while a handler of an earlier connection is still at work.
AtMostOnce ==
  causes \cap {"blind", "overtaken"} = {} => \A m \in QoS2 : published[m] <= 1

\* A message whose PUBACK or PUBCOMP the client has got was published, unless
\* broker.publish() failed or was cut off, or an earlier message left its entry
\* in the store.  (PUBACK is written before, see publish.js:70.)
AtLeastOnce ==
  causes \cap {"cut", "undeleted", "overtaken"} = {} =>
    \A m \in completed :
      \/ published[m] >= 1
      \/ m \notin QoS2 /\ \E h \in handlers : h.msg = m /\ h.step = "publish"

\* When nothing is under way for a QoS 2 message the store is empty again, so
\* that its messageId is free for the next one: neither a failed publication
\* nor a restart leaves an entry behind, since PUBREL is sent until answered.
StoreEmptied ==
  causes \cap {"undeleted", "overtaken"} = {} /\ phase = "idle" => stored = 0

\* The client hands its QoS 2 messages over to the broker, which takes one when
\* it publishes it.  An error of the lookup may cost 'once', a failed or cut
\* publication or a failed deletion may cost the message, and a handler of an
\* earlier connection either.
Exchange == INSTANCE Handover WITH
  Msgs <- QoS2, sent <- QoS2 \cap (1..msg), settled <- QoS2 \cap completed,
  taken <- [m \in QoS2 |-> published[m]],
  mayRepeat <- IF causes \cap {"blind", "overtaken"} = {} THEN {} ELSE QoS2,
  mayLose <- IF causes \cap {"cut", "undeleted", "overtaken"} = {} THEN {} ELSE QoS2,
  void <- FALSE

\* Over lost connections, retransmissions and restarts, each QoS 2 message is
\* taken after it was sent, once, and before its sender gives it up.
HandedOver == Exchange!Safe

\* Every message is completed, as long as the client can come back: PUBREL is
\* answered whether or not the message is still known.  (The client has a
\* bounded number of messages, so it is idle for ever in the end.)
GivenUp == ~up /\ conn = MaxConns
Completes == []<>(phase = "idle" \/ GivenUp)
=============================================================================

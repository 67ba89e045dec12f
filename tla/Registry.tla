------------------------------ MODULE Registry ------------------------------
(***************************************************************************)
(* The life of a connection and the broker's registry of clients: the      *)
(* chain of actions a CONNECT starts (lib/handlers/connect.js), close()    *)
(* and its finish() (lib/client.js), and in aedes.js registerClient,       *)
(* unregisterClient, deleteClient, closeSameClients and close().  Wills    *)
(* are followed in memory (client._will, client.will) and in persistence.  *)
(*                                                                         *)
(* Each action is one turn of the event loop: the callback of one stage of *)
(* a chain, with everything it calls until the next callback is pending.   *)
(* Callbacks of different connections interleave freely, and a connection  *)
(* may be closed between any two of them.                                  *)
(*                                                                         *)
(* Abstracted: packets, user names, return codes, keepalive and the        *)
(* contents of subscriptions (only whether there is one to remove counts). *)
(* Persistence is external: it applies a request when it is called and     *)
(* answers in a later turn, possibly with an error.                        *)
(***************************************************************************)
EXTENDS Integers, FiniteSets

CONSTANTS
  Conns,        \* network connections, each with its Client object
  ClientIds,    \* MQTT client identifiers
  IdOf,         \* the client identifier each connection asks for
  NoConn,       \* not a connection
  WillConns,    \* connections whose CONNECT carries a will
  Stored,       \* connections that find stored subscriptions in their session
  Clustered     \* whether other brokers announce their new clients

ASSUME RegistryAssumption ==
  /\ IsFiniteSet(Conns) /\ IsFiniteSet(ClientIds)
  /\ IdOf \in [Conns -> ClientIds]
  /\ NoConn \notin Conns
  /\ WillConns \subseteq Conns
  /\ Stored \subseteq Conns
  /\ Clustered \in BOOLEAN

VARIABLES
  \* of each connection
  stage,             \* the callback its CONNECT's chain waits for
  connecting,        \* client.connecting
  connected,         \* client.connected
  closed,            \* client.closed
  finished,          \* close()'s finish() has run
  next,              \* the registration close()'s 'done' will finish, if any
  authorized,        \* client._authorized
  disconnected,      \* client._disconnected
  subscribed,        \* client.subscriptions is not empty
  stash,             \* client._will # null
  will,              \* client.will # null
  departing,         \* how far finish() has got with the will
  published,         \* how often the will has been published
  \* of the broker
  clients,           \* broker.clients
  connectedClients,  \* broker.connectedClients
  stored,            \* the persisted wills, by client identifier
  broker,            \* "open", "closing": close() ran, "closed": its callback ran
  awaited            \* the closes that broker.close() waits for

flags == <<closed, finished, next>>
session == <<authorized, disconnected, subscribed>>
wills == <<stash, will, departing, published, stored>>
registry == <<clients, connectedClients>>
server == <<broker, awaited>>
vars == <<stage, connecting, connected, flags, session, wills, registry, server>>

Stages == {"idle", "preConnect", "init", "refused", "authenticate", "denied",
           "fetchSubs", "restoreSubs", "subscribing", "delWill", "putWill",
           "connack", "unwritten", "emptyQueue", "done", "dropped"}

TypeOK ==
  /\ stage \in [Conns -> Stages]
  /\ connecting \subseteq Conns /\ connected \subseteq Conns
  /\ closed \subseteq Conns /\ finished \subseteq Conns
  /\ next \in [Conns -> Conns \cup {NoConn}]
  /\ authorized \subseteq Conns /\ disconnected \subseteq Conns
  /\ subscribed \subseteq Conns
  /\ stash \subseteq Conns /\ will \subseteq Conns
  /\ departing \in [Conns -> {"no", "authorizing", "publishing"}]
  /\ published \in [Conns -> Nat]
  /\ clients \in [ClientIds -> Conns \cup {NoConn}]
  /\ connectedClients \in Int
  /\ stored \in [ClientIds -> Conns \cup {NoConn}]
  /\ broker \in {"open", "closing", "closed"}
  /\ awaited \subseteq Conns

Init ==
  /\ stage = [c \in Conns |-> "idle"]
  /\ connecting = {} /\ connected = {} /\ closed = {} /\ finished = {}
  /\ next = [c \in Conns |-> NoConn]
  /\ authorized = {} /\ disconnected = {} /\ subscribed = {}
  /\ stash = {} /\ will = {}
  /\ departing = [c \in Conns |-> "no"]
  /\ published = [c \in Conns |-> 0]
  /\ clients = [i \in ClientIds |-> NoConn]
  /\ connectedClients = 0
  /\ stored = [i \in ClientIds |-> NoConn]
  /\ broker = "open" /\ awaited = {}

-----------------------------------------------------------------------------
\* Parts of the handlers.

Registered == {i \in ClientIds : clients[i] # NoConn}
IdsOf(W) == {IdOf[c] : c \in W}

\* (faulty variant) the will of a client that sent DISCONNECT is published too
LeaveWillsAlways(W) ==
  /\ departing' = [c \in Conns |-> IF c \in W \cap will THEN "authorizing" ELSE departing[c]]
  /\ will' = will \ W
  /\ stash' = stash \ W
  /\ UNCHANGED <<stored, published>>

\* (faulty variant) a DISCONNECT deletes the will of the identifier, even when
\* the connection never got as far as to set its own
LeaveWillsAny(W) ==
  LET due == (W \cap will) \ disconnected
  IN  /\ stored' = [i \in ClientIds |-> IF i \in IdsOf(W \cap disconnected) THEN NoConn ELSE stored[i]]
      /\ departing' = [c \in Conns |-> IF c \in due THEN "authorizing" ELSE departing[c]]
      /\ will' = will \ W
      /\ stash' = stash \ W
      /\ UNCHANGED published

\* What becomes of the wills of connections W when their finish() runs: after
\* a DISCONNECT the persisted will is deleted, otherwise authorizePublish is
\* asked first.
LeaveWills(W) ==
  LET kept == W \cap will \cap disconnected
      due  == (W \cap will) \ disconnected
  IN  /\ stored' = [i \in ClientIds |-> IF i \in IdsOf(kept) THEN NoConn ELSE stored[i]]
      /\ departing' = [c \in Conns |-> IF c \in due THEN "authorizing" ELSE departing[c]]
      /\ will' = will \ W
      /\ stash' = stash \ W
      /\ UNCHANGED published

\* (faulty variant) finish() unregisters without looking whether its identifier
\* is registered
UpdateRegistryUnguarded(W, k) ==
  LET gone  == IdsOf(W \cap authorized)
      taken == IF k = NoConn THEN {} ELSE {IdOf[k]}
  IN  /\ clients' = [i \in ClientIds |-> IF i \in taken THEN k
                                         ELSE IF i \in gone THEN NoConn ELSE clients[i]]
      /\ connectedClients' = connectedClients - Cardinality(gone) + Cardinality(taken)

\* unregisterClient of the authorized members of W, unless their identifier
\* is not registered, then _finishRegisterClient(k), unless k is NoConn.
\* Neither looks at whose connection the registry holds.
UpdateRegistry(W, k) ==
  LET gone  == IdsOf(W \cap authorized) \cap Registered
      taken == IF k = NoConn THEN {} ELSE {IdOf[k]}
  IN  /\ clients' = [i \in ClientIds |-> IF i \in taken THEN k
                                         ELSE IF i \in gone THEN NoConn ELSE clients[i]]
      /\ connectedClients' = connectedClients - Cardinality(gone) + Cardinality(taken)

\* finish() of the connections W, and the registration k that waited for it.
\* 'ing' is the value of client.connecting before.
Leave(W, k, ing) ==
  /\ finished' = finished \cup W
  /\ connecting' = ing \ W
  /\ connected' = connected \ W
  /\ LeaveWills(W)
  /\ UpdateRegistry(W, k)

\* close(done), where done finishes the registration of k.  A client already
\* closed calls done at once, even if its own finish() is still pending.
Close(c, k, ing) ==
  IF c \in closed
  THEN Leave({}, k, ing) /\ UNCHANGED <<closed, next>>
  ELSE /\ closed' = closed \cup {c}
       /\ IF c \in subscribed
          THEN /\ next' = [next EXCEPT ![c] = k]
               /\ connecting' = ing
               /\ UNCHANGED <<finished, connected, wills, registry>>
          ELSE Leave({c}, k, ing) /\ UNCHANGED next

Goto(c, s) == stage' = [stage EXCEPT ![c] = s]

\* The chain of c ends with an error: nextBatch hands it to _onError.
Fail(c) ==
  /\ Goto(c, "done")
  /\ Close(c, NoConn, connecting \ {c})
  /\ UNCHANGED <<session, server>>

\* registerClient(c), and doConnack's write, which fails at once if c is
\* neither connecting nor connected.
Register(c) ==
  LET old == clients[IdOf[c]] IN
  /\ Goto(c, IF c \in connecting THEN "connack" ELSE "unwritten")
  /\ IF old = NoConn
     THEN Leave({}, c, connecting) /\ UNCHANGED <<closed, next>>
     ELSE Close(old, c, connecting)
  /\ UNCHANGED <<session, server>>

\* storeWill: the will becomes the client's, and whatever will its identifier
\* had in persistence is deleted.
StoreWill(c) ==
  /\ will' = will \cup (stash \cap {c})
  /\ stored' = [stored EXCEPT ![IdOf[c]] = NoConn]
  /\ Goto(c, "delWill")
  /\ UNCHANGED <<connecting, connected, flags, session, stash, departing, published,
                 registry, server>>

Step(c, s) ==
  /\ Goto(c, s)
  /\ UNCHANGED <<connecting, connected, flags, session, wills, registry, server>>

-----------------------------------------------------------------------------
\* The chain of a CONNECT, one action per callback.

\* handleConnect
Connect(c) ==
  /\ stage[c] = "idle" /\ c \notin closed
  /\ connecting' = connecting \cup {c}
  /\ Goto(c, "preConnect")
  /\ UNCHANGED <<connected, flags, session, wills, registry, server>>

\* preConnect's callback.  Refused without an error, the client stays open and
\* may send another CONNECT.
PreConnect(c) ==
  /\ stage[c] = "preConnect"
  /\ \/ Step(c, "init")
     \/ /\ Goto(c, "idle")
        /\ connecting' = connecting \ {c}
        /\ UNCHANGED <<connected, flags, session, wills, registry, server>>
     \/ Fail(c)

\* init: a CONNECT the broker cannot accept is answered with its return code.
InitConnect(c) ==
  /\ stage[c] = "init"
  /\ \/ Step(c, "refused")
     \/ /\ Goto(c, "authenticate")
        /\ stash' = stash \cup (WillConns \cap {c})
        /\ UNCHANGED <<connecting, connected, flags, session, will, departing, published,
                       stored, registry, server>>

Refuse(c) ==
  /\ stage[c] = "refused"
  /\ Goto(c, "done")
  /\ Close(c, NoConn, connecting)
  /\ UNCHANGED <<session, server>>

\* (faulty variant) a client closed in the meantime is not noticed
AuthenticateUnchecked(c) ==
  /\ stage[c] = "authenticate"
  /\ \/ Step(c, "denied")
     \/ /\ Goto(c, "fetchSubs")
        /\ authorized' = authorized \cup {c}
        /\ UNCHANGED <<connecting, connected, flags, disconnected, subscribed, wills,
                       registry, server>>

\* authenticate's callback: dropped if the client or the broker has closed.
Authenticate(c) ==
  /\ stage[c] = "authenticate"
  /\ IF c \in closed \/ broker # "open"
     THEN Step(c, "dropped")
     ELSE \/ Step(c, "denied")
          \/ /\ Goto(c, "fetchSubs")
             /\ authorized' = authorized \cup {c}
             /\ UNCHANGED <<connecting, connected, flags, disconnected, subscribed, wills,
                            registry, server>>

\* The refusing CONNACK has been written: close(), whose 'done' ends the chain,
\* at once if the client has been closed meanwhile.
Deny(c) ==
  /\ stage[c] = "denied"
  /\ Goto(c, "done")
  /\ Close(c, NoConn, connecting \ ({c} \cap closed))
  /\ UNCHANGED <<session, server>>

\* subscriptionsByClient or cleanSubscriptions has answered.
FetchSubs(c) ==
  /\ stage[c] = "fetchSubs"
  /\ \/ c \in Stored /\ Step(c, "restoreSubs")
     \/ c \notin Stored /\ StoreWill(c)
     \/ Fail(c)

\* authorizeSubscribe and addSubscriptions have answered for the restored
\* subscriptions: addSubs.  On a closed client it never calls back.
RestoreSubs(c) ==
  /\ stage[c] = "restoreSubs"
  /\ \/ IF c \in closed \/ broker # "open"
        THEN Step(c, "dropped")
        ELSE /\ Goto(c, "subscribing")
             /\ subscribed' = subscribed \cup {c}
             /\ UNCHANGED <<connecting, connected, flags, authorized, disconnected, wills,
                            registry, server>>
     \/ StoreWill(c)     \* none of them is allowed any more
     \/ Fail(c)

\* mqemitter has answered for the restored subscriptions.
Subscribing(c) ==
  /\ stage[c] = "subscribing"
  /\ StoreWill(c) \/ Fail(c)

\* delWill has answered: the new will is stored, if finish() has not taken it.
DelWill(c) ==
  /\ stage[c] = "delWill"
  /\ IF c \in will
     THEN /\ stored' = [stored EXCEPT ![IdOf[c]] = c]
          /\ Goto(c, "putWill")
          /\ UNCHANGED <<connecting, connected, flags, session, stash, will, departing,
                         published, registry, server>>
     ELSE Register(c)

PutWill(c) ==
  /\ stage[c] = "putWill"
  /\ Register(c) \/ Fail(c)

\* write() has called back for the CONNACK; emptyQueue resumes the parser.
Connack(c) ==
  \/ stage[c] = "connack" /\ Step(c, "emptyQueue")
  \/ stage[c] \in {"connack", "unwritten"} /\ Fail(c)

\* The stored packets have been written: the last callback of the chain.  It
\* does not look at client.closed.
EmptyQueue(c) ==
  /\ stage[c] = "emptyQueue"
  /\ \/ /\ Goto(c, "done")
        /\ connecting' = connecting \ {c}
        /\ connected' = connected \cup {c}
        /\ UNCHANGED <<flags, session, wills, registry, server>>
     \/ Fail(c)

-----------------------------------------------------------------------------
\* Packets, the socket, and the end of a connection.

\* The parser runs: it is paused from authenticate to emptyQueue.
Listening(c) ==
  /\ c \in (connecting \cup connected) \ closed
  /\ stage[c] \in {"preConnect", "init", "refused", "emptyQueue", "done"}

\* DISCONNECT: the socket is destroyed, and reports its close later.
Disconnect(c) ==
  /\ Listening(c)
  /\ disconnected' = disconnected \cup {c}
  /\ UNCHANGED <<stage, connecting, connected, flags, authorized, subscribed, wills,
                 registry, server>>

\* The last steps of SUBSCRIBE and UNSUBSCRIBE.
Subscribe(c) ==
  /\ Listening(c)
  /\ subscribed' = subscribed \cup {c}
  /\ UNCHANGED <<stage, connecting, connected, flags, authorized, disconnected, wills,
                 registry, server>>

Unsubscribe(c) ==
  /\ Listening(c)
  /\ subscribed' = subscribed \ {c}
  /\ UNCHANGED <<stage, connecting, connected, flags, authorized, disconnected, wills,
                 registry, server>>

\* The socket ends, closes or fails, a packet is out of protocol, the connect
\* timer, the keepalive timer or the drain timer expires, or the program
\* calls client.close().
SocketClose(c) ==
  /\ c \notin closed
  /\ Close(c, NoConn, connecting)
  /\ UNCHANGED <<stage, session, server>>

\* (faulty variant) finish() forgets to call done
FinishSilently(c) ==
  /\ c \in closed \ finished
  /\ Leave({c}, NoConn, connecting)
  /\ next' = [next EXCEPT ![c] = NoConn]
  /\ UNCHANGED <<stage, closed, session, server>>

\* The subscriptions of a closing client have been removed: finish().
Finish(c) ==
  /\ c \in closed \ finished
  /\ Leave({c}, next[c], connecting)
  /\ next' = [next EXCEPT ![c] = NoConn]
  /\ UNCHANGED <<stage, closed, session, server>>

\* authorizePublish has answered for the will of a finished client.
AuthorizeWill(c) ==
  /\ departing[c] = "authorizing"
  /\ \/ /\ departing' = [departing EXCEPT ![c] = "publishing"]
        /\ published' = [published EXCEPT ![c] = @ + 1]
        /\ UNCHANGED stored
     \/ /\ departing' = [departing EXCEPT ![c] = "no"]
        /\ stored' = [stored EXCEPT ![IdOf[c]] = NoConn]
        /\ UNCHANGED published
  /\ UNCHANGED <<stage, connecting, connected, flags, session, stash, will, registry, server>>

\* broker.publish(will) has called back: delWill.
PublishedWill(c) ==
  /\ departing[c] = "publishing"
  /\ departing' = [departing EXCEPT ![c] = "no"]
  /\ stored' = [stored EXCEPT ![IdOf[c]] = NoConn]
  /\ UNCHANGED <<stage, connecting, connected, flags, session, stash, will, published,
                 registry, server>>

-----------------------------------------------------------------------------
\* The broker.

\* closeSameClients: another broker has registered client identifier i.
CloseSameClients(i) ==
  /\ Clustered /\ clients[i] # NoConn
  /\ IF clients[i] \in closed
     THEN /\ clients' = [clients EXCEPT ![i] = NoConn]
          /\ connectedClients' = connectedClients - 1
          /\ UNCHANGED <<connecting, connected, flags, wills>>
     ELSE Close(clients[i], NoConn, connecting)
  /\ UNCHANGED <<stage, session, server>>

\* (faulty variant) clients with subscriptions are awaited but not closed
BrokerCloseForgetful ==
  LET open  == {clients[i] : i \in Registered} \ closed
      later == open \cap subscribed
  IN  /\ broker = "open"
      /\ broker' = "closing"
      /\ awaited' = later
      /\ closed' = closed \cup (open \ later)
      /\ Leave(open \ later, NoConn, connecting)
      /\ UNCHANGED <<stage, next, session>>

\* broker.close(): closes every registered client.  Those with nothing to
\* unsubscribe finish in the same turn.
BrokerClose ==
  LET open  == {clients[i] : i \in Registered} \ closed
      later == open \cap subscribed
  IN  /\ broker = "open"
      /\ broker' = "closing"
      /\ awaited' = later
      /\ closed' = closed \cup open
      /\ Leave(open \ later, NoConn, connecting)
      /\ UNCHANGED <<stage, next, session>>

BrokerClosed ==
  /\ broker = "closing" /\ awaited \subseteq finished
  /\ broker' = "closed"
  /\ UNCHANGED <<stage, connecting, connected, flags, session, wills, registry, awaited>>

-----------------------------------------------------------------------------
Chain(c) ==
  \/ PreConnect(c) \/ InitConnect(c) \/ Refuse(c) \/ Authenticate(c) \/ Deny(c)
  \/ FetchSubs(c) \/ RestoreSubs(c) \/ Subscribing(c) \/ DelWill(c) \/ PutWill(c)
  \/ Connack(c) \/ EmptyQueue(c)

Ending(c) == Finish(c) \/ AuthorizeWill(c) \/ PublishedWill(c)

Next ==
  \/ \E c \in Conns : \/ Connect(c) \/ Chain(c)
                      \/ Disconnect(c) \/ Subscribe(c) \/ Unsubscribe(c) \/ SocketClose(c)
                      \/ Ending(c)
  \/ \E i \in ClientIds : CloseSameClients(i)
  \/ BrokerClose
  \/ BrokerClosed

\* mqemitter answers every removal of a subscription, so finish() runs, and
\* promises settle.  Nothing obliges the authentication, the persistence or a
\* peer to do anything.
Fairness ==
  /\ \A c \in Conns : WF_vars(Finish(c))
  /\ WF_vars(BrokerClosed)

Safe == Init /\ [][Next]_vars
Spec == Safe /\ Fairness
-----------------------------------------------------------------------------
\* Properties.

\* connectedClients never falls below the number of registered identifiers,
\* whatever mix of takeovers, late closes and cluster messages unregisters
\* clients: a close that finds its identifier gone does not count down again
\* (client.js:390, aedes.js:267).
CountCovers == connectedClients >= Cardinality(Registered)

\* As long as no two connections ask for the same identifier the two agree:
\* each registration is counted up once and counted down once.
CountExact ==
  (\A c, d \in Conns : IdOf[c] = IdOf[d] => c = d)
    => connectedClients = Cardinality(Registered)

\* A will is published at most once, and never after a DISCONNECT, however
\* often close() is called and whenever it comes (client.js:361, 381).
WillPublishedOnce ==
  \A c \in Conns : published[c] <= 1 /\ (published[c] = 1 => c \notin disconnected)

\* No will outlives its connection in persistence: the chain of a CONNECT that
\* goes on after its client has closed stores no will that nobody is left to
\* delete (client.js:382, connect.js:196-201).
NoOrphanWill ==
  \A i \in ClientIds : stored[i] # NoConn =>
    stored[i] \notin finished \/ departing[stored[i]] # "no"

\* A client that closes before its authentication has answered never gets
\* into the registry, and so never takes over another connection.
ClosedEarlyStaysOut ==
  \A c \in Conns :
    [](c \in closed \ authorized => [](clients[IdOf[c]] # c /\ \A d \in Conns : next[d] # c))

\* A registration that waits for an older connection to finish is carried out,
\* even if others ask to close that connection meanwhile (aedes.js:240).
TakeoverCompletes ==
  \A c, d \in Conns : next[d] = c ~> clients[IdOf[c]] = c

\* broker.close() calls back, and by then every client that was registered
\* when it was called has finished or had been closing already.
BrokerCloses == broker = "closing" ~> broker = "closed" /\ awaited \subseteq finished

\* The will of a connected client is in persistence when no chain, close or
\* will is under way, as test/will.js expects, unless another connection was
\* authorized with its identifier: a connection that fails earlier does not
\* touch it.  (After a takeover the old client's delWill, which names only the
\* identifier, may remove the will of the new one, client.js:367.)
Settled(c) ==
  /\ stage[c] \in {"idle", "done", "dropped"}
  /\ c \in closed => c \in finished
  /\ departing[c] = "no"

WillStoredUndisturbed ==
  (\A c \in Conns : Settled(c)) =>
    \A c \in (connected \cap will) \ closed :
      \/ stored[IdOf[c]] = c
      \/ \E d \in authorized \ {c} : IdOf[d] = IdOf[c]

\* A disagreement: what a comment says.

\* aedes.js:239, [MQTT-3.1.4-2]: a client that connects with the identifier of
\* another disconnects it, so no two live clients share an identifier.
OneLiveClientPerId ==
  \A c, d \in connected \ closed : IdOf[c] = IdOf[d] => c = d
=============================================================================

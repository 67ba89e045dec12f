--------------------------- MODULE Subscriptions ---------------------------
(***************************************************************************)
(* The subscriptions of one client: lib/handlers/subscribe.js,             *)
(* lib/handlers/unsubscribe.js, client.subscribe(), client.unsubscribe()   *)
(* and the unsubscription at the end of client.close().                    *)
(*                                                                         *)
(* Three places know of a subscription: client.subscriptions, the handlers *)
(* registered with the external mqemitter, and the session kept by the     *)
(* external persistence.  A request changes them one after another, one    *)
(* callback at a time for each of its topics, while other requests are     *)
(* under way: the packets of one chunk of data are not waited for, and the *)
(* program may call subscribe() and unsubscribe() whenever it likes.  The  *)
(* persistence carries out what it is asked for at some time between the   *)
(* call and its answer, and may answer in any order.                       *)
(*                                                                         *)
(* Abstracted: the topics of a request share their options (qos, rh, rap   *)
(* and nl); retained messages and the $SYS notices are left out; of the    *)
(* broker's own closing only the closing of this client is left.           *)
(***************************************************************************)
EXTENDS Naturals, FiniteSets

CONSTANTS
  MaxReqs,   \* bound: the requests of one behaviour, after the initial state
  Topics,    \* topic filters
  Lists,     \* bound: the lists of topics each request may have
  Options,   \* the options of a subscription
  First,     \* the options of request 0: options are only compared
  None       \* no subscription

ASSUME SubscriptionsAssumption ==
  /\ MaxReqs \in Nat /\ IsFiniteSet(Topics)
  /\ Lists \in [0..MaxReqs -> SUBSET ((SUBSET Topics) \ {{}})]
  /\ First \in Options
  /\ None \notin Options \cup (0..MaxReqs)

\* Request 0 is the one that the initial state finds made or being made, the
\* last one is that of close().
Reqs == 0..MaxReqs
Closing == MaxReqs + 1

VARIABLES
  clean,      \* client.clean
  closed,     \* client.closed
  subs,       \* client.subscriptions: the request whose function the entry holds
  handlers,   \* the functions mqemitter holds for each topic, by request
  stored,     \* the subscriptions of the session in the persistence
  kind,       \* what each request is
  option,     \* the options a request to subscribe asks for
  stage,      \* what each request waits for, topic by topic
  \* Variables that only the properties read:
  clash,      \* topics subscribed to while their handler was being removed
  broken,     \* mqemitter has answered with an error
  overlapped  \* <<r, t>>: when r came, a request about t was under way

work == <<subs, handlers, stored, stage>>
notes == <<clash, broken, overlapped>>
vars == <<clean, closed, work, kind, option, notes>>

\* Packets have a messageId, calls of the program do not.
Kinds == {"none", "restore", "SUBSCRIBE", "subscribe", "UNSUBSCRIBE", "unsubscribe"}
InFlight == {"authorizing", "storing", "saved", "hooking", "removing", "removed", "unhooking"}
Settled == {"granted", "refused", "gone"}
Stages == {"none", "failed", "dropped"} \cup InFlight \cup Settled

TypeOK ==
  /\ clean \in BOOLEAN /\ closed \in BOOLEAN /\ broken \in BOOLEAN
  /\ subs \in [Topics -> Reqs \cup {None}]
  /\ handlers \in [Topics -> SUBSET Reqs]
  /\ stored \in [Topics -> Options \cup {None}]
  /\ kind \in [Reqs -> Kinds]
  /\ option \in [Reqs -> Options \cup {None}]
  /\ stage \in [Reqs \cup {Closing} -> [Topics -> Stages]]
  /\ clash \subseteq Topics
  /\ overlapped \subseteq Reqs \X Topics

\* The client has no subscriptions yet, or restoreSubs of lib/handlers/connect.js
\* restores those of its session, or it has subscribed before.
Init ==
  \E ts \in Lists[0] \cup {{}}, restoring \in BOOLEAN :
    /\ clean \in BOOLEAN
    /\ restoring => ~clean /\ ts # {}
    /\ stored = [t \in Topics |-> IF t \in ts /\ ~clean THEN First ELSE None]
    /\ kind = [r \in Reqs |-> IF r # 0 THEN "none" ELSE IF restoring THEN "restore" ELSE "SUBSCRIBE"]
    /\ option = [r \in Reqs |-> IF r = 0 THEN First ELSE None]
    /\ stage = [r \in Reqs \cup {Closing} |-> [t \in Topics |->
                  IF r # 0 \/ t \notin ts THEN "none"
                  ELSE IF restoring THEN "authorizing" ELSE "granted"]]
    /\ subs = [t \in Topics |-> IF t \in ts /\ ~restoring THEN 0 ELSE None]
    /\ handlers = [t \in Topics |-> IF t \in ts /\ ~restoring THEN {0} ELSE {}]
    /\ closed = FALSE
    /\ clash = {} /\ broken = FALSE /\ overlapped = {}

-----------------------------------------------------------------------------
\* Requests.

Asks(r, t) == stage[r][t] # "none"
Arrived(r) == \E t \in Topics : Asks(r, t)
Busy(r) == \E t \in Topics : stage[r][t] \in InFlight

Failed(r) == \E t \in Topics : stage[r][t] = "failed"

\* runParallel() and once(): a request is answered with the first error, or
\* when all its topics are through; its other topics go on all the same.  A
\* topic dropped by addSubs never calls back.
Answered(r) ==
  Arrived(r) /\ (Failed(r) \/ \A t \in Topics : stage[r][t] \in Settled \cup {"none"})

At(st, r, ts, s) == [st EXCEPT ![r] = [t \in Topics |-> IF t \in ts THEN s ELSE st[r][t]]]

\* doUnsubscribe(t, done) for every t of ts: mqemitter drops the function at
\* once and calls back later; a topic without an entry is through.
Unhooking(ts) == {t \in ts : subs[t] # None}
WithoutHandlers(ts) == [t \in Topics |-> IF t \in ts THEN handlers[t] \ {subs[t]} ELSE handlers[t]]
UnhookStage(st, r, ts) == At(At(st, r, ts, "gone"), r, Unhooking(ts), "unhooking")

\* client.close() unsubscribes from all the topics of client.subscriptions.
\* 'st' is the stage this step has come to otherwise.
CloseWith(st) ==
  IF closed
  THEN stage' = st /\ UNCHANGED <<closed, handlers>>
  ELSE /\ closed' = TRUE
       /\ stage' = UnhookStage(st, Closing, Topics)
       /\ handlers' = WithoutHandlers(Topics)

\* A packet's error goes to nextBatch(), which emits 'error' on the client: it
\* is closed.  An error of subscribe() or unsubscribe() only goes to its caller.
Fail(r, ts) ==
  /\ IF kind[r] \in {"subscribe", "unsubscribe"}
     THEN stage' = At(stage, r, ts, "failed") /\ UNCHANGED <<closed, handlers>>
     ELSE CloseWith(At(stage, r, ts, "failed"))
  /\ UNCHANGED <<subs, stored, clash>>

\* Packets are handled after the CONNACK, which comes after restoreSubs (in
\* connectActions of connect.js), and until close().
Arrives(r, k, ts) ==
  /\ kind[r] = "none" /\ \A q \in 0..(r - 1) : kind[q] # "none"
  /\ k \in {"SUBSCRIBE", "UNSUBSCRIBE"} =>
       ~closed /\ (kind[0] = "restore" => Answered(0))
  /\ kind' = [kind EXCEPT ![r] = k]
  /\ overlapped' = overlapped \cup
       {<<r, t>> : t \in {u \in ts : \E q \in 0..(r - 1) : Asks(q, u) /\ Busy(q)}}
  /\ UNCHANGED <<clean, broken>>

-----------------------------------------------------------------------------
\* Subscribing.

NoteClash(t) ==
  clash' = IF ~closed /\ \E q \in Reqs : stage[q][t] = "unhooking"
           THEN clash \cup {t} ELSE clash

\* broker.unsubscribe(t, old) of the old function, broker.subscribe(t, func, done)
Hook(r, t, old) ==
  /\ subs' = [subs EXCEPT ![t] = r]
  /\ handlers' = [handlers EXCEPT ![t] = (@ \ old) \cup {r}]
  /\ stage' = At(stage, r, {t}, "hooking")
  /\ NoteClash(t)

LeaveSubs(r, t, s) ==
  /\ stage' = At(stage, r, {t}, s)
  /\ NoteClash(t)
  /\ UNCHANGED <<subs, handlers>>

SameOptions(r, t) == subs[t] # None /\ option[subs[t]] = option[r]

\* (faulty variant) a closed client is given its handler all the same
AddSubsUnchecked(r, t) ==
  IF SameOptions(r, t) THEN LeaveSubs(r, t, "granted") ELSE Hook(r, t, {subs[t]})

\* (faulty variant) an entry is kept whatever its options
AddSubsKeeps(r, t) ==
  IF closed THEN LeaveSubs(r, t, "dropped")
  ELSE IF subs[t] # None THEN LeaveSubs(r, t, "granted")
  ELSE Hook(r, t, {})

\* (faulty variant) the function that is replaced stays with mqemitter
AddSubsLeaves(r, t) ==
  IF closed THEN LeaveSubs(r, t, "dropped")
  ELSE IF SameOptions(r, t) THEN LeaveSubs(r, t, "granted")
  ELSE Hook(r, t, {})

\* addSubs: nothing for a closed client, not even the callback; nothing new if
\* the entry has the same options; otherwise the function is replaced.
AddSubs(r, t) ==
  IF closed THEN LeaveSubs(r, t, "dropped")
  ELSE IF SameOptions(r, t) THEN LeaveSubs(r, t, "granted")
  ELSE Hook(r, t, {subs[t]})

\* handleSubscribe: every topic is sent to authorizeSubscribe.
Subscribe(r) ==
  \E k \in {"SUBSCRIBE", "subscribe"}, ts \in Lists[r], o \in Options :
    /\ Arrives(r, k, ts)
    /\ option' = [option EXCEPT ![r] = o]
    /\ stage' = At(stage, r, ts, "authorizing")
    /\ UNCHANGED <<closed, subs, handlers, stored, clash>>

\* authorizeSubscribe has answered without a subscription: storeSubscriptions
\* and addSubs pass it on.
Refuse(r, t) ==
  /\ stage' = At(stage, r, {t}, "refused")
  /\ UNCHANGED <<closed, subs, handlers, stored, clash, option>>

\* The topic is invalid, or authorizeSubscribe has answered.  The session is
\* not written when the client is clean or is being restored.
Authorize(r, t) ==
  /\ stage[r][t] = "authorizing"
  /\ \/ Fail(r, {t}) /\ UNCHANGED option
     \/ Refuse(r, t)
     \/ /\ clean \/ kind[r] = "restore"
        /\ AddSubs(r, t)
        /\ UNCHANGED <<closed, stored, option>>
     \/ /\ ~clean /\ kind[r] # "restore"
        /\ stage' = At(stage, r, {t}, "storing")
        /\ UNCHANGED <<closed, subs, handlers, stored, clash, option>>
  /\ UNCHANGED <<clean, kind, broken, overlapped>>

\* persistence.addSubscriptions is carried out: each topic stores the whole
\* packet, the topics that were refused included.
StoreSubscriptions(r, t) ==
  /\ stage[r][t] = "storing"
  /\ stored' = [u \in Topics |-> IF Asks(r, u) THEN option[r] ELSE stored[u]]
  /\ stage' = At(stage, r, {t}, "saved")
  /\ UNCHANGED <<clean, closed, subs, handlers, kind, option, notes>>

\* (faulty variant) the topic is subscribed to without waiting for the session
StoredAtOnce(r, t) ==
  /\ stage[r][t] = "storing" /\ AddSubs(r, t) /\ UNCHANGED <<closed, stored>>
  /\ UNCHANGED <<clean, kind, option, broken, overlapped>>

\* It has answered: addSubs, or an error, whether it was carried out or not.
Stored(r, t) ==
  /\ \/ stage[r][t] = "saved" /\ AddSubs(r, t) /\ UNCHANGED <<closed, stored>>
     \/ stage[r][t] \in {"storing", "saved"} /\ Fail(r, {t})
  /\ UNCHANGED <<clean, kind, option, broken, overlapped>>

\* mqemitter has answered on().
Hooked(r, t) ==
  /\ stage[r][t] = "hooking"
  /\ \/ /\ stage' = At(stage, r, {t}, "granted")
        /\ UNCHANGED <<closed, subs, handlers, stored, clash, broken>>
     \/ Fail(r, {t}) /\ broken' = TRUE
  /\ UNCHANGED <<clean, kind, option, overlapped>>

-----------------------------------------------------------------------------
\* Unsubscribing.

\* handleUnsubscribe: an invalid topic is an error; the packet of a persistent
\* client first removes the subscriptions from its session.
Unsubscribe(r) ==
  \E k \in {"UNSUBSCRIBE", "unsubscribe"}, ts \in Lists[r] :
    /\ Arrives(r, k, ts)
    /\ \/ /\ stage' = At(stage, r, ts, "failed")
          /\ k = "unsubscribe"
          /\ UNCHANGED <<closed, handlers>>
       \/ k = "UNSUBSCRIBE" /\ CloseWith(At(stage, r, ts, "failed"))
       \/ /\ k = "UNSUBSCRIBE" /\ ~clean
          /\ stage' = At(stage, r, ts, "removing")
          /\ UNCHANGED <<closed, handlers>>
       \/ /\ k = "unsubscribe" \/ clean
          /\ stage' = UnhookStage(stage, r, ts)
          /\ handlers' = WithoutHandlers(ts)
          /\ UNCHANGED closed
    /\ UNCHANGED <<subs, stored, option, clash>>

\* persistence.removeSubscriptions is carried out, for all topics of the packet.
RemoveSubscriptions(r) ==
  LET ts == {t \in Topics : Asks(r, t)} IN
  /\ \E t \in Topics : stage[r][t] = "removing"
  /\ stored' = [t \in Topics |-> IF t \in ts THEN None ELSE stored[t]]
  /\ stage' = At(stage, r, ts, "removed")
  /\ UNCHANGED <<clean, closed, subs, handlers, kind, option, notes>>

\* It has answered: actualUnsubscribe, or an error.
Removed(r) ==
  LET ts == {t \in Topics : Asks(r, t)} IN
  /\ \/ /\ \E t \in Topics : stage[r][t] = "removed"
        /\ handlers' = WithoutHandlers(ts)
        /\ stage' = UnhookStage(stage, r, ts)
        /\ UNCHANGED <<closed, subs, stored, clash>>
     \/ (\E t \in Topics : stage[r][t] \in {"removing", "removed"}) /\ Fail(r, ts)
  /\ UNCHANGED <<clean, kind, option, broken, overlapped>>

\* mqemitter has answered removeListener(): whatever entry the topic has by now
\* is deleted.  An error closes the client, whoever asked.
Unhooked(r, t) ==
  /\ stage[r][t] = "unhooking"
  /\ \/ /\ subs' = [subs EXCEPT ![t] = None]
        /\ stage' = At(stage, r, {t}, "gone")
        /\ UNCHANGED <<closed, handlers, broken>>
     \/ /\ CloseWith(At(stage, r, {t}, "failed"))
        /\ broken' = TRUE
        /\ UNCHANGED subs
  /\ UNCHANGED <<stored, clean, kind, option, clash, overlapped>>

\* client.close(), for any of its other reasons
Close ==
  /\ ~closed
  /\ CloseWith(stage)
  /\ UNCHANGED <<clean, subs, stored, kind, option, notes>>

Next ==
  \/ \E r \in Reqs :
       \/ Subscribe(r)
       \/ Unsubscribe(r) \/ RemoveSubscriptions(r) \/ Removed(r)
       \/ \E t \in Topics :
            Authorize(r, t) \/ StoreSubscriptions(r, t) \/ Stored(r, t) \/ Hooked(r, t)
  \/ \E r \in Reqs \cup {Closing}, t \in Topics : Unhooked(r, t)
  \/ Close

Spec == Init /\ [][Next]_vars

-----------------------------------------------------------------------------
\* Properties.

\* client.subscriptions and mqemitter agree: the function mqemitter holds for a
\* topic is that of the entry, none while the entry waits for its removal, and
\* never two.  Only a topic subscribed to while the handler of an earlier
\* subscription was being removed is excepted: see README, section 4.
HandlersTracked ==
  ~broken => \A t \in Topics \ clash :
    handlers[t] = IF subs[t] = None \/ \E r \in Reqs \cup {Closing} : stage[r][t] = "unhooking"
                  THEN {} ELSE {subs[t]}

\* A client whose close() is over has left nothing with mqemitter, however many
\* requests were under way when it closed (subscribe.js:169: 'a hack').
NoHandlerLeft ==
  Answered(Closing) => \A t \in Topics \ clash : handlers[t] = {}

\* A request that met no other one about its topic has its way: the latest one
\* decides what client.subscriptions, mqemitter and the session hold.  A request
\* is met as long as any of its topics is under way, since each of them stores
\* the whole packet.  Of a topic that was once subscribed to while its handler
\* was being removed, mqemitter may hold a function that no request removes.
LastOn(r, t) == Asks(r, t) /\ \A q \in Reqs : q > r => ~Asks(q, t)
InSession(t) == IF subs[t] = None THEN None ELSE option[subs[t]]

LastRequestWins ==
  ~closed /\ ~broken =>
    \A r \in Reqs, t \in Topics :
      LastOn(r, t) /\ <<r, t>> \notin overlapped =>
        /\ stage[r][t] = "granted" =>
             /\ InSession(t) = option[r] /\ (t \notin clash => Cardinality(handlers[t]) = 1)
             /\ ~clean => stored[t] = option[r]
        /\ stage[r][t] = "gone" =>
             /\ subs[t] = None /\ (t \notin clash => handlers[t] = {})
             /\ kind[r] = "UNSUBSCRIBE" /\ ~clean => stored[t] = None

\* What a persistent client is subscribed to, a later connection will restore:
\* the session holds every topic of client.subscriptions.  It lacks one only
\* because of an UNSUBSCRIBE that has not come to its end or failed, or that was
\* under way together with the request the entry is from: the answers of the
\* persistence do not keep the order in which it did what it was asked.
TakenBy(q, t) ==
  /\ kind[q] = "UNSUBSCRIBE"
  /\ \/ stage[q][t] \in {"removed", "unhooking", "failed"}
     \/ Asks(q, t) /\ <<IF q > subs[t] THEN q ELSE subs[t], t>> \in overlapped

SessionCoversSubscriptions ==
  ~clean =>
    \A t \in Topics : subs[t] # None => stored[t] # None \/ \E q \in Reqs : TakenBy(q, t)
=============================================================================

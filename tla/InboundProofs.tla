--------------------------- MODULE InboundProofs ---------------------------
(***************************************************************************)
(* Proofs about Inbound for any number of messages, of either QoS, and of  *)
(* connections: type correctness, and that a QoS 2 message is published at *)
(* most once, an acknowledged one at least once, and leaves nothing in the *)
(* store, each but for the errors that its statement names; and that the   *)
(* exchange of a QoS 2 message implements Handover.                        *)
(***************************************************************************)
EXTENDS Inbound, TLAPS

\* The phase in which the client sends the packet that a handler handles.
PhaseOf(step) == IF step \in {"get", "del"} THEN "release" ELSE "publish"

\* h has gone on to its step s.
Goes(h, s) ==
  \E g \in Handlers : /\ g.conn = h.conn /\ g.msg = h.msg /\ g.step = s
                      /\ handlers' = (handlers \ {h}) \cup {g}

\* What [h EXCEPT !.step = s] is.
LEMMA StepGoes ==
  ASSUME TypeOK, NEW h \in handlers, NEW s \in Steps, Step(h, s)
  PROVE  Goes(h, s)
<1>1. h \in Handlers
  BY DEF TypeOK
<1>2. [h EXCEPT !.step = s] \in Handlers
  BY <1>1 DEF Handlers
<1>3. LET g == [h EXCEPT !.step = s] IN g.conn = h.conn /\ g.msg = h.msg /\ g.step = s
  BY <1>1 DEF Handlers
<1> QED BY <1>2, <1>3 DEF Goes, Step

\* An answer reaches the network of the connection it belongs to.
Answers(h, r) == reply' = reply \/ (reply' = r /\ up /\ h.conn = conn)

\* What a handler's step does to the handlers and to the network.
LEMMA HandleCases ==
  ASSUME TypeOK, NEW h \in handlers, Handle(h)
  PROVE  /\ UNCHANGED <<client, conn, completed>>
         /\ \/ /\ End(h) /\ UNCHANGED <<stored, published>>
               /\ UNCHANGED <<up, reply>> \/ (up' = FALSE /\ reply' = "none")
               /\ causes \subseteq causes' /\ causes' \subseteq causes \cup {"cut"}
               /\ h.step \in {"authorize", "store", "publish"}
               /\ h.step = "publish" => "cut" \in causes'
            \/ /\ h.step = "authorize" /\ h.msg \in QoS2 /\ Goes(h, "lookup")
               /\ UNCHANGED <<up, reply, stored, published, causes>>
            \/ /\ h.step = "authorize" /\ h.msg \notin QoS2 /\ Answers(h, "puback")
               /\ IF up /\ h.conn = conn THEN Goes(h, "publish") ELSE End(h) /\ reply' = reply
               /\ UNCHANGED <<up, stored, published, causes>>
            \/ /\ h.step = "lookup" /\ stored # 0 /\ End(h) /\ Answers(h, "pubrec")
               /\ UNCHANGED <<up, stored, published, causes>>
            \/ /\ h.step = "lookup" /\ Goes(h, "store")
               /\ stored # 0 => "blind" \in causes'
               /\ causes \subseteq causes' /\ causes' \subseteq causes \cup {"blind"}
               /\ UNCHANGED <<up, reply, stored, published>>
            \/ /\ h.step = "store" /\ stored' = h.msg /\ Goes(h, "publish")
               /\ UNCHANGED <<up, reply, published, causes>>
            \/ /\ h.step = "publish" /\ published' = [published EXCEPT ![h.msg] = @ + 1]
               /\ End(h) /\ IF h.msg \in QoS2 THEN Answers(h, "pubrec") ELSE reply' = reply
               /\ UNCHANGED <<up, stored, causes>>
            \/ /\ h.step = "get" /\ stored # 0 /\ Goes(h, "del")
               /\ UNCHANGED <<up, reply, stored, published, causes>>
            \/ /\ h.step \in {"get", "del"} /\ End(h) /\ Answers(h, "pubcomp")
               /\ causes \subseteq causes' /\ causes' \subseteq causes \cup {"undeleted"}
               /\ stored' \in {0, stored} /\ (stored' # 0 => "undeleted" \in causes')
               /\ UNCHANGED <<up, published>>
<1> USE DEF client, network
<1>1. CASE AuthorizePublish(h)
  BY <1>1, StepGoes DEF AuthorizePublish, Fail, Reply, Answers, Steps
<1>2. CASE Lookup(h)
  BY <1>2, StepGoes DEF Lookup, Reply, Answers, Steps
<1>3. CASE Store(h)
  BY <1>3, StepGoes DEF Store, Fail, Steps
<1>4. CASE PublishMessage(h)
  BY <1>4 DEF PublishMessage, Fail, Reply, Answers
<1>5. CASE PubrelGet(h)
  BY <1>5, StepGoes DEF PubrelGet, Reply, Answers, Steps
<1>6. CASE PubrelDelete(h)
  BY <1>6 DEF PubrelDelete, Reply, Answers
<1> QED BY <1>1, <1>2, <1>3, <1>4, <1>5, <1>6 DEF Handle

-----------------------------------------------------------------------------
\* Types.  The handlers are those of connections and messages that were.
Shape ==
  /\ TypeOK
  /\ up => conn \in Conns
  /\ phase # "idle" \/ reply # "none" => msg \in Msgs
  /\ completed \subseteq 1..msg
  /\ \A m \in Msgs : m > msg => published[m] = 0
  /\ \A h \in handlers : h.conn <= conn /\ h.msg <= msg

\* A step of a handler keeps the types.
LEMMA HandleShape ==
  ASSUME Shape, NEW h \in handlers, Handle(h)
  PROVE  Shape'
<1>0. /\ h \in Handlers /\ h.msg \in Msgs /\ h.conn <= conn /\ h.msg <= msg /\ msg \in Msgs
      /\ MaxMsgs \in Nat /\ MaxConns \in Nat /\ handlers \subseteq Handlers
      /\ published \in [Msgs -> Nat] /\ stored \in 0..MaxMsgs /\ up \in BOOLEAN
      /\ reply \in {"none", "puback", "pubrec", "pubcomp"} /\ (reply # "none" => up)
  BY InboundAssumption DEF Shape, TypeOK, Handlers, Msgs
<1>a. TypeOK
  BY DEF Shape
<1>1. UNCHANGED <<client, conn, completed>>
  BY <1>a, HandleCases
<1>2. /\ handlers' \subseteq Handlers
      /\ \A g \in handlers' : g.conn <= conn /\ g.msg <= msg
  <2>1. handlers' \subseteq handlers \/ \E s \in Steps : Goes(h, s)
    BY HandleCases DEF Shape, End, Steps
  <2> QED BY <1>0, <2>1 DEF Goes, Shape
<1>3. up' \in BOOLEAN /\ (up' => up)
  BY <1>0, <1>a, HandleCases
<1>4. reply' \in {"none", "puback", "pubrec", "pubcomp"} /\ (reply' # "none" => up')
  BY <1>0, <1>a, HandleCases DEF Answers
<1>5. stored' \in 0..MaxMsgs
  <2>1. stored' \in {0, stored, h.msg}
    BY <1>a, HandleCases
  <2> QED BY <1>0, <2>1 DEF Msgs
<1>6. published' \in [Msgs -> Nat] /\ \A m \in Msgs : m > msg => published'[m] = 0
  <2>1. published' = published \/ published' = [published EXCEPT ![h.msg] = @ + 1]
    BY <1>a, HandleCases
  <2>2. h.msg \in Msgs /\ h.msg <= msg /\ msg \in Nat /\ published \in [Msgs -> Nat]
        /\ \A m \in Msgs : m \in Nat /\ (m > msg => published[m] = 0)
    BY <1>0 DEF Shape, Msgs
  <2> HIDE DEF Msgs
  <2> QED BY <2>1, <2>2
<1>7. causes' \subseteq {"overtaken", "blind", "cut", "undeleted"}
  BY HandleCases DEF Shape, TypeOK
<1> QED BY <1>0, <1>1, <1>2, <1>3, <1>4, <1>5, <1>6, <1>7 DEF Shape, TypeOK, client

\* Every step keeps the types.
LEMMA NextShape == Shape /\ [Next]_vars => Shape'
<1> SUFFICES ASSUME Shape, [Next]_vars PROVE Shape'
  OBVIOUS
<1>0. /\ MaxMsgs \in Nat /\ MaxConns \in Nat /\ msg \in Nat /\ conn \in Nat
      /\ handlers \subseteq Handlers
      /\ \A h \in handlers : h.conn \in Nat /\ h.msg \in Nat /\ h.conn <= conn /\ h.msg <= msg
  BY InboundAssumption DEF Shape, TypeOK, Handlers, Msgs, Conns
<1> USE DEF Shape, TypeOK, Msgs, Conns
<1>1. CASE Connect
  <2>1. conn' = conn + 1 /\ conn' \in 1..MaxConns
    BY <1>0, <1>1 DEF Connect
  <2>2. \A h \in handlers' : h.conn <= conn' /\ h.msg <= msg'
    BY <1>0, <1>1, <2>1 DEF Connect
  <2>3. conn' \in 0..MaxConns /\ conn' \in 1..MaxConns
    BY <1>0, <2>1
  <2>4. /\ up' = TRUE /\ reply' = "none"
        /\ sent' = FALSE
        /\ UNCHANGED <<msg, phase, handlers, stored, published, completed, causes>>
    BY <1>1 DEF Connect
  <2>5. TypeOK'
    BY <2>3, <2>4
  <2> QED BY <2>2, <2>3, <2>4, <2>5
<1>2. CASE NewMessage
  <2>1. msg' = msg + 1 /\ msg' \in 1..MaxMsgs
    BY <1>0, <1>2 DEF NewMessage
  <2>2. \A h \in handlers' : h.conn <= conn' /\ h.msg <= msg'
    BY <1>0, <1>2, <2>1 DEF NewMessage, network
  <2>3. completed' \subseteq 1..msg' /\ \A m \in Msgs : m > msg' => published'[m] = 0
    BY <1>0, <1>2, <2>1 DEF NewMessage, network
  <2>4. /\ phase' = "publish" /\ sent' = FALSE
        /\ UNCHANGED <<conn, up, reply, handlers, stored, published, completed, causes>>
    BY <1>2 DEF NewMessage, network
  <2>5. msg' \in 0..MaxMsgs
    BY <1>0, <2>1
  <2>6. TypeOK'
    BY <2>4, <2>5
  <2> QED BY <1>2, <2>1, <2>2, <2>3, <2>6 DEF NewMessage, network
<1>3. CASE Send
  <2> DEFINE g == [conn |-> conn, msg |-> msg, step |-> IF phase = "publish" THEN "authorize" ELSE "get"]
  <2>1. g \in Handlers /\ g.conn = conn /\ g.msg = msg
    BY <1>0, <1>3 DEF Send, Handlers, Steps
  <2>2. handlers' = handlers \cup {g} /\ conn \in Nat /\ msg \in Nat
    BY <1>0, <1>3 DEF Send
  <2>3. /\ handlers' \subseteq Handlers
        /\ \A h \in handlers' : h.conn <= conn /\ h.msg <= msg
    <3> HIDE DEF g
    <3> QED BY <2>1, <2>2
  <2> QED BY <1>3, <2>3 DEF Send, network
<1>4. CASE Receive
  <2>1. msg \in Msgs /\ completed' \subseteq completed \cup {msg} /\ msg' = msg
    BY <1>4 DEF Receive
  <2>2. completed' \subseteq 1..msg' /\ completed' \subseteq Msgs
    BY <1>0, <2>1
  <2>3. phase' \in {"idle", "release"}
    BY <1>4 DEF Receive
  <2> QED BY <1>4, <2>1, <2>2, <2>3 DEF Receive
<1>5. CASE Lose
  BY <1>0, <1>5 DEF Lose, client
<1>6. CASE Crash
  BY <1>0, <1>6 DEF Crash, client
<1>7. ASSUME NEW h \in handlers, Handle(h) PROVE Shape'
  BY <1>7, HandleShape
<1>8. CASE UNCHANGED vars
  BY <1>8 DEF vars, client, network
<1> QED BY <1>1, <1>2, <1>3, <1>4, <1>5, <1>6, <1>7, <1>8 DEF Next

\* Every state is of its type.
LEMMA Types == Spec => []Shape
<1>1. Init => Shape
  <2>1. ASSUME Init PROVE published \in [Msgs -> Nat] /\ \A m \in Msgs : published[m] = 0
    BY <2>1 DEF Init
  <2>2. Init => TypeOK /\ completed = {} /\ handlers = {}
    <3>1. 0 \in 0..MaxMsgs /\ 0 \in 0..MaxConns
      BY InboundAssumption
    <3> QED BY <2>1, <3>1 DEF Init, TypeOK
  <2> QED BY <2>1, <2>2 DEF Init, Shape
<1> QED BY <1>1, NextShape, PTL DEF Spec

-----------------------------------------------------------------------------
(***************************************************************************)
(* As long as no packet overtakes a handler of an earlier connection, one  *)
(* handler at most works on what the client waits for.  (A QoS 1 message   *)
(* that is acknowledged already may be published beside it.)               *)
(***************************************************************************)
Main == {h \in handlers : h.msg \in QoS2 \/ h.step # "publish"}

Alone ==
  /\ \A h \in Main : /\ h.msg = msg /\ phase = PhaseOf(h.step) /\ reply = "none"
                     /\ up /\ h.conn = conn => sent
  /\ \A g, h \in Main : g = h
  /\ \A h \in handlers : h.step \notin {"authorize", "publish"} => h.msg \in QoS2
  /\ phase = "release" => msg \in QoS2
  /\ reply # "none" => sent
  /\ reply = "puback" => phase = "publish" /\ msg \notin QoS2
  /\ reply = "pubrec" => phase = "publish" /\ msg \in QoS2
  /\ reply = "pubcomp" => phase = "release"

\* Handlers end, and the connection may be lost.
LEMMA FewerAlone ==
  ASSUME Alone, UNCHANGED <<msg, phase, sent, conn>>, handlers' \subseteq handlers,
         UNCHANGED <<up, reply>> \/ (up' = FALSE /\ reply' = "none")
  PROVE  Alone'
  BY DEF Alone, Main, PhaseOf

\* The handler that works goes on to its next step.
LEMMA GoesAlone ==
  ASSUME Alone, NEW h \in Main, NEW s, Goes(h, s), PhaseOf(s) = PhaseOf(h.step),
         s \notin {"authorize", "publish"} => h.msg \in QoS2,
         UNCHANGED <<client, network>>
  PROVE  Alone'
<1>1. PICK g \in Handlers : /\ g.conn = h.conn /\ g.msg = h.msg /\ g.step = s
                            /\ handlers' = (handlers \ {h}) \cup {g}
  BY DEF Goes
<1>2. Main' \subseteq {g}
  BY <1>1 DEF Alone, Main
<1> QED BY <1>1, <1>2 DEF Alone, Main, PhaseOf, client, network

\* The answer r is one the client waits for.
Fits(r) ==
  \/ r = "puback" /\ phase = "publish" /\ msg \notin QoS2
  \/ r = "pubrec" /\ phase = "publish" /\ msg \in QoS2
  \/ r = "pubcomp" /\ phase = "release"

\* The handler that works answers and ends, but for a QoS 1 publication.
LEMMA AnswersAlone ==
  ASSUME Alone, NEW h \in Main, NEW r, Answers(h, r), UNCHANGED <<client, conn, up>>, Main' = {},
         \A g \in handlers' : g \in handlers \/ g.step = "publish",
         Fits(r)
  PROVE  Alone'
<1>1. reply = "none" /\ (up /\ h.conn = conn => sent)
  BY DEF Alone
<1> QED BY <1>1 DEF Alone, Answers, client, Fits

\* Each step of a handler leaves one at most at work.
LEMMA HandleAlone ==
  ASSUME Shape, Alone, NEW h \in handlers, Handle(h)
  PROVE  Alone'
<1>0. TypeOK
  BY DEF Shape
<1>1. UNCHANGED <<client, conn>>
  BY <1>0, HandleCases
<1>2. ASSUME h \in Main, End(h) PROVE Main' = {} /\ \A g \in handlers' : g \in handlers
  BY <1>2 DEF Alone, Main, End
<1>3. ASSUME h.step # "publish" PROVE h \in Main /\ h.msg = msg /\ phase = PhaseOf(h.step)
  BY <1>3 DEF Alone, Main
<1>4. CASE End(h) /\ (UNCHANGED <<up, reply>> \/ (up' = FALSE /\ reply' = "none"))
  BY <1>1, <1>4, FewerAlone DEF End, client
<1>5. CASE h.step = "authorize" /\ h.msg \in QoS2 /\ Goes(h, "lookup") /\ UNCHANGED <<up, reply>>
  BY <1>1, <1>3, <1>5, GoesAlone DEF PhaseOf, network
<1>6. CASE /\ h.step = "authorize" /\ h.msg \notin QoS2 /\ Answers(h, "puback")
           /\ Goes(h, "publish") /\ UNCHANGED up
  <2>1. PICK g \in Handlers : /\ g.msg = h.msg /\ g.step = "publish"
                              /\ handlers' = (handlers \ {h}) \cup {g}
    BY <1>6 DEF Goes
  <2>2. Main' = {}
    BY <1>3, <1>6, <2>1 DEF Main, Alone
  <2>3. h \in Main /\ Fits("puback")
    BY <1>3, <1>6 DEF PhaseOf, Fits
  <2>4. \A x \in handlers' : x \in handlers \/ x.step = "publish"
    BY <2>1
  <2> QED BY <1>1, <1>6, <2>2, <2>3, <2>4, AnswersAlone
<1>7. CASE h.step = "lookup" /\ End(h) /\ Answers(h, "pubrec") /\ UNCHANGED up
  <2>1. h \in Main /\ Fits("pubrec")
    BY <1>3, <1>7 DEF PhaseOf, Alone, Fits
  <2>2. Main' = {} /\ \A g \in handlers' : g \in handlers
    BY <1>2, <1>7, <2>1
  <2> QED BY <1>1, <1>7, <2>1, <2>2, AnswersAlone
<1>8. CASE h.step = "lookup" /\ Goes(h, "store") /\ UNCHANGED <<up, reply>>
  <2>1. h.msg \in QoS2
    BY <1>8 DEF Alone
  <2> QED BY <1>1, <1>3, <1>8, <2>1, GoesAlone DEF PhaseOf, network
<1>9. CASE h.step = "store" /\ Goes(h, "publish") /\ UNCHANGED <<up, reply>>
  BY <1>1, <1>3, <1>9, GoesAlone DEF PhaseOf, network
<1>10. CASE h.step = "publish" /\ h.msg \in QoS2 /\ End(h) /\ Answers(h, "pubrec") /\ UNCHANGED up
  <2>1. h \in Main /\ Fits("pubrec")
    BY <1>10 DEF PhaseOf, Alone, Main, Fits
  <2>2. Main' = {} /\ \A g \in handlers' : g \in handlers
    BY <1>2, <1>10, <2>1
  <2> QED BY <1>1, <1>10, <2>1, <2>2, AnswersAlone
<1>11. CASE h.step = "get" /\ Goes(h, "del") /\ UNCHANGED <<up, reply>>
  <2>1. h.msg \in QoS2
    BY <1>11 DEF Alone
  <2> QED BY <1>1, <1>3, <1>11, <2>1, GoesAlone DEF PhaseOf, network
<1>12. CASE h.step \in {"get", "del"} /\ End(h) /\ Answers(h, "pubcomp") /\ UNCHANGED up
  <2>1. h \in Main /\ Fits("pubcomp")
    BY <1>3, <1>12 DEF PhaseOf, Fits
  <2>2. Main' = {} /\ \A g \in handlers' : g \in handlers
    BY <1>2, <1>12, <2>1
  <2> QED BY <1>1, <1>12, <2>1, <2>2, AnswersAlone
<1>13. CASE h.step = "authorize" /\ End(h) /\ reply' = reply /\ UNCHANGED up
  BY <1>4, <1>13
<1> QED BY <1>0, HandleCases, <1>4, <1>5, <1>6, <1>7, <1>8, <1>9, <1>10, <1>11, <1>12, <1>13

\* The causes that were are never forgotten.
LEMMA CausesGrow == TypeOK /\ [Next]_vars => causes \subseteq causes'
<1> SUFFICES ASSUME TypeOK, [Next]_vars PROVE causes \subseteq causes'
  OBVIOUS
<1>1. ASSUME NEW h \in handlers, Handle(h) PROVE causes \subseteq causes'
  BY <1>1, HandleCases
<1> QED BY <1>1 DEF Next, Connect, NewMessage, Send, Receive, Lose, Crash, vars

\* Every step leaves one handler at most at work, unless a packet overtakes one.
LEMMA NextAlone ==
  ASSUME Shape, Alone, [Next]_vars, "overtaken" \notin causes'
  PROVE  Alone'
<1>1. CASE Connect
  <2>1. \A h \in handlers : h.conn # conn + 1
    BY InboundAssumption DEF Shape, TypeOK, Handlers, Conns
  <2> QED BY <1>1, <2>1 DEF Connect, Alone, Main
<1>2. CASE NewMessage
  <2>1. phase = "idle" /\ phase' = "publish" /\ UNCHANGED <<handlers, reply>>
    BY <1>2 DEF NewMessage, network
  <2>2. Main = {} /\ reply = "none" /\ Main' = {}
    BY <2>1 DEF Alone, Main, PhaseOf, Shape, TypeOK
  <2> QED BY <2>1, <2>2 DEF Alone
<1>3. CASE Send
  <2> DEFINE g == [conn |-> conn, msg |-> msg, step |-> IF phase = "publish" THEN "authorize" ELSE "get"]
  <2>1. g.msg = msg /\ phase = PhaseOf(g.step) /\ g.step \in {"authorize", "get"}
        /\ (g.step = "get" => msg \in QoS2)
    BY <1>3 DEF Send, Alone, PhaseOf, Shape, TypeOK
  <2>2. handlers' = handlers \cup {g} /\ \A h \in handlers : h.conn = conn
    BY <1>3 DEF Send
  <2> HIDE DEF g
  <2>3. Main = {} /\ reply = "none"
    BY <1>3, <2>2 DEF Send, Alone, Main
  <2>4. Main' = {g}
    BY <2>1, <2>2, <2>3, <1>3 DEF Main, Send
  <2>5. UNCHANGED <<msg, phase, conn, up, reply>> /\ sent' = TRUE
    BY <1>3 DEF Send, network
  <2> QED BY <2>1, <2>2, <2>3, <2>4, <2>5 DEF Alone
<1>4. CASE Receive
  BY <1>4 DEF Receive, Alone, Main, PhaseOf, Shape, TypeOK
<1>5. CASE Lose
  BY <1>5, FewerAlone DEF Lose, client
<1>6. CASE Crash
  BY <1>6, FewerAlone DEF Crash, client
<1>7. ASSUME NEW h \in handlers, Handle(h) PROVE Alone'
  BY <1>7, HandleAlone
<1>8. CASE UNCHANGED vars
  BY <1>8, FewerAlone DEF vars, client, network
<1> QED BY <1>1, <1>2, <1>3, <1>4, <1>5, <1>6, <1>7, <1>8 DEF Next

\* What the handlers work on, one by one.
LEMMA AtWork ==
  ASSUME Shape, Alone, NEW h \in handlers
  PROVE  /\ h.msg \in Msgs /\ published[h.msg] \in Nat /\ msg \in Nat
         /\ h.step \in {"lookup", "store"} \/ (h.step = "publish" /\ h.msg \in QoS2) =>
              h.msg = msg /\ msg \in QoS2 /\ phase = "publish" /\ reply = "none"
         /\ h.step \in {"get", "del"} => h.msg = msg /\ msg \in QoS2 /\ phase = "release" /\ reply = "none"
         /\ h.step = "authorize" => h.msg = msg /\ phase = "publish" /\ reply = "none"
         /\ h.step \in {"lookup", "store"} \/ (h.step = "publish" /\ h.msg \in QoS2) =>
              \A g \in handlers : g # h => ~(g.msg \in QoS2 \/ g.step # "publish")
<1>1. /\ h \in Handlers /\ h.msg \in Msgs /\ published \in [Msgs -> Nat] /\ msg \in Nat
  BY InboundAssumption DEF Shape, TypeOK, Handlers
<1> QED BY <1>1 DEF Alone, Main, PhaseOf

-----------------------------------------------------------------------------
(***************************************************************************)
(* At most once.  What was published is still in the store while its       *)
(* PUBLISH may be sent again; so the lookup finds it.                      *)
(***************************************************************************)
Once ==
  /\ \A m \in QoS2 : published[m] <= 1
  /\ msg \in QoS2 /\ phase = "publish" /\ published[msg] >= 1 => stored # 0
  /\ \A h \in handlers :
       /\ h.step = "store" => published[h.msg] = 0
       /\ h.step = "publish" /\ h.msg \in QoS2 => published[h.msg] = 0 /\ stored # 0

\* A handler goes on, and is not one that publishes or stores.
LEMMA GoesOnce ==
  ASSUME Once, UNCHANGED <<msg, phase, published, stored>>,
         \A g \in handlers' :
           \/ g \in handlers
           \/ g.step \notin {"store", "publish"}
           \/ g.step = "publish" /\ g.msg \notin QoS2
  PROVE  Once'
  BY DEF Once

\* A step of a handler publishes nothing twice, unless its lookup errs.
LEMMA HandleOnce ==
  ASSUME Shape, Alone, Once, NEW h \in handlers, Handle(h), "blind" \notin causes'
  PROVE  Once'
<1>0. TypeOK
  BY DEF Shape
<1>1. UNCHANGED <<msg, phase>>
  BY <1>0, HandleCases DEF client
<1>2. CASE End(h) /\ UNCHANGED <<stored, published>>
  BY <1>1, <1>2, GoesOnce DEF End
<1>3. CASE \E s \in {"lookup", "del"} : Goes(h, s) /\ UNCHANGED <<stored, published>>
  <2>1. \A g \in handlers' : g \in handlers \/ g.step \notin {"store", "publish"}
    BY <1>3 DEF Goes
  <2> QED BY <1>1, <1>3, <2>1, GoesOnce
<1>4. CASE h.msg \notin QoS2 /\ Goes(h, "publish") /\ UNCHANGED <<stored, published>>
  <2>1. \A g \in handlers' : g \in handlers \/ (g.step = "publish" /\ g.msg \notin QoS2)
    BY <1>4 DEF Goes
  <2> QED BY <1>1, <1>4, <2>1, GoesOnce
<1>5. CASE h.step = "lookup" /\ Goes(h, "store") /\ stored = 0 /\ UNCHANGED <<stored, published>>
  <2>1. /\ h.msg = msg /\ msg \in QoS2 /\ phase = "publish" /\ published[h.msg] \in Nat
        /\ \A g \in handlers : g # h => g.step # "store" /\ ~(g.step = "publish" /\ g.msg \in QoS2)
    BY <1>5, AtWork
  <2>2. published[h.msg] = 0
    BY <1>5, <2>1 DEF Once
  <2>3. \A g \in handlers' : (g \in handlers /\ g # h) \/ (g.step = "store" /\ g.msg = h.msg)
    BY <1>5 DEF Goes
  <2> QED BY <1>1, <1>5, <2>1, <2>2, <2>3 DEF Once
<1>6. CASE h.step = "store" /\ stored' = h.msg /\ Goes(h, "publish") /\ UNCHANGED published
  <2>1. /\ h.msg # 0 /\ published[h.msg] = 0 /\ h.msg = msg
        /\ \A g \in handlers : g # h => g.step # "store" /\ ~(g.step = "publish" /\ g.msg \in QoS2)
    BY <1>6, AtWork DEF Msgs, Once
  <2>2. \A g \in handlers' : (g \in handlers /\ g # h) \/ (g.step = "publish" /\ g.msg = h.msg)
    BY <1>6 DEF Goes
  <2> QED BY <1>1, <1>6, <2>1, <2>2 DEF Once
<1>7. CASE h.step = "publish" /\ published' = [published EXCEPT ![h.msg] = @ + 1] /\ End(h) /\ UNCHANGED stored
  <2>0. published \in [Msgs -> Nat] /\ h.msg \in Msgs
    BY <1>0, AtWork DEF TypeOK
  <2>1. CASE h.msg \in QoS2
    <3>1. /\ h.msg = msg /\ published[h.msg] = 0 /\ stored # 0
          /\ \A g \in handlers : g # h => g.step # "store" /\ ~(g.step = "publish" /\ g.msg \in QoS2)
      BY <1>7, <2>1, AtWork DEF Once
    <3>2. \A m \in QoS2 : published'[m] <= 1
      BY <1>7, <2>0, <3>1, InboundAssumption DEF Once, Msgs
    <3> QED BY <1>1, <1>7, <3>1, <3>2 DEF Once, End
  <2>2. CASE h.msg \notin QoS2
    <3>1. \A m \in Msgs : m # h.msg => published'[m] = published[m]
      BY <1>7, <2>0
    <3>2. /\ \A m \in QoS2 : m \in Msgs /\ m # h.msg
          /\ \A g \in handlers : g.step = "store" => g.msg \in QoS2 /\ g.msg = msg
      BY <2>2, InboundAssumption, AtWork DEF Msgs
    <3> QED BY <1>1, <1>7, <3>1, <3>2 DEF Once, End
  <2> QED BY <2>1, <2>2
<1>8. CASE h.step \in {"get", "del"} /\ End(h) /\ UNCHANGED published
  <2>1. phase = "release"
    BY <1>8, AtWork
  <2>2. \A g \in handlers : g.step # "store" /\ ~(g.step = "publish" /\ g.msg \in QoS2)
    BY <2>1, AtWork
  <2> QED BY <1>1, <1>8, <2>1, <2>2 DEF Once, End
<1> QED BY <1>0, HandleCases, <1>2, <1>3, <1>4, <1>5, <1>6, <1>7, <1>8

\* Every step publishes nothing twice, unless a lookup errs or a packet
\* overtakes a handler.
LEMMA NextOnce ==
  ASSUME Shape, Alone, Once, [Next]_vars, "blind" \notin causes'
  PROVE  Once'
<1>1. CASE Connect \/ Lose
  BY <1>1, GoesOnce DEF Connect, Lose, client
<1>2. CASE NewMessage
  <2>1. /\ UNCHANGED <<handlers, stored, published>> /\ msg' = msg + 1 /\ msg' \in Msgs /\ msg \in Nat
    BY <1>2, InboundAssumption DEF NewMessage, Shape, TypeOK, Msgs
  <2>2. published[msg'] = 0
    BY <2>1 DEF Shape
  <2> QED BY <2>1, <2>2 DEF Once
<1>3. CASE Send
  <2>1. /\ UNCHANGED <<msg, phase, published, stored>>
        /\ \A g \in handlers' : g \in handlers \/ g.step \in {"authorize", "get"}
    BY <1>3 DEF Send
  <2> QED BY <2>1, GoesOnce
<1>4. CASE Receive
  BY <1>4 DEF Receive, Once
<1>5. CASE Crash
  BY <1>5, GoesOnce DEF Crash, client
<1>6. ASSUME NEW h \in handlers, Handle(h) PROVE Once'
  BY <1>6, HandleOnce
<1>7. CASE UNCHANGED vars
  BY <1>7, GoesOnce DEF vars, client
<1> QED BY <1>1, <1>2, <1>3, <1>4, <1>5, <1>6, <1>7 DEF Next

-----------------------------------------------------------------------------
(***************************************************************************)
(* The store is emptied.  What it keeps is the QoS 2 message on the way,   *)
(* until its PUBCOMP is written.                                           *)
(***************************************************************************)
Emptied == stored # 0 => stored = msg /\ msg \in QoS2 /\ phase # "idle" /\ reply # "pubcomp"

\* Every step keeps only what is on the way, unless a deletion fails.
LEMMA NextEmptied ==
  ASSUME Shape, Alone, Emptied, [Next]_vars, "undeleted" \notin causes'
  PROVE  Emptied'
<1>1. CASE Connect \/ Lose \/ Crash
  BY <1>1 DEF Connect, Lose, Crash, client, Emptied
<1>2. CASE NewMessage
  BY <1>2 DEF NewMessage, network, Emptied
<1>3. CASE Send
  BY <1>3 DEF Send, network, Emptied
<1>4. CASE Receive
  BY <1>4 DEF Receive, Emptied, Alone, Shape, TypeOK
<1>5. ASSUME NEW h \in handlers, Handle(h) PROVE Emptied'
  <2>0. TypeOK
    BY DEF Shape
  <2>1. UNCHANGED <<msg, phase>>
    BY <1>5, <2>0, HandleCases DEF client
  <2>2. CASE stored' = stored /\ reply' \in {reply, "none", "puback", "pubrec"}
    BY <2>1, <2>2 DEF Emptied
  <2>3. CASE h.step = "store" /\ stored' = h.msg /\ reply' = reply
    BY <2>1, <2>3, AtWork DEF Emptied
  <2>4. CASE stored' = 0
    BY <2>4 DEF Emptied
  <2> QED BY <1>5, <2>0, HandleCases, <2>2, <2>3, <2>4 DEF Answers
<1>6. CASE UNCHANGED vars
  BY <1>6 DEF vars, client, network, Emptied
<1> QED BY <1>1, <1>2, <1>3, <1>4, <1>5, <1>6 DEF Next

-----------------------------------------------------------------------------
(***************************************************************************)
(* At least once.  What is answered, or may be answered from the store,    *)
(* was published, or a handler is about to.                                *)
(***************************************************************************)
Reaching(m) == published[m] >= 1 \/ \E h \in handlers : h.msg = m /\ h.step = "publish"

Reached ==
  /\ stored # 0 \/ reply = "puback" => Reaching(msg)
  /\ phase = "release" \/ reply = "pubrec" => published[msg] >= 1
  /\ \A m \in completed : IF m \in QoS2 THEN published[m] >= 1 ELSE Reaching(m)

\* The other handlers publish what they are about to.
LEMMA ReachingStays ==
  ASSUME NEW m \in Msgs, Reaching(m),
         published'[m] >= published[m] \/ published'[m] >= 1, published[m] \in Nat, published'[m] \in Nat,
         \A h \in handlers : h.msg = m /\ h.step = "publish" => h \in handlers' \/ published'[m] >= 1
  PROVE  Reaching(m)'
  BY DEF Reaching

\* Nothing is published, and no handler that is about to publish ends.
LEMMA ReachedStays ==
  ASSUME Shape, Reached, UNCHANGED <<msg, phase, completed, published>>,
         stored' = stored, reply' \in {reply, "none", "pubcomp"},
         \A h \in handlers : h.step = "publish" => h \in handlers'
  PROVE  Reached'
<1>1. \A m : Reaching(m) => Reaching(m)'
  BY DEF Reaching
<1> QED BY <1>1 DEF Reached

\* A step of a handler keeps what was reached, unless broker.publish() fails.
LEMMA HandleReached ==
  ASSUME Shape, Alone, Emptied, Reached, NEW h \in handlers, Handle(h),
         causes' \cap {"cut", "undeleted"} = {}
  PROVE  Reached'
<1>0. TypeOK /\ published \in [Msgs -> Nat] /\ h.msg \in Msgs
  BY AtWork DEF Shape, TypeOK
<1>1. UNCHANGED <<msg, phase, completed>>
  BY <1>0, HandleCases DEF client
<1>2. CASE h.step # "publish" /\ End(h) /\ UNCHANGED <<stored, published>> /\ reply' \in {reply, "none", "pubcomp"}
  BY <1>1, <1>2, ReachedStays DEF End
<1>3. CASE h.step # "publish" /\ (\E s \in {"lookup", "del", "store"} : Goes(h, s))
           /\ UNCHANGED <<stored, published, reply>>
  BY <1>1, <1>3, ReachedStays DEF Goes
<1>4. CASE /\ h.step = "authorize" /\ Goes(h, "publish") /\ h.msg \notin QoS2
           /\ UNCHANGED <<stored, published>> /\ reply' \in {reply, "puback"}
  <2>1. PICK g \in Handlers : g.msg = h.msg /\ g.step = "publish" /\ handlers' = (handlers \ {h}) \cup {g}
    BY <1>4 DEF Goes
  <2>2. h.msg = msg /\ \A m : Reaching(m) => Reaching(m)'
    BY <1>4, <2>1, AtWork DEF Reaching
  <2>3. Reaching(msg)'
    BY <1>1, <2>1, <2>2 DEF Reaching
  <2>4. reply' = "puback" \/ reply' = reply
    BY <1>4
  <2> QED BY <1>1, <1>4, <2>2, <2>3, <2>4 DEF Reached
<1>5. CASE /\ h.step = "lookup" /\ stored # 0 /\ End(h) /\ Answers(h, "pubrec")
           /\ UNCHANGED <<stored, published>>
  <2>1. /\ h.msg = msg /\ msg \in QoS2
        /\ \A g \in handlers : g # h => ~(g.msg \in QoS2 \/ g.step # "publish")
    BY <1>5, AtWork
  <2>2. Reaching(msg)
    BY <1>5 DEF Reached
  <2>3. published[msg] >= 1
    BY <1>5, <2>1, <2>2 DEF Reaching
  <2>4. \A m : Reaching(m) => Reaching(m)'
    BY <1>5 DEF Reaching, End
  <2> QED BY <1>1, <1>5, <2>2, <2>3, <2>4 DEF Reached, Answers
<1>6. CASE h.step = "store" /\ Goes(h, "publish") /\ UNCHANGED <<reply, published>>
  <2>1. PICK g \in Handlers : g.msg = h.msg /\ g.step = "publish" /\ handlers' = (handlers \ {h}) \cup {g}
    BY <1>6 DEF Goes
  <2>2. h.msg = msg /\ \A m : Reaching(m) => Reaching(m)'
    BY <1>6, <2>1, AtWork DEF Reaching
  <2>3. Reaching(msg)'
    BY <1>1, <2>1, <2>2 DEF Reaching
  <2> QED BY <1>1, <1>6, <2>2, <2>3 DEF Reached
<1>7. CASE /\ h.step = "publish" /\ published' = [published EXCEPT ![h.msg] = @ + 1] /\ End(h)
           /\ IF h.msg \in QoS2 THEN Answers(h, "pubrec") ELSE reply' = reply
           /\ UNCHANGED stored
  <2>1. published'[h.msg] >= 1 /\ \A m \in Msgs : published'[m] >= published[m]
                                                  /\ published'[m] \in Nat /\ published[m] \in Nat
    BY <1>0, <1>7
  <2>2. \A m \in Msgs : Reaching(m) => Reaching(m)'
    BY <1>7, <2>1, ReachingStays DEF End
  <2>3. completed \subseteq Msgs /\ msg \in Msgs
    BY <1>0, InboundAssumption, AtWork DEF TypeOK, Shape, Msgs
  <2>4. h.msg \in QoS2 => h.msg = msg
    BY <1>7, AtWork
  <2>5. /\ phase = "release" \/ reply = "pubrec" => published'[msg] >= 1
        /\ \A m \in completed : IF m \in QoS2 THEN published'[m] >= 1 ELSE Reaching(m)'
    BY <2>1, <2>2, <2>3 DEF Reached
  <2>6. stored # 0 \/ reply = "puback" => Reaching(msg)'
    <3>1. stored # 0 \/ reply = "puback" => Reaching(msg)
      BY DEF Reached
    <3> QED BY <1>1, <2>2, <2>3, <3>1 DEF Reaching
  <2>7. reply' = reply \/ (reply' = "pubrec" /\ published'[msg] >= 1)
    BY <1>7, <2>1, <2>4 DEF Answers
  <2> QED BY <1>1, <1>7, <2>5, <2>6, <2>7 DEF Reached
<1>9. CASE h.step \in {"get", "del"} /\ End(h) /\ Answers(h, "pubcomp") /\ stored' \in {0, stored} /\ UNCHANGED published
  <2>1. \A m : Reaching(m) => Reaching(m)'
    BY <1>9 DEF Reaching, End
  <2> QED BY <1>1, <1>9, <2>1 DEF Reached, Answers
<1>10. CASE h.step # "publish" /\ End(h) /\ UNCHANGED <<stored, published>> /\ (UNCHANGED <<up, reply>> \/ (up' = FALSE /\ reply' = "none"))
  BY <1>2, <1>10
<1> QED BY <1>0, HandleCases, <1>2, <1>3, <1>4, <1>5, <1>6, <1>7, <1>9, <1>10 DEF Answers

\* Every step keeps what was reached, but for the causes named.
LEMMA NextReached ==
  ASSUME Shape, Alone, Emptied, Reached, [Next]_vars, causes' \cap {"cut", "undeleted"} = {}
  PROVE  Reached'
<1>1. CASE Connect \/ Lose
  BY <1>1, ReachedStays DEF Connect, Lose, client
<1>2. CASE NewMessage
  <2>1. /\ UNCHANGED <<handlers, published, completed, stored, reply>> /\ phase = "idle" /\ phase' = "publish"
    BY <1>2 DEF NewMessage, network
  <2>2. stored = 0 /\ reply = "none"
    BY <2>1 DEF Emptied, Alone, Shape, TypeOK
  <2> QED BY <2>1, <2>2 DEF Reached, Reaching
<1>3. CASE Send
  BY <1>3, ReachedStays DEF Send, network
<1>4. CASE Receive
  <2>1. /\ UNCHANGED <<msg, handlers, published, stored>> /\ reply # "none" /\ reply' = "none"
        /\ IF reply = "pubrec" THEN phase' = "release" /\ completed' = completed
           ELSE phase' = "idle" /\ completed' = completed \cup {msg}
    BY <1>4 DEF Receive
  <2>2. /\ reply = "puback" => msg \notin QoS2 /\ Reaching(msg)
        /\ reply = "pubcomp" => published[msg] >= 1
        /\ reply \in {"puback", "pubrec", "pubcomp"}
    BY <2>1 DEF Reached, Alone, Shape, TypeOK
  <2> QED BY <2>1, <2>2 DEF Reached, Reaching
<1>5. CASE Crash
  <2>1. /\ UNCHANGED <<msg, phase, stored, completed, published>> /\ reply' = "none"
        /\ \A h \in handlers : h.step # "publish"
    BY <1>5 DEF Crash, client
  <2> QED BY <2>1, ReachedStays
<1>6. ASSUME NEW h \in handlers, Handle(h) PROVE Reached'
  BY <1>6, HandleReached
<1>7. CASE UNCHANGED vars
  BY <1>7, ReachedStays DEF vars, client, network
<1> QED BY <1>1, <1>2, <1>3, <1>4, <1>5, <1>6, <1>7 DEF Next

-----------------------------------------------------------------------------
(***************************************************************************)
(* The theorems.  What is known depends on what has gone wrong.            *)
(***************************************************************************)
Known ==
  /\ "overtaken" \notin causes => Alone
  /\ causes \cap {"blind", "overtaken"} = {} => Once
  /\ causes \cap {"undeleted", "overtaken"} = {} => Emptied
  /\ causes \cap {"cut", "undeleted", "overtaken"} = {} => Reached

\* It is known in every state.
LEMMA KnownHolds == Spec => [](Shape /\ Known)
<1>1. Init => Known
  <2>1. Init => Alone
    BY DEF Init, Alone, Main
  <2>2. Init => Once
    BY InboundAssumption DEF Init, Once, Msgs
  <2> QED BY <2>1, <2>2 DEF Init, Emptied, Reached, Known
<1>2. Shape /\ Known /\ [Next]_vars => Known'
  <2> SUFFICES ASSUME Shape, Known, [Next]_vars PROVE Known'
    OBVIOUS
  <2>1. causes \subseteq causes'
    BY CausesGrow DEF Shape
  <2> QED BY <2>1, NextAlone, NextOnce, NextEmptied, NextReached DEF Known
<1> QED BY <1>1, <1>2, Types, PTL DEF Spec

\* For any number of messages and of connections: a QoS 2 message is published
\* once at most, unless the lookup errs, or the client sends on a new
\* connection while a handler of an earlier one is at work (publish.js:55-87).
THEOREM AtMostOnceSafe == Spec => [](TypeOK /\ AtMostOnce)
<1>1. Shape /\ Known => TypeOK /\ AtMostOnce
  BY DEF AtMostOnce, Once, Shape, Known
<1> QED BY <1>1, KnownHolds, PTL

\* For any number of messages and of connections: when the client waits for
\* nothing the store is empty, unless a deletion failed or a packet overtook a
\* handler (publish.js:72, pubrel.js:20-44).
THEOREM StoreEmptiedSafe == Spec => []StoreEmptied
<1>1. Known => StoreEmptied
  BY DEF StoreEmptied, Emptied, Known
<1> QED BY <1>1, KnownHolds, PTL

\* For any number of messages and of connections: a message that the client
\* knows to be acknowledged was published, unless broker.publish() failed or
\* was cut off, a deletion failed, or a packet overtook a handler.
THEOREM AtLeastOnceSafe == Spec => []AtLeastOnce
<1>1. Known => AtLeastOnce
  <2> SUFFICES ASSUME Known, causes \cap {"cut", "undeleted", "overtaken"} = {}, NEW m \in completed
               PROVE  \/ published[m] >= 1
                      \/ m \notin QoS2 /\ \E h \in handlers : h.msg = m /\ h.step = "publish"
    BY DEF AtLeastOnce
  <2> QED BY DEF Reached, Reaching, Known
<1> QED BY <1>1, KnownHolds, PTL

-----------------------------------------------------------------------------
(***************************************************************************)
(* The exchange of a QoS 2 message implements Handover.                    *)
(***************************************************************************)
\* What the steps do that Handover speaks of: a new message, one published, or
\* one completed.
LEMMA ExchangeSteps ==
  ASSUME Shape, [Next]_vars
  PROVE  \/ UNCHANGED <<msg, published, completed>>
         \/ msg' = msg + 1 /\ msg' \in Msgs /\ UNCHANGED <<published, completed>>
         \/ \E m \in 1..msg : /\ m \in Msgs /\ published' = [published EXCEPT ![m] = @ + 1]
                              /\ UNCHANGED <<msg, completed>>
         \/ /\ completed' = completed \cup {msg} /\ msg \in Msgs
            /\ UNCHANGED <<msg, published>>
<1>1. CASE NewMessage
  BY <1>1, InboundAssumption DEF NewMessage, Shape, TypeOK, Msgs
<1>2. CASE Receive
  BY <1>2 DEF Receive, Shape
<1>3. ASSUME NEW h \in handlers, Handle(h)
      PROVE  \/ UNCHANGED <<msg, published, completed>>
             \/ \E m \in 1..msg : /\ m \in Msgs /\ published' = [published EXCEPT ![m] = @ + 1]
                                  /\ UNCHANGED <<msg, completed>>
  <2>1. UNCHANGED <<msg, completed>>
    BY <1>3, HandleCases DEF Shape, client
  <2>2. published' = published \/ published' = [published EXCEPT ![h.msg] = @ + 1]
    BY <1>3, HandleCases DEF Shape
  <2>3. h.msg \in Msgs /\ h.msg \in 1..msg
    BY InboundAssumption DEF Shape, TypeOK, Handlers, Msgs
  <2> QED BY <2>1, <2>2, <2>3
<1>4. CASE Connect \/ Send \/ Lose \/ Crash \/ UNCHANGED vars
  BY <1>4 DEF Connect, Send, Lose, Crash, client, vars
<1> QED BY <1>1, <1>2, <1>3, <1>4 DEF Next

\* Every step is one of Handover or changes nothing there.
LEMMA StepHandsOver ==
  ASSUME Shape, Known, Shape', Known', [Next]_vars
  PROVE  Exchange!Next
<1> DEFINE count == [m \in QoS2 |-> published[m]]
<1>a. causes \subseteq causes'
  BY CausesGrow DEF Shape
<1>b. /\ QoS2 \subseteq Msgs /\ msg \in Nat
      /\ published \in [Msgs -> Nat] /\ completed \subseteq 1..msg
  BY InboundAssumption DEF Shape, TypeOK, Msgs
<1>0. /\ QoS2 \subseteq Msgs /\ msg \in Nat /\ causes \subseteq causes'
      /\ published \in [Msgs -> Nat] /\ completed \subseteq 1..msg
  BY <1>a, <1>b
<1>1. Exchange!Withdraw
  BY <1>0 DEF Exchange!Withdraw
<1>2. CASE UNCHANGED <<msg, published, completed>>
  BY <1>1, <1>2 DEF Exchange!Next
<1>3. CASE msg' = msg + 1 /\ msg' \in Msgs /\ UNCHANGED <<published, completed>>
  <2>1. 1..msg' = 1..msg \cup {msg'} /\ msg' \notin 1..msg
    BY <1>0, <1>3
  <2>2. CASE msg' \in QoS2
    BY <1>1, <1>3, <2>1, <2>2 DEF Exchange!Next, Exchange!Send
  <2>3. CASE msg' \notin QoS2
    BY <1>1, <1>3, <2>1, <2>3 DEF Exchange!Next
  <2> QED BY <2>2, <2>3
<1>4. ASSUME NEW m \in 1..msg, m \in Msgs, published' = [published EXCEPT ![m] = @ + 1],
             UNCHANGED <<msg, completed>>
      PROVE  Exchange!Next
  <2>1. CASE m \in QoS2
    <3>1. count' = [count EXCEPT ![m] = @ + 1]
      BY <1>0, <1>4, <2>1
    <3>2. causes' \cap {"blind", "overtaken"} = {} => published[m] = 0
      BY <1>0, <1>4, <2>1 DEF Known, Once
    <3>3. Exchange!Take(m)
      BY <1>4, <2>1, <3>1, <3>2 DEF Exchange!Take
    <3> QED BY <1>1, <2>1, <3>3 DEF Exchange!Next
  <2>2. CASE m \notin QoS2
    <3>1. count' = count
      BY <1>0, <1>4, <2>2
    <3> QED BY <1>1, <1>4, <3>1 DEF Exchange!Next
  <2> QED BY <2>1, <2>2
<1>5. CASE /\ completed' = completed \cup {msg} /\ msg \in Msgs /\ UNCHANGED <<msg, published>>
  <2>1. CASE msg \in QoS2 /\ msg \notin completed
    <3>1. causes' \cap {"cut", "undeleted", "overtaken"} = {} => published[msg] > 0
      BY <1>0, <1>5, <2>1 DEF Known, Reached
    <3>2. msg \in QoS2 \cap (1..msg)
      BY <1>5, <2>1, InboundAssumption DEF Msgs
    <3>3. Exchange!Settle(msg)
      BY <1>5, <2>1, <3>1, <3>2 DEF Exchange!Settle
    <3> QED BY <1>1, <2>1, <3>3 DEF Exchange!Next
  <2>2. CASE msg \notin QoS2 \/ msg \in completed
    BY <1>1, <1>5, <2>2 DEF Exchange!Next
  <2> QED BY <2>1, <2>2
<1> QED BY ExchangeSteps, <1>2, <1>3, <1>4, <1>5

\* For any number of messages and of connections: each step of the client, the
\* network and the handlers of PUBLISH and PUBREL is a step of Handover or none,
\* so a QoS 2 message is published after it was sent, once, and before the
\* client gives it up, but for the errors that withdraw these promises.
THEOREM HandedOverSafe == Spec => HandedOver
<1>1. Init => Exchange!Init
  <2>1. Init => /\ QoS2 \cap (1..msg) = {} /\ QoS2 \cap completed = {}
                /\ [m \in QoS2 |-> published[m]] = [m \in QoS2 |-> 0]
    BY InboundAssumption DEF Init, Msgs
  <2> QED BY <2>1 DEF Init, Exchange!Init
<1>2. Shape /\ Known /\ Shape' /\ Known' /\ [Next]_vars => [Exchange!Next]_(Exchange!vars)
  BY StepHandsOver
<1> QED BY <1>1, <1>2, KnownHolds, PTL DEF Spec, HandedOver, Exchange!Safe

\* What Handover promises (see below) is, for this exchange, AtMostOnce.
LEMMA PromiseIsAtMostOnce == Exchange!Promise => AtMostOnce
BY DEF Exchange!Promise, AtMostOnce

-----------------------------------------------------------------------------
(***************************************************************************)
(* What Handover comes to, for whatever implements it.                     *)
(***************************************************************************)
CONSTANT Things
VARIABLES out, taken, settled, mayRepeat, mayLose, void

Contract == INSTANCE Handover WITH Msgs <- Things, sent <- out

Counting == ~void => taken \in [Things -> Nat] /\ settled \subseteq Things

\* For any messages, and whatever is withdrawn when: as long as two messages have
\* not the same name, one is taken only after it was sent, once unless that was
\* withdrawn, and is given up only after it was taken, unless that was.
THEOREM PromiseSafe == Contract!Safe => []Contract!Promise
<1> USE DEF Contract!Promise, Counting
<1>1. Contract!Init => Counting /\ Contract!Promise
  BY DEF Contract!Init
<1>2. Counting /\ Contract!Promise /\ [Contract!Next]_(Contract!vars) => Counting' /\ Contract!Promise'
  <2> SUFFICES ASSUME Counting, Contract!Promise, [Contract!Next]_(Contract!vars), ~void'
               PROVE  Counting' /\ Contract!Promise'
    OBVIOUS
  <2>0. /\ ~void /\ mayRepeat \subseteq mayRepeat' /\ mayLose \subseteq mayLose'
        /\ \/ \E m \in Things : Contract!Send(m) \/ Contract!Take(m) \/ Contract!Settle(m)
           \/ UNCHANGED <<out, taken, settled>>
    BY DEF Contract!Next, Contract!Withdraw, Contract!vars
  <2>1. ASSUME NEW m \in Things, Contract!Send(m) PROVE Counting' /\ Contract!Promise'
    BY <2>0, <2>1 DEF Contract!Send
  <2>2. ASSUME NEW m \in Things, Contract!Take(m) PROVE Counting' /\ Contract!Promise'
    BY <2>0, <2>2 DEF Contract!Take
  <2>3. ASSUME NEW m \in Things, Contract!Settle(m) PROVE Counting' /\ Contract!Promise'
    BY <2>0, <2>3 DEF Contract!Settle
  <2>4. CASE UNCHANGED <<out, taken, settled>>
    BY <2>0, <2>4
  <2> QED BY <2>0, <2>1, <2>2, <2>3, <2>4
<1> QED BY <1>1, <1>2, PTL DEF Contract!Safe
=============================================================================

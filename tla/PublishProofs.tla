--------------------------- MODULE PublishProofs ---------------------------
(***************************************************************************)
(* Proofs about Publish for any messages, clients and subscriptions and    *)
(* any concurrency: type correctness, the slots of mqemitter, the order in *)
(* which a client accepts messages, and which ones it may miss.            *)
(***************************************************************************)
EXTENDS Publish, FiniteSetTheorems, SequenceTheorems, TLAPS

-----------------------------------------------------------------------------
\* What a step does.

\* A message gets its number when its publish() is called.
Numbering(m) ==
  \/ UNCHANGED <<counter, number>>
  \/ /\ stage[m] = "new" /\ counter' = counter + 1
     /\ number' = [number EXCEPT ![m] = counter + 1]

\* Client c takes m, if it is not withheld.
Given(m, c) == Offered(m, c) /\ duplicates[c] < number'[m]

\* m is handed to each client, which takes it once at most.
HandsOut(m) ==
  /\ duplicates' \in [Clients -> Nat] /\ got' \in [Clients -> Seq(Msgs)]
  /\ \A c \in Clients :
       /\ duplicates'[c] = IF Given(m, c) THEN number'[m] ELSE duplicates[c]
       /\ \A i \in 1..Len(got[c]) : got'[c][i] = got[c][i]
       /\ IF Given(m, c) /\ <<m, c>> \notin Refused
          THEN Len(got'[c]) = Len(got[c]) + 1 /\ got'[c][Len(got[c]) + 1] = m
          ELSE Len(got'[c]) = Len(got[c])

\* The number of handlers that ask is a number.
LEMMA AsksType == \A m \in Msgs, c \in Clients :
  /\ Asks(m, c) \in Nat
  /\ Matches[m] = {} => Asks(m, c) = 0
<1> TAKE m \in Msgs, c \in Clients
<1> DEFINE A == {h \in Matches[m] : Owner[h] = c /\ <<m, h>> \notin Barred}
<1>1. IsFiniteSet(A)
  <2>1. A \subseteq Handlers /\ IsFiniteSet(Handlers)
    BY PublishAssumption
  <2> QED BY <2>1, FS_Subset
<1>2. Cardinality(A) \in Nat
  BY <1>1, FS_CardinalityType
<1>3. Matches[m] = {} => A = {}
  OBVIOUS
<1> QED BY <1>2, <1>3, FS_EmptySet DEF Asks

\* m once, or not at all, as a sequence.
LEMMA Copies ==
  ASSUME NEW m \in Msgs, NEW k \in {0, 1}
  PROVE  LET s == [i \in 1..k |-> m]
         IN  s \in Seq(Msgs) /\ Len(s) = k /\ \A i \in 1..k : s[i] = m
<1> DEFINE s == [i \in 1..k |-> m]
<1>1. s \in [1..k -> Msgs] /\ k \in Nat
  OBVIOUS
<1>2. s \in Seq(Msgs)
  BY <1>1, SeqDef
<1>3. DOMAIN s = 1..k /\ DOMAIN s = 1..Len(s) /\ Len(s) \in Nat
  BY <1>2, LenProperties
<1>4. Len(s) = k
  BY <1>1, <1>3
<1> QED BY <1>2, <1>4

\* Hand does what HandsOut says: dedupe() takes the second copy for a duplicate.
LEMMA Handed ==
  ASSUME TypeOK, NEW m \in Msgs, number'[m] \in Nat, NEW asks \in [Clients -> Nat],
         \A c \in Clients : asks[c] # 0 <=> Offered(m, c),
         Hand(m, asks, number'[m])
  PROVE  HandsOut(m)
<1>0. duplicates \in [Clients -> Nat] /\ got \in [Clients -> Seq(Msgs)]
  BY DEF TypeOK
<1> DEFINE k(c) == IF Given(m, c) THEN 1 ELSE 0
           s(c) == [i \in 1..k(c) |-> m]
<1>1. /\ duplicates' = [c \in Clients |-> IF k(c) > 0 THEN number'[m] ELSE duplicates[c]]
      /\ got' = [c \in Clients |-> IF <<m, c>> \in Refused THEN got[c] ELSE got[c] \o s(c)]
  <2> DEFINE copies(c) == IF asks[c] = 0 \/ ~Fresh(duplicates[c], number'[m]) THEN 0
                          ELSE IF Fresh(number'[m], number'[m]) THEN asks[c] ELSE 1
  <2>1. \A c \in Clients : copies(c) = k(c)
    BY <1>0 DEF Fresh, Given
  <2>2. /\ duplicates' = [c \in Clients |-> IF copies(c) > 0 THEN number'[m] ELSE duplicates[c]]
        /\ got' = [c \in Clients |-> IF <<m, c>> \in Refused THEN got[c]
                                      ELSE got[c] \o [i \in 1..copies(c) |-> m]]
    BY DEF Hand
  <2> HIDE DEF copies, k
  <2> QED BY <2>1, <2>2
<1>2. ASSUME NEW c \in Clients
      PROVE  /\ got[c] \o s(c) \in Seq(Msgs) /\ Len(got[c] \o s(c)) = Len(got[c]) + k(c)
             /\ Len(got[c]) \in Nat
             /\ \A i \in 1..Len(got[c]) : (got[c] \o s(c))[i] = got[c][i]
             /\ k(c) = 1 => (got[c] \o s(c))[Len(got[c]) + 1] = m
  <2>1. k(c) \in {0, 1} /\ got[c] \in Seq(Msgs)
    BY <1>0
  <2> HIDE DEF k
  <2>2. s(c) \in Seq(Msgs) /\ Len(s(c)) = k(c) /\ \A i \in 1..k(c) : s(c)[i] = m
    <3>1. PICK n \in {0, 1} : n = k(c)
      BY <2>1
    <3> QED BY <3>1, Copies
  <2> HIDE DEF s
  <2>3. /\ got[c] \o s(c) \in Seq(Msgs) /\ Len(got[c] \o s(c)) = Len(got[c]) + k(c)
        /\ \A i \in 1..(Len(got[c]) + k(c)) :
             (got[c] \o s(c))[i] = IF i <= Len(got[c]) THEN got[c][i] ELSE s(c)[i - Len(got[c])]
    <3>1. \A t \in Seq(Msgs), u \in Seq(Msgs) :
            /\ t \o u \in Seq(Msgs) /\ Len(t \o u) = Len(t) + Len(u)
            /\ \A i \in 1..(Len(t) + Len(u)) : (t \o u)[i] = IF i <= Len(t) THEN t[i] ELSE u[i - Len(t)]
      BY ConcatProperties
    <3> QED BY <2>1, <2>2, <3>1
  <2>4. Len(got[c]) \in Nat
    BY <2>1, LenProperties
  <2> QED BY <2>1, <2>2, <2>3, <2>4
<1>3. \A c \in Clients : k(c) > 0 <=> Given(m, c)
  OBVIOUS
<1>4. \A c \in Clients : got'[c] = IF <<m, c>> \in Refused THEN got[c] ELSE got[c] \o s(c)
  BY <1>1
<1>5. \A c \in Clients : duplicates'[c] = IF Given(m, c) THEN number'[m] ELSE duplicates[c]
  BY <1>1, <1>3
<1>6. \A c \in Clients : k(c) = IF Given(m, c) THEN 1 ELSE 0
  OBVIOUS
<1>7. duplicates' \in [Clients -> Nat] /\ got' \in [Clients -> Seq(Msgs)]
  <2> HIDE DEF k, s
  <2> QED BY <1>0, <1>1, <1>2
<1> HIDE DEF k, s
<1>8. ASSUME NEW c \in Clients
      PROVE  /\ \A i \in 1..Len(got[c]) : got'[c][i] = got[c][i]
             /\ IF Given(m, c) /\ <<m, c>> \notin Refused
                THEN Len(got'[c]) = Len(got[c]) + 1 /\ got'[c][Len(got[c]) + 1] = m
                ELSE Len(got'[c]) = Len(got[c])
  <2>1. CASE <<m, c>> \in Refused
    BY <1>4, <2>1
  <2>2. CASE <<m, c>> \notin Refused
    <3>1. got'[c] = got[c] \o s(c)
      BY <1>4, <2>2
    <3>2. CASE Given(m, c)
      BY <1>2, <1>6, <2>2, <3>1, <3>2
    <3>3. CASE ~Given(m, c)
      BY <1>2, <1>6, <3>1, <3>3
    <3> QED BY <3>2, <3>3
  <2> QED BY <2>1, <2>2
<1> QED BY <1>5, <1>7, <1>8 DEF HandsOut

\* The messages that have no slot yet, by the callback they wait for.
Staged ==
  /\ \A m \in Direct : stage[m] \in {"new", "outgoingEnqueue", "done", "failed"}
  /\ \A m \in Msgs : /\ stage[m] = "storeRetained" => m \in Retained
                     /\ stage[m] \in {"subscriptionsByTopic", "outgoingEnqueue"} => m \in Queued
  /\ \A j \in 1..Len(queue) : stage[queue[j]] = "waiting"
  /\ \A i, j \in 1..Len(queue) : queue[i] = queue[j] => i = j

\* m waits for, or has got, an answer that sends it nowhere yet.
Goes(m, s) ==
  /\ stage' = [stage EXCEPT ![m] = s]
  /\ UNCHANGED <<queue, current, todo, duplicates, got>>
  /\ stage[m] \notin {"emitted", "waiting", "done"}
  /\ \/ s \in {"failed", "stuck"}
     \/ s = "storeRetained" /\ m \in Retained \ Direct /\ number'[m] # 0
     \/ s \in {"subscriptionsByTopic", "outgoingEnqueue"} /\ m \in Queued /\ number'[m] # 0
        /\ (m \in Direct => s = "outgoingEnqueue")
     \/ s = "done" /\ stage[m] = "published" /\ m \notin Direct
  /\ m \in Direct => s \in {"failed", "outgoingEnqueue"}
  /\ stage[m] = "published" => s = "done"

\* m goes to mqemitter; a simple message does so in its publish().
Sent(m) ==
  /\ stage[m] \in {"new", "storeRetained", "outgoingEnqueue"} /\ m \notin Direct
  /\ number'[m] # 0
  /\ Simple(m) => stage[m] = "new" /\ number'[m] = counter + 1 /\ counter' = counter + 1

WaitsForSlot(m) ==
  /\ Sent(m) /\ Concurrency > 0 /\ current >= Concurrency
  /\ queue' = Append(queue, m) /\ stage' = [stage EXCEPT ![m] = "waiting"]
  /\ UNCHANGED <<current, todo, duplicates, got>>

Called(m) ==
  /\ Sent(m) /\ (Concurrency > 0 => current < Concurrency)
  /\ HandsOut(m) /\ todo' = todo \cup ({m} \X Matches[m]) /\ queue' = queue
  /\ IF Matches[m] = {}
     THEN stage' = [stage EXCEPT ![m] = "published"] /\ UNCHANGED current
     ELSE stage' = [stage EXCEPT ![m] = "emitted"] /\ current' = current + 1

SentDirect(m) ==
  /\ m \in Direct /\ stage[m] \in {"new", "outgoingEnqueue"} /\ number'[m] # 0
  /\ HandsOut(m) /\ stage' = [stage EXCEPT ![m] = "done"]
  /\ UNCHANGED <<queue, current, todo>>

\* A handler of m calls back, and is not the last one.
PartDone(m) ==
  \E h \in Handlers, x \in Matches[m] :
    /\ x # h /\ <<m, h>> \in todo /\ <<m, x>> \in todo /\ todo' = todo \ {<<m, h>>}
    /\ UNCHANGED <<queue, current, stage, duplicates, got>>

\* The last one does.
AllDone(m) ==
  /\ \E h \in Handlers : /\ <<m, h>> \in todo
                         /\ \A x \in Matches[m] : <<m, x>> \in todo => x = h
  /\ Release(m)

StepOf(m) ==
  \/ PublishMessage(m) \/ StoreRetained(m) \/ SubscriptionsByTopic(m) \/ OutgoingEnqueue(m)
  \/ \E h \in Handlers : HandlerDone(m, h)
  \/ Published(m) \/ ClientPublish(m) \/ ClientEnqueued(m)

\* mq.emit() takes a slot or waits for one.
LEMMA EmitCases ==
  ASSUME TypeOK, NEW m \in Msgs, number'[m] \in Nat, Sent(m), Emit(m, number')
  PROVE  WaitsForSlot(m) \/ Called(m)
<1>0. Concurrency \in Nat /\ current \in Nat
  BY PublishAssumption DEF TypeOK
<1>1. CASE Concurrency > 0 /\ current >= Concurrency
  BY <1>1 DEF Emit, WaitsForSlot
<1>2. CASE ~(Concurrency > 0 /\ current >= Concurrency)
  <2> DEFINE asks == [c \in Clients |-> Asks(m, c)]
  <2>1. Hand(m, asks, number'[m]) /\ todo' = todo \cup ({m} \X Matches[m]) /\ queue' = queue
    BY <1>2 DEF Emit, Call
  <2>2. asks \in [Clients -> Nat] /\ \A c \in Clients : asks[c] # 0 <=> Offered(m, c)
    BY AsksType DEF Offered, Sent
  <2> HIDE DEF asks
  <2>3. HandsOut(m)
    BY <2>1, <2>2, Handed
  <2>4. IF Matches[m] = {}
        THEN stage' = [stage EXCEPT ![m] = "published"] /\ UNCHANGED current
        ELSE stage' = [stage EXCEPT ![m] = "emitted"] /\ current' = current + 1
    BY <1>2 DEF Emit
  <2> QED BY <1>0, <1>2, <2>1, <2>3, <2>4 DEF Called
<1> QED BY <1>1, <1>2

\* client.publish() hands its message to its client.
LEMMA DirectCase ==
  ASSUME TypeOK, NEW m \in Direct, number'[m] \in Nat, HandDirect(m, number'[m])
  PROVE  HandsOut(m)
<1> DEFINE asks == [c \in Clients |-> IF c = Target[m] THEN 1 ELSE 0]
<1>1. Hand(m, asks, number'[m]) /\ m \in Msgs
  BY PublishAssumption DEF HandDirect
<1>2. asks \in [Clients -> Nat] /\ \A c \in Clients : asks[c] # 0 <=> Offered(m, c)
  BY DEF Offered
<1> HIDE DEF asks
<1> QED BY <1>1, <1>2, Handed

\* Each step is of one of these kinds.
LEMMA StepCases ==
  ASSUME TypeOK, Staged, NEW m \in Msgs, StepOf(m),
         stage[m] = "new" \/ stage[m] \in {"failed", "stuck"} \/ number[m] # 0
  PROVE  /\ Numbering(m)
         /\ \/ \E s \in Stages : Goes(m, s)
            \/ WaitsForSlot(m) \/ Called(m) \/ SentDirect(m)
            \/ UNCHANGED <<counter, number>> /\ (PartDone(m) \/ AllDone(m))
<1>0. /\ counter \in Nat /\ number \in [Msgs -> Nat] /\ stage \in [Msgs -> Stages]
      /\ Direct \subseteq Msgs
  BY PublishAssumption DEF TypeOK
<1>n. ASSUME counter' = counter + 1, number' = [number EXCEPT ![m] = counter + 1]
      PROVE  number'[m] = counter + 1 /\ number'[m] \in Nat /\ number'[m] # 0
  BY <1>0, <1>n
<1>w. ASSUME NEW s \in Stages, Waits(m, s)
      PROVE  stage' = [stage EXCEPT ![m] = s] /\ UNCHANGED <<queue, current, todo, duplicates, got>>
  BY <1>w DEF Waits, Goto
<1>1. CASE PublishMessage(m)
  <2>0. stage[m] = "new" /\ m \notin Direct
    BY <1>1 DEF PublishMessage
  <2>1. CASE Waits(m, "failed") /\ UNCHANGED <<counter, number>>
    <3>1. Goes(m, "failed")
      BY <1>w, <2>0, <2>1 DEF Goes, Stages
    <3> QED BY <2>1, <3>1 DEF Numbering, Stages
  <2>2. CASE /\ counter' = counter + 1 /\ number' = [number EXCEPT ![m] = counter + 1]
             /\ IF m \in Retained THEN Waits(m, "storeRetained") ELSE AfterRetain(m, number')
    <3>1. Numbering(m) /\ number'[m] = counter + 1 /\ number'[m] \in Nat /\ number'[m] # 0
      BY <1>n, <2>0, <2>2 DEF Numbering
    <3>2. CASE m \in Retained
      <4>1. Goes(m, "storeRetained")
        BY <1>w, <2>0, <2>2, <3>1, <3>2 DEF Goes, Stages
      <4> QED BY <3>1, <4>1 DEF Stages
    <3>3. CASE m \notin Retained /\ m \in Queued
      <4>1. Goes(m, "subscriptionsByTopic")
        BY <1>w, <2>0, <2>2, <3>1, <3>3 DEF Goes, AfterRetain, Stages
      <4> QED BY <3>1, <4>1 DEF Stages
    <3>4. CASE m \notin Retained /\ m \notin Queued
      <4>1. Emit(m, number')
        BY <2>2, <3>4 DEF AfterRetain
      <4>2. Sent(m)
        BY <2>0, <2>2, <3>1 DEF Sent
      <4> QED BY <3>1, <4>1, <4>2, EmitCases
    <3> QED BY <3>2, <3>3, <3>4
  <2>3. \/ Waits(m, "failed") /\ UNCHANGED <<counter, number>>
        \/ /\ counter' = counter + 1 /\ number' = [number EXCEPT ![m] = counter + 1]
           /\ IF m \in Retained THEN Waits(m, "storeRetained") ELSE AfterRetain(m, number')
    <3>1. ASSUME number' = [number EXCEPT ![m] = counter + 1],
                 AfterRetain(m, [number EXCEPT ![m] = counter + 1])
          PROVE  AfterRetain(m, number')
      BY <3>1
    <3> QED BY <1>1, <3>1 DEF PublishMessage
  <2> QED BY <2>1, <2>2, <2>3
<1>2. CASE StoreRetained(m)
  <2>0. /\ stage[m] = "storeRetained" /\ m \notin Direct /\ m \in Retained
        /\ UNCHANGED <<counter, number>> /\ number'[m] # 0 /\ number'[m] \in Nat /\ Numbering(m)
    BY <1>0, <1>2 DEF StoreRetained, Staged, Numbering
  <2>1. CASE Waits(m, "failed")
    BY <1>w, <2>0, <2>1 DEF Goes, Stages
  <2>2. CASE AfterRetain(m, number) /\ m \in Queued
    <3>1. Goes(m, "subscriptionsByTopic")
      BY <1>w, <2>0, <2>2 DEF Goes, AfterRetain, Stages
    <3> QED BY <2>0, <3>1 DEF Stages
  <2>3. CASE AfterRetain(m, number) /\ m \notin Queued
    <3>1. Emit(m, number') /\ Sent(m)
      BY <2>0, <2>3 DEF AfterRetain, Sent, Simple
    <3> QED BY <2>0, <3>1, EmitCases
  <2> QED BY <1>2, <2>1, <2>2, <2>3 DEF StoreRetained
<1>3. CASE SubscriptionsByTopic(m)
  <2>0. /\ stage[m] = "subscriptionsByTopic" /\ m \notin Direct /\ m \in Queued
        /\ UNCHANGED <<counter, number>> /\ number'[m] # 0 /\ Numbering(m)
    BY <1>0, <1>3 DEF SubscriptionsByTopic, Staged, Numbering
  <2>1. \E s \in {"outgoingEnqueue", "stuck"} : Waits(m, s)
    BY <1>3 DEF SubscriptionsByTopic
  <2> QED BY <1>w, <2>0, <2>1 DEF Goes, Stages
<1>4. CASE OutgoingEnqueue(m)
  <2>0. /\ stage[m] = "outgoingEnqueue" /\ m \notin Direct /\ m \in Queued
        /\ UNCHANGED <<counter, number>> /\ number'[m] # 0 /\ number'[m] \in Nat /\ Numbering(m)
    BY <1>0, <1>4 DEF OutgoingEnqueue, Staged, Numbering
  <2>1. CASE Waits(m, "failed")
    BY <1>w, <2>0, <2>1 DEF Goes, Stages
  <2>2. CASE Emit(m, number)
    <3>1. Emit(m, number') /\ Sent(m)
      BY <2>0, <2>2 DEF Sent, Simple
    <3> QED BY <2>0, <3>1, EmitCases
  <2> QED BY <1>4, <2>1, <2>2 DEF OutgoingEnqueue
<1>5. ASSUME NEW h \in Handlers, HandlerDone(m, h)
      PROVE  Numbering(m) /\ UNCHANGED <<counter, number>> /\ (PartDone(m) \/ AllDone(m))
  <2>1. CASE \E x \in Matches[m] : x # h /\ <<m, x>> \in todo
    <3>1. PICK x \in Matches[m] : x # h /\ <<m, x>> \in todo
      BY <2>1
    <3> QED BY <1>5, <2>1, <3>1 DEF HandlerDone, PartDone, Numbering
  <2>2. CASE \A x \in Matches[m] : <<m, x>> \in todo => x = h
    BY <1>5, <2>2 DEF HandlerDone, AllDone, Numbering
  <2> QED BY <2>1, <2>2
<1>6. CASE Published(m)
  <2>1. stage[m] = "published" /\ m \notin Direct /\ UNCHANGED <<counter, number>> /\ Waits(m, "done")
    BY <1>6 DEF Published, Staged
  <2> QED BY <1>w, <2>1 DEF Goes, Numbering, Stages
<1>7. CASE ClientPublish(m)
  <2>0. /\ stage[m] = "new" /\ m \in Direct /\ UNCHANGED <<queue, current, todo>>
        /\ counter' = counter + 1 /\ number' = [number EXCEPT ![m] = counter + 1]
    BY <1>7 DEF ClientPublish
  <2>1. Numbering(m) /\ number'[m] = counter + 1 /\ number'[m] \in Nat /\ number'[m] # 0
    BY <1>n, <2>0 DEF Numbering
  <2>2. CASE HandDirect(m, counter + 1) /\ Goto(m, "done")
    <3>1. HandDirect(m, number'[m])
      BY <2>1, <2>2
    <3> QED BY <2>0, <2>1, <2>2, <3>1, DirectCase DEF SentDirect, Goto
  <2>3. CASE m \in Queued /\ Goto(m, "outgoingEnqueue") /\ UNCHANGED <<duplicates, got>>
    <3>1. Goes(m, "outgoingEnqueue")
      BY <2>0, <2>1, <2>3 DEF Goes, Goto
    <3> QED BY <2>1, <3>1 DEF Stages
  <2> QED BY <1>7, <2>2, <2>3 DEF ClientPublish
<1>8. CASE ClientEnqueued(m)
  <2>0. /\ stage[m] = "outgoingEnqueue" /\ m \in Direct /\ UNCHANGED <<queue, current, todo>>
        /\ UNCHANGED <<counter, number>> /\ number'[m] # 0 /\ number'[m] \in Nat /\ Numbering(m)
    BY <1>0, <1>8 DEF ClientEnqueued, Numbering
  <2>1. CASE HandDirect(m, number[m]) /\ Goto(m, "done")
    <3>1. HandDirect(m, number'[m])
      BY <2>0, <2>1
    <3> QED BY <2>0, <2>1, <3>1, DirectCase DEF SentDirect, Goto
  <2>2. CASE Goto(m, "failed") /\ UNCHANGED <<duplicates, got>>
    <3>1. Goes(m, "failed")
      BY <2>0, <2>2 DEF Goes, Goto
    <3> QED BY <2>0, <3>1 DEF Stages
  <2> QED BY <1>8, <2>1, <2>2 DEF ClientEnqueued
<1> QED BY <1>1, <1>2, <1>3, <1>4, <1>5, <1>6, <1>7, <1>8 DEF StepOf

\* The slot of m is free: nobody who waits has a handler to call.
Freed(m) ==
  /\ \A x \in Msgs : stage'[x] = IF x = m \/ \E j \in 1..Len(queue) : x = queue[j]
                                 THEN "published" ELSE stage[x]
  /\ stage' \in [Msgs -> Stages]
  /\ current' = current - 1 /\ queue' = <<>> /\ todo' = {y \in todo : y[1] # m}
  /\ UNCHANGED <<duplicates, got>>
  /\ \A j \in 1..Len(queue) : Matches[queue[j]] = {}

\* The slot of m goes to the k-th message that waits.
PassedOn(m, k) ==
  /\ \A x \in Msgs : stage'[x] = IF x = m \/ \E j \in 1..(k - 1) : x = queue[j] THEN "published"
                                 ELSE IF x = queue[k] THEN "emitted" ELSE stage[x]
  /\ stage' \in [Msgs -> Stages]
  /\ queue' \in Seq(Msgs) /\ Len(queue') = Len(queue) - k
  /\ \A i \in 1..(Len(queue) - k) : queue'[i] = queue[k + i]
  /\ todo' = {y \in todo : y[1] # m} \cup ({queue[k]} \X Matches[queue[k]])
  /\ HandsOut(queue[k]) /\ UNCHANGED current
  /\ Matches[queue[k]] # {} /\ \A j \in 1..(k - 1) : Matches[queue[j]] = {}

\* Release does one or the other.
LEMMA ReleaseCases ==
  ASSUME TypeOK, Staged, NEW m \in Msgs, Release(m), UNCHANGED number
  PROVE  Freed(m) \/ \E k \in 1..Len(queue) : PassedOn(m, k)
<1>0. /\ queue \in Seq(Msgs) /\ Len(queue) \in Nat /\ stage \in [Msgs -> Stages]
      /\ \A j \in 1..Len(queue) : queue[j] \in Msgs /\ queue[j] \notin Direct
      /\ number \in [Msgs -> Nat]
  <2>1. queue \in Seq(Msgs) /\ Len(queue) \in Nat /\ \A j \in 1..Len(queue) : queue[j] \in Msgs
    BY LenProperties, ElementOfSeq DEF TypeOK
  <2>2. \A j \in 1..Len(queue) : queue[j] \notin Direct
    BY <2>1 DEF Staged
  <2> QED BY <2>1, <2>2 DEF TypeOK
<1>1. PICK k \in 1..(Len(queue) + 1) :
        LET through == {queue[j] : j \in 1..(k - 1)} IN
        /\ \A x \in through : Matches[x] = {}
        /\ IF k > Len(queue)
           THEN /\ current' = current - 1
                /\ queue' = <<>>
                /\ stage' = [x \in Msgs |-> IF x \in through \cup {m} THEN "published"
                                            ELSE stage[x]]
                /\ todo' = {x \in todo : x[1] # m}
                /\ UNCHANGED <<duplicates, got>>
           ELSE /\ Matches[queue[k]] # {}
                /\ queue' = SubSeq(queue, k + 1, Len(queue))
                /\ stage' = [x \in Msgs |-> IF x \in through \cup {m} THEN "published"
                                            ELSE IF x = queue[k] THEN "emitted" ELSE stage[x]]
                /\ todo' = {x \in todo : x[1] # m} \cup ({queue[k]} \X Matches[queue[k]])
                /\ Hand(queue[k], [c \in Clients |-> Asks(queue[k], c)], number[queue[k]])
                /\ UNCHANGED current
  BY DEF Release
<1> DEFINE through == {queue[j] : j \in 1..(k - 1)}
<1>2. \A x : x \in through <=> \E j \in 1..(k - 1) : x = queue[j]
  OBVIOUS
<1>3. CASE k > Len(queue)
  <2>1. k - 1 = Len(queue)
    BY <1>0, <1>3
  <2>2. /\ stage' = [x \in Msgs |-> IF x \in through \cup {m} THEN "published" ELSE stage[x]]
        /\ current' = current - 1 /\ queue' = <<>> /\ todo' = {y \in todo : y[1] # m}
        /\ UNCHANGED <<duplicates, got>> /\ \A x \in through : Matches[x] = {}
    BY <1>1, <1>3
  <2> HIDE DEF through
  <2>3. stage' \in [Msgs -> Stages]
    BY <1>0, <2>2 DEF Stages
  <2> QED BY <1>2, <2>1, <2>2, <2>3 DEF Freed
<1>4. CASE k <= Len(queue)
  <2>1. /\ stage' = [x \in Msgs |-> IF x \in through \cup {m} THEN "published"
                                    ELSE IF x = queue[k] THEN "emitted" ELSE stage[x]]
        /\ queue' = SubSeq(queue, k + 1, Len(queue))
        /\ todo' = {y \in todo : y[1] # m} \cup ({queue[k]} \X Matches[queue[k]])
        /\ Hand(queue[k], [c \in Clients |-> Asks(queue[k], c)], number[queue[k]])
        /\ UNCHANGED current /\ Matches[queue[k]] # {} /\ \A x \in through : Matches[x] = {}
    <3>1. ~(k > Len(queue))
      BY <1>0, <1>4
    <3> QED BY <1>1, <3>1
  <2> HIDE DEF through
  <2>2. stage' \in [Msgs -> Stages]
    BY <1>0, <2>1 DEF Stages
  <2>3. /\ queue' \in Seq(Msgs) /\ Len(queue') = Len(queue) - k
        /\ \A i \in 1..(Len(queue) - k) : queue'[i] = queue[k + i]
    <3>1. \A i \in (k + 1)..Len(queue) : queue[i] \in Msgs
      BY <1>0
    <3>2. /\ SubSeq(queue, k + 1, Len(queue)) \in Seq(Msgs)
          /\ Len(SubSeq(queue, k + 1, Len(queue)))
               = IF k + 1 <= Len(queue) THEN Len(queue) - (k + 1) + 1 ELSE 0
          /\ \A i \in 1..(Len(queue) - (k + 1) + 1) :
               SubSeq(queue, k + 1, Len(queue))[i] = queue[k + 1 + i - 1]
      <4>1. k + 1 \in Int /\ Len(queue) \in Int
        BY <1>0
      <4> QED BY <3>1, <4>1, SubSeqProperties
    <3> QED BY <1>0, <1>4, <2>1, <3>2
  <2>4. HandsOut(queue[k])
    <3>1. PICK q \in Msgs : q = queue[k]
      BY <1>0, <1>4
    <3>2. q \notin Direct
      BY <1>0, <1>4, <3>1
    <3> DEFINE asks == [c \in Clients |-> Asks(q, c)]
    <3>3. Hand(q, asks, number'[q]) /\ number'[q] \in Nat
      BY <1>0, <2>1, <3>1
    <3>4. asks \in [Clients -> Nat] /\ \A c \in Clients : asks[c] # 0 <=> Offered(q, c)
      BY <3>2, AsksType DEF Offered
    <3> HIDE DEF asks
    <3>5. HandsOut(q)
      BY <3>3, <3>4, Handed
    <3> QED BY <3>1, <3>5
  <2>5. \A x \in Msgs : stage'[x] = IF x = m \/ \E j \in 1..(k - 1) : x = queue[j] THEN "published"
                                 ELSE IF x = queue[k] THEN "emitted" ELSE stage[x]
    BY <1>2, <2>1
  <2>6. \A j \in 1..(k - 1) : Matches[queue[j]] = {}
    BY <1>2, <2>1
  <2>7. PassedOn(m, k)
    BY <2>1, <2>2, <2>3, <2>4, <2>5, <2>6 DEF PassedOn
  <2>8. k \in 1..Len(queue)
    BY <1>0, <1>4
  <2> QED BY <2>7, <2>8
<1> QED BY <1>0, <1>3, <1>4

-----------------------------------------------------------------------------
(***************************************************************************)
(* Types, numbers and slots.  Each number is given once.  A message that   *)
(* has handlers to wait for holds a slot; the others hold none.            *)
(***************************************************************************)
Numbered ==
  /\ \A m \in Msgs : number[m] <= counter
  /\ \A m, x \in Msgs : number[m] # 0 /\ number[m] = number[x] => m = x
  /\ \A m \in Msgs : /\ stage[m] = "new" => number[m] = 0
                     /\ stage[m] \notin {"new", "failed", "stuck"} => number[m] # 0

Slots ==
  /\ \A y \in todo : y[2] \in Matches[y[1]]
  /\ SlotsAccounted

Basic == TypeOK /\ Staged /\ Numbered /\ Slots

\* The messages that hold a slot.
Holders == {m \in Msgs : stage[m] = "emitted"}

\* The facts that most steps need.
LEMMA Facts ==
  ASSUME Basic
  PROVE  /\ counter \in Nat /\ number \in [Msgs -> Nat] /\ stage \in [Msgs -> Stages]
         /\ queue \in Seq(Msgs) /\ Len(queue) \in Nat /\ current \in Nat
         /\ \A j \in 1..Len(queue) : /\ queue[j] \in Msgs /\ queue[j] \notin Direct
                                     /\ stage[queue[j]] = "waiting"
         /\ duplicates \in [Clients -> Nat] /\ got \in [Clients -> Seq(Msgs)]
         /\ \A c \in Clients : Len(got[c]) \in Nat /\ \A i \in 1..Len(got[c]) : got[c][i] \in Msgs
         /\ IsFiniteSet(Holders) /\ current = Cardinality(Holders)
         /\ todo \subseteq Msgs \X Handlers
         /\ \A m \in Msgs : stage[m] = "emitted" <=> \E h \in Handlers : <<m, h>> \in todo
         /\ \A m \in Msgs : Matches[m] \subseteq Handlers
         /\ Direct \subseteq Msgs /\ Concurrency \in Nat
<1>1. queue \in Seq(Msgs) /\ Len(queue) \in Nat /\ \A j \in 1..Len(queue) : queue[j] \in Msgs
  BY LenProperties, ElementOfSeq DEF Basic, TypeOK
<1>2. \A j \in 1..Len(queue) : stage[queue[j]] = "waiting" /\ queue[j] \notin Direct
  BY <1>1 DEF Basic, Staged
<1>3. \A c \in Clients : Len(got[c]) \in Nat /\ \A i \in 1..Len(got[c]) : got[c][i] \in Msgs
  <2>1. ASSUME NEW c \in Clients PROVE got[c] \in Seq(Msgs)
    BY DEF Basic, TypeOK
  <2> QED BY <2>1, LenProperties, ElementOfSeq
<1>4. IsFiniteSet(Holders)
  BY FS_Subset, PublishAssumption DEF Holders
<1> QED BY <1>1, <1>2, <1>3, <1>4, PublishAssumption DEF Basic, TypeOK, Slots, SlotsAccounted, Holders

\* Only the number of m changes, and no number is given twice.
LEMMA NumberedStays ==
  ASSUME Basic, NEW m \in Msgs, Numbering(m), stage' \in [Msgs -> Stages],
         \A x \in Msgs \ {m} : \/ stage'[x] = stage[x]
                               \/ stage[x] = "waiting" /\ stage'[x] \in {"emitted", "published"},
         stage'[m] # "new", stage'[m] \in {"failed", "stuck"} \/ number'[m] # 0
  PROVE  Numbered' /\ counter' \in Nat /\ number' \in [Msgs -> Nat]
<1>0. counter \in Nat /\ number \in [Msgs -> Nat] /\ stage \in [Msgs -> Stages] /\ Numbered
  BY Facts DEF Basic
<1>1. \A x \in Msgs \ {m} : number'[x] = number[x]
  BY <1>0 DEF Numbering
<1>2. /\ counter' \in Nat /\ number' \in [Msgs -> Nat]
      /\ \A x \in Msgs : number'[x] <= counter'
      /\ \A x, y \in Msgs : number'[x] # 0 /\ number'[x] = number'[y] => x = y
  <2>1. CASE UNCHANGED <<counter, number>>
    BY <1>0, <2>1 DEF Numbered
  <2>2. CASE counter' = counter + 1 /\ number' = [number EXCEPT ![m] = counter + 1]
    <3>1. /\ number' \in [Msgs -> Nat] /\ number'[m] = counter + 1
          /\ \A x \in Msgs \ {m} : number'[x] <= counter
      BY <1>0, <2>2 DEF Numbered
    <3> QED BY <1>0, <1>1, <2>2, <3>1 DEF Numbered
  <2> QED BY <2>1, <2>2 DEF Numbering
<1>3. ASSUME NEW x \in Msgs
      PROVE  /\ stage'[x] = "new" => number'[x] = 0
             /\ stage'[x] \notin {"new", "failed", "stuck"} => number'[x] # 0
  BY <1>0, <1>1, <1>3 DEF Numbered
<1> QED BY <1>2, <1>3 DEF Numbered

\* A message goes on to wait for something else than a slot.
LEMMA GoesBasic ==
  ASSUME Basic, NEW m \in Msgs, NEW s \in Stages, Numbering(m), Goes(m, s)
  PROVE  Basic'
<1>0. /\ stage' = [stage EXCEPT ![m] = s] /\ UNCHANGED <<queue, current, todo, duplicates, got>>
      /\ stage \in [Msgs -> Stages] /\ s \notin {"new", "emitted", "waiting"}
      /\ stage[m] \notin {"emitted", "waiting", "done"}
  BY Facts DEF Goes
<1>1. stage' \in [Msgs -> Stages] /\ stage'[m] = s /\ \A x \in Msgs \ {m} : stage'[x] = stage[x]
  BY <1>0
<1>2. s \in {"failed", "stuck"} \/ number'[m] # 0
  BY Facts DEF Goes, Basic, Numbered, Numbering
<1>3. Numbered' /\ counter' \in Nat /\ number' \in [Msgs -> Nat]
  BY <1>0, <1>1, <1>2, NumberedStays
<1>4. Staged'
  <2>1. \A j \in 1..Len(queue) : queue[j] \in Msgs /\ queue[j] # m
    BY <1>0, Facts
  <2>2. /\ m \in Direct => s \in {"failed", "outgoingEnqueue"}
        /\ s = "storeRetained" => m \in Retained
        /\ s \in {"subscriptionsByTopic", "outgoingEnqueue"} => m \in Queued
    BY DEF Goes
  <2> QED BY <1>0, <1>1, <2>1, <2>2, Facts DEF Basic, Staged
<1>5. Slots'
  <2>1. Holders' = Holders
    BY <1>0, <1>1 DEF Holders
  <2> QED BY <1>0, <1>1, <2>1 DEF Basic, Slots, SlotsAccounted, Holders
<1> QED BY <1>0, <1>1, <1>3, <1>4, <1>5 DEF Basic, TypeOK

\* A message waits for a slot.
LEMMA WaitsBasic ==
  ASSUME Basic, NEW m \in Msgs, Numbering(m), WaitsForSlot(m)
  PROVE  Basic'
<1>0. /\ stage' = [stage EXCEPT ![m] = "waiting"] /\ queue' = Append(queue, m)
      /\ UNCHANGED <<current, todo, duplicates, got>> /\ stage \in [Msgs -> Stages]
      /\ stage[m] \in {"new", "storeRetained", "outgoingEnqueue"} /\ m \notin Direct
      /\ number'[m] # 0 /\ Concurrency > 0 /\ current >= Concurrency
  BY Facts DEF WaitsForSlot, Sent
<1>1. /\ stage' \in [Msgs -> Stages] /\ stage'[m] = "waiting"
      /\ \A x \in Msgs \ {m} : stage'[x] = stage[x]
  BY <1>0 DEF Stages
<1>2. Numbered' /\ counter' \in Nat /\ number' \in [Msgs -> Nat]
  BY <1>0, <1>1, NumberedStays
<1>3. /\ queue' \in Seq(Msgs) /\ Len(queue') = Len(queue) + 1 /\ queue'[Len(queue) + 1] = m
      /\ \A i \in 1..Len(queue) : queue'[i] = queue[i]
  BY <1>0, Facts, AppendProperties
<1>4. Staged'
  <2>1. \A j \in 1..Len(queue) : queue[j] \in Msgs /\ queue[j] # m /\ stage[queue[j]] = "waiting"
    BY <1>0, Facts
  <2>2. /\ \A j \in 1..Len(queue') : stage'[queue'[j]] = "waiting"
        /\ \A i, j \in 1..Len(queue') : queue'[i] = queue'[j] => i = j
    <3>1. \A j \in 1..Len(queue') : j \in 1..Len(queue) \/ j = Len(queue) + 1
      BY <1>3, Facts
    <3> QED BY <1>1, <1>3, <2>1, <3>1 DEF Basic, Staged
  <2>3. /\ \A x \in Direct : stage'[x] = stage[x]
        /\ \A x \in Msgs : stage'[x] \in {"storeRetained", "subscriptionsByTopic", "outgoingEnqueue"}
                           => stage'[x] = stage[x]
    BY <1>0, <1>1, Facts
  <2> QED BY <2>2, <2>3 DEF Basic, Staged
<1>5. Slots'
  <2>1. Holders' = Holders
    BY <1>0, <1>1 DEF Holders
  <2>2. current' = Cardinality(Holders') /\ current' = Concurrency
    <3>1. current <= Concurrency
      BY <1>0 DEF Basic, Slots, SlotsAccounted
    <3>2. current \in Nat /\ Concurrency \in Nat /\ current = Cardinality(Holders)
      BY Facts
    <3> QED BY <1>0, <2>1, <3>1, <3>2
  <2>3. \A x \in Msgs : stage'[x] = "emitted" <=> \E h \in Handlers : <<x, h>> \in todo'
    BY <1>0, <1>1, Facts
  <2> QED BY <1>0, <2>2, <2>3 DEF Basic, Slots, SlotsAccounted, Holders
<1> QED BY <1>0, <1>1, <1>2, <1>3, <1>4, <1>5 DEF Basic, TypeOK

\* A message is emitted at once: a slot is free, so nobody waits for one.
LEMMA CalledBasic ==
  ASSUME Basic, NEW m \in Msgs, Numbering(m), Called(m)
  PROVE  Basic'
<1> DEFINE s == IF Matches[m] = {} THEN "published" ELSE "emitted"
<1>0. /\ stage' = [stage EXCEPT ![m] = s] /\ UNCHANGED queue /\ HandsOut(m)
      /\ todo' = todo \cup ({m} \X Matches[m]) /\ stage \in [Msgs -> Stages]
      /\ stage[m] \in {"new", "storeRetained", "outgoingEnqueue"} /\ m \notin Direct
      /\ current' = IF Matches[m] = {} THEN current ELSE current + 1
      /\ number'[m] # 0 /\ (Concurrency > 0 => current < Concurrency)
  BY Facts DEF Called, Sent
<1>1. /\ stage' \in [Msgs -> Stages] /\ stage'[m] = s /\ s \in {"published", "emitted"}
      /\ \A x \in Msgs \ {m} : stage'[x] = stage[x]
  BY <1>0 DEF Stages
<1>2. Numbered' /\ counter' \in Nat /\ number' \in [Msgs -> Nat]
  <2> HIDE DEF s
  <2> QED BY <1>0, <1>1, NumberedStays
<1>3. Staged'
  <2>1. \A j \in 1..Len(queue) : queue[j] \in Msgs /\ queue[j] # m /\ stage[queue[j]] = "waiting"
    BY <1>0, Facts
  <2>2. /\ \A x \in Direct : stage'[x] = stage[x]
        /\ \A x \in Msgs : stage'[x] \in {"storeRetained", "subscriptionsByTopic", "outgoingEnqueue"}
                           => stage'[x] = stage[x]
    <3> HIDE DEF s
    <3> QED BY <1>0, <1>1, Facts
  <2>3. \A j \in 1..Len(queue') : stage'[queue'[j]] = "waiting"
    BY <1>0, <1>1, <2>1
  <2> QED BY <1>0, <2>2, <2>3 DEF Basic, Staged
<1>4. Slots'
  <2>1. \A y \in todo' : y[2] \in Matches[y[1]]
    BY <1>0 DEF Basic, Slots
  <2>2. \A x \in Msgs : stage'[x] = "emitted" <=> \E h \in Handlers : <<x, h>> \in todo'
    <3>1. \A x \in Msgs \ {m} : \A h : <<x, h>> \in todo' <=> <<x, h>> \in todo
      BY <1>0
    <3>2. \A h : <<m, h>> \in todo' <=> h \in Matches[m]
      <4>1. \A h \in Handlers : <<m, h>> \notin todo
        <5>1. stage[m] = "emitted" <=> \E h \in Handlers : <<m, h>> \in todo
          BY Facts
        <5> QED BY <1>0, <5>1
      <4>2. todo \subseteq Msgs \X Handlers /\ todo' = todo \cup ({m} \X Matches[m])
        BY <1>0, Facts
      <4>3. \A h : <<m, h>> \notin todo
        BY <4>1, <4>2
      <4> HIDE DEF s
      <4> QED BY <4>2, <4>3
    <3>3. stage'[m] = "emitted" <=> \E h \in Handlers : <<m, h>> \in todo'
      BY <1>1, <3>2, Facts
    <3> QED BY <1>1, <3>1, <3>3, Facts
  <2>3. current' = Cardinality(Holders') /\ current' \in Nat
    <3>1. CASE Matches[m] = {}
      <4>1. Holders' = Holders
        BY <1>0, <1>1, <3>1 DEF Holders
      <4> QED BY <1>0, <3>1, <4>1, Facts
    <3>2. CASE Matches[m] # {}
      <4>1. Holders' = Holders \cup {m} /\ m \notin Holders
        BY <1>0, <1>1, <3>2 DEF Holders
      <4>2. Cardinality(Holders \cup {m}) = Cardinality(Holders) + 1
        BY <4>1, Facts, FS_AddElement
      <4> QED BY <1>0, <3>2, <4>1, <4>2, Facts
    <3> QED BY <3>1, <3>2
  <2>4. /\ queue' # <<>> => Concurrency > 0 /\ current' = Concurrency
        /\ Concurrency > 0 => current' <= Concurrency
    <3>1. current \in Nat /\ Concurrency \in Nat
      BY Facts
    <3>2. queue = <<>>
      BY <1>0, <3>1 DEF Basic, Slots, SlotsAccounted
    <3> QED BY <1>0, <3>1, <3>2
  <2> QED BY <2>1, <2>2, <2>3, <2>4 DEF Slots, SlotsAccounted, Holders
<1>5. todo' \subseteq Msgs \X Handlers
  BY <1>0, Facts
<1>6. current' \in Nat
  BY <1>0, Facts
<1> QED BY <1>0, <1>1, <1>2, <1>3, <1>4, <1>5, <1>6, Facts DEF Basic, TypeOK, HandsOut

\* A message of client.publish() is handed to its client.
LEMMA DirectBasic ==
  ASSUME Basic, NEW m \in Msgs, Numbering(m), SentDirect(m)
  PROVE  Basic'
<1>0. /\ stage' = [stage EXCEPT ![m] = "done"] /\ UNCHANGED <<queue, current, todo>> /\ HandsOut(m)
      /\ stage \in [Msgs -> Stages] /\ stage[m] \in {"new", "outgoingEnqueue"} /\ m \in Direct
      /\ number'[m] # 0
  BY Facts DEF SentDirect
<1>1. /\ stage' \in [Msgs -> Stages] /\ stage'[m] = "done"
      /\ \A x \in Msgs \ {m} : stage'[x] = stage[x]
  BY <1>0 DEF Stages
<1>2. Numbered' /\ counter' \in Nat /\ number' \in [Msgs -> Nat]
  BY <1>0, <1>1, NumberedStays
<1>3. Staged'
  <2>1. \A j \in 1..Len(queue) : queue[j] \in Msgs /\ queue[j] # m
    BY <1>0, Facts
  <2> QED BY <1>0, <1>1, <2>1, Facts DEF Basic, Staged
<1>4. Slots'
  <2>1. Holders' = Holders
    BY <1>0, <1>1 DEF Holders
  <2> QED BY <1>0, <1>1, <2>1 DEF Basic, Slots, SlotsAccounted, Holders
<1> QED BY <1>0, <1>1, <1>2, <1>3, <1>4 DEF Basic, TypeOK, HandsOut

\* A handler calls back that is not the last one of its message.
LEMMA PartBasic ==
  ASSUME Basic, NEW m \in Msgs, UNCHANGED <<counter, number>>, PartDone(m)
  PROVE  Basic'
<1>1. PICK h \in Handlers, z \in Matches[m] :
        /\ z # h /\ <<m, h>> \in todo /\ <<m, z>> \in todo /\ todo' = todo \ {<<m, h>>}
        /\ UNCHANGED <<queue, current, stage, duplicates, got>>
  BY DEF PartDone
<1>2. \A x \in Msgs : (\E g \in Handlers : <<x, g>> \in todo') <=> (\E g \in Handlers : <<x, g>> \in todo)
  <2>1. \A x, g : <<x, g>> # <<m, h>> => (<<x, g>> \in todo' <=> <<x, g>> \in todo)
    BY <1>1
  <2>2. <<m, z>> \in todo' /\ z \in Handlers
    BY <1>1, Facts
  <2> QED BY <1>1, <2>1, <2>2
<1>3. Holders' = Holders
  BY <1>1 DEF Holders
<1>4. Slots'
  BY <1>1, <1>2, <1>3 DEF Basic, Slots, SlotsAccounted, Holders
<1>5. Numbered' /\ Staged' /\ TypeOK'
  BY <1>1 DEF Basic, Numbered, Staged, TypeOK
<1> QED BY <1>4, <1>5 DEF Basic

\* The messages but m have the handlers they had.
LEMMA TodoOthers ==
  ASSUME Basic, NEW m \in Msgs, NEW q \in Msgs, NEW A, q # m,
         todo' = {y \in todo : y[1] # m} \cup ({q} \X A)
  PROVE  /\ \A h : <<m, h>> \notin todo'
         /\ \A x \in Msgs \ {m, q} : \A h : <<x, h>> \in todo' <=> <<x, h>> \in todo
         /\ \A h : <<q, h>> \in todo' <=> <<q, h>> \in todo \/ h \in A
<1>1. ASSUME NEW x, NEW h PROVE <<x, h>> \in {q} \X A <=> x = q /\ h \in A
  OBVIOUS
<1>2. ASSUME NEW x, NEW h PROVE <<x, h>> \in {y \in todo : y[1] # m} <=> <<x, h>> \in todo /\ x # m
  OBVIOUS
<1>3. \A x, h : <<x, h>> \in todo' <=> (<<x, h>> \in todo /\ x # m) \/ (x = q /\ h \in A)
  BY <1>1, <1>2
<1>4. ASSUME NEW h PROVE <<m, h>> \notin todo'
  BY <1>3
<1>5. ASSUME NEW x \in Msgs \ {m, q}, NEW h PROVE <<x, h>> \in todo' <=> <<x, h>> \in todo
  BY <1>3
<1>6. ASSUME NEW h PROVE <<q, h>> \in todo' <=> <<q, h>> \in todo \/ h \in A
  BY <1>3
<1> QED BY <1>4, <1>5, <1>6

\* The last handler of m calls back and its slot is free.
LEMMA FreedBasic ==
  ASSUME Basic, NEW m \in Msgs, UNCHANGED <<counter, number>>, stage[m] = "emitted", Freed(m)
  PROVE  Basic'
<1>0. /\ stage' \in [Msgs -> Stages] /\ queue' = <<>> /\ current' = current - 1
      /\ todo' = {y \in todo : y[1] # m} /\ UNCHANGED <<duplicates, got>>
      /\ \A x \in Msgs : stage'[x] = IF x = m \/ \E j \in 1..Len(queue) : x = queue[j]
                                     THEN "published" ELSE stage[x]
  BY DEF Freed
<1>1. /\ stage'[m] = "published"
      /\ \A x \in Msgs \ {m} : stage'[x] = stage[x] \/ (stage[x] = "waiting" /\ stage'[x] = "published")
  <2>1. \A j \in 1..Len(queue) : stage[queue[j]] = "waiting"
    BY Facts
  <2> QED BY <1>0, <2>1
<1>2. Numbered' /\ counter' \in Nat /\ number' \in [Msgs -> Nat]
  <2>1. number'[m] # 0 /\ Numbering(m)
    BY DEF Basic, Numbered, Numbering
  <2> QED BY <1>0, <1>1, <2>1, NumberedStays
<1>3. Staged'
  <2>1. \A x \in Direct : x \in Msgs /\ x # m /\ stage'[x] = stage[x]
    BY <1>1, Facts DEF Basic, Staged
  <2>2. Len(queue') = 0
    BY <1>0
  <2>3. \A x \in Msgs : stage'[x] \in {"storeRetained", "subscriptionsByTopic", "outgoingEnqueue"}
                        => stage'[x] = stage[x]
    BY <1>1
  <2> QED BY <2>1, <2>2, <2>3 DEF Basic, Staged
<1>4. Holders' = Holders \ {m} /\ m \in Holders
  BY <1>1 DEF Holders
<1>5. current' = Cardinality(Holders') /\ current' \in Nat
  <2>1. Cardinality(Holders \ {m}) = Cardinality(Holders) - 1 /\ IsFiniteSet(Holders \ {m})
    BY <1>4, Facts, FS_RemoveElement
  <2>2. Cardinality(Holders \ {m}) \in Nat
    BY <2>1, FS_CardinalityType
  <2> QED BY <1>0, <1>4, <2>1, <2>2, Facts
<1>6. Slots'
  <2>1. \A x \in Msgs : stage'[x] = "emitted" <=> \E h \in Handlers : <<x, h>> \in todo'
    <3>1. \A x \in Msgs \ {m} : \A h : <<x, h>> \in todo' <=> <<x, h>> \in todo
      BY <1>0
    <3>2. \A h : <<m, h>> \notin todo'
      BY <1>0
    <3> QED BY <1>1, <3>1, <3>2, Facts
  <2>2. Concurrency > 0 => current' <= Concurrency
    <3>1. current \in Nat /\ Concurrency \in Nat
      BY Facts
    <3> QED BY <1>0, <3>1 DEF Basic, Slots, SlotsAccounted
  <2>3. \A y \in todo' : y[2] \in Matches[y[1]]
    BY <1>0 DEF Basic, Slots
  <2> QED BY <1>0, <1>5, <2>1, <2>2, <2>3 DEF Slots, SlotsAccounted, Holders
<1>7. TypeOK'
  <2>1. todo' \subseteq Msgs \X Handlers /\ queue' \in Seq(Msgs)
    BY <1>0, Facts
  <2> QED BY <1>0, <1>2, <1>5, <2>1 DEF Basic, TypeOK
<1> QED BY <1>2, <1>3, <1>6, <1>7 DEF Basic

\* The last handler of m calls back and the k-th message that waits is emitted.
LEMMA PassedBasic ==
  ASSUME Basic, NEW m \in Msgs, UNCHANGED <<counter, number>>, stage[m] = "emitted",
         NEW k \in 1..Len(queue), PassedOn(m, k)
  PROVE  Basic'
<1>a. PICK q \in Msgs : q = queue[k] /\ q \notin Direct /\ stage[q] = "waiting" /\ q # m
  BY Facts
<1>0. /\ stage' \in [Msgs -> Stages] /\ UNCHANGED current /\ HandsOut(q) /\ Matches[q] # {}
      /\ queue' \in Seq(Msgs) /\ Len(queue') = Len(queue) - k
      /\ \A i \in 1..(Len(queue) - k) : queue'[i] = queue[k + i]
      /\ todo' = {y \in todo : y[1] # m} \cup ({q} \X Matches[q])
      /\ \A x \in Msgs : stage'[x] = IF x = m \/ \E j \in 1..(k - 1) : x = queue[j] THEN "published"
                                     ELSE IF x = q THEN "emitted" ELSE stage[x]
      /\ Len(queue) \in Nat
  <2>1. /\ stage \in [Msgs -> Stages] /\ queue \in Seq(Msgs) /\ Len(queue) \in Nat
        /\ \A j \in 1..Len(queue) : queue[j] \in Msgs
    BY Facts
  <2> QED BY <1>a, <2>1 DEF PassedOn
<1>1. /\ stage'[m] = "published" /\ stage'[q] = "emitted"
      /\ \A x \in Msgs \ {m, q} : stage'[x] = stage[x] \/ (stage[x] = "waiting" /\ stage'[x] = "published")
  <2>1. stage'[q] = "emitted"
    <3>1. \A j \in 1..(k - 1) : queue[j] # q
      BY <1>0, <1>a DEF Basic, Staged
    <3> QED BY <1>0, <1>a, <3>1
  <2>2. \A j \in 1..(k - 1) : stage[queue[j]] = "waiting"
    BY <1>0, Facts
  <2>3. ASSUME NEW x \in Msgs \ {m, q}
        PROVE  stage'[x] = stage[x] \/ (stage[x] = "waiting" /\ stage'[x] = "published")
    <3>1. CASE \E j \in 1..(k - 1) : x = queue[j]
      BY <1>0, <2>2, <3>1
    <3>2. CASE ~\E j \in 1..(k - 1) : x = queue[j]
      BY <1>0, <3>2
    <3> QED BY <3>1, <3>2
  <2>4. stage'[m] = "published"
    BY <1>0
  <2> QED BY <2>1, <2>3, <2>4
<1>2. Numbered' /\ counter' \in Nat /\ number' \in [Msgs -> Nat]
  <2>1. number'[m] # 0 /\ Numbering(m)
    BY DEF Basic, Numbered, Numbering
  <2>2. \A x \in Msgs \ {m} : \/ stage'[x] = stage[x]
                              \/ stage[x] = "waiting" /\ stage'[x] \in {"emitted", "published"}
    BY <1>1, <1>a
  <2> QED BY <1>0, <1>1, <2>1, <2>2, NumberedStays
<1>3. Staged'
  <2>1. \A x \in Direct : x \in Msgs /\ x # m /\ x # q /\ stage'[x] = stage[x]
    BY <1>1, <1>a, Facts DEF Basic, Staged
  <2>2. \A x \in Msgs : stage'[x] \in {"storeRetained", "subscriptionsByTopic", "outgoingEnqueue"}
                        => stage'[x] = stage[x]
    BY <1>1
  <2>3. ASSUME NEW i \in 1..Len(queue'), NEW j \in 1..Len(queue')
        PROVE  /\ queue'[i] = queue[k + i] /\ k + i \in 1..Len(queue)
               /\ queue'[j] = queue[k + j] /\ k + j \in 1..Len(queue)
    BY <1>0
  <2>4. \A i, j \in 1..Len(queue') : queue'[i] = queue'[j] => i = j
    <3> SUFFICES ASSUME NEW i \in 1..Len(queue'), NEW j \in 1..Len(queue'), queue'[i] = queue'[j]
                 PROVE  i = j
      OBVIOUS
    <3>1. k + i = k + j
      BY <2>3 DEF Basic, Staged
    <3> QED BY <1>0, <3>1
  <2>5. ASSUME NEW j \in 1..Len(queue') PROVE stage'[queue'[j]] = "waiting"
    <3>1. queue'[j] = queue[k + j] /\ k + j \in 1..Len(queue)
      BY <2>3
    <3>2. PICK x \in Msgs : x = queue[k + j] /\ stage[x] = "waiting"
      BY <3>1, Facts
    <3>3. x # q /\ \A i \in 1..(k - 1) : x # queue[i]
      <4>1. \A i \in 1..k : i # k + j /\ i \in 1..Len(queue)
        BY <1>0
      <4>2. \A i \in 1..k : queue[i] # queue[k + j]
        BY <3>1, <4>1 DEF Basic, Staged
      <4>3. k \in 1..k /\ \A i \in 1..(k - 1) : i \in 1..k
        BY <1>0
      <4> QED BY <1>a, <3>2, <4>2, <4>3
    <3>4. stage'[x] = stage[x]
      BY <1>0, <3>2, <3>3
    <3> QED BY <3>1, <3>2, <3>4
  <2> QED BY <2>1, <2>2, <2>4, <2>5 DEF Basic, Staged
<1>4. current' = Cardinality(Holders') /\ current' \in Nat
  <2>1. Holders' = (Holders \ {m}) \cup {q} /\ m \in Holders /\ q \notin Holders
    BY <1>1, <1>a DEF Holders
  <2>2. Cardinality(Holders \ {m}) = Cardinality(Holders) - 1 /\ IsFiniteSet(Holders \ {m})
    BY <2>1, Facts, FS_RemoveElement
  <2>3. Cardinality((Holders \ {m}) \cup {q}) = Cardinality(Holders \ {m}) + 1
    BY <2>1, <2>2, FS_AddElement
  <2> QED BY <1>0, <2>1, <2>2, <2>3, Facts
<1>5. Slots'
  <2>1. \A x \in Msgs : stage'[x] = "emitted" <=> \E h \in Handlers : <<x, h>> \in todo'
    <3>1. /\ \A h : <<m, h>> \notin todo'
          /\ \A x \in Msgs \ {m, q} : \A h : <<x, h>> \in todo' <=> <<x, h>> \in todo
          /\ \A h : <<q, h>> \in todo' <=> <<q, h>> \in todo \/ h \in Matches[q]
      BY <1>0, <1>a, TodoOthers
    <3>2. \E h \in Handlers : <<q, h>> \in todo'
      BY <1>0, <3>1, Facts
    <3> QED BY <1>1, <3>1, <3>2, Facts
  <2>2. /\ queue' # <<>> => Concurrency > 0 /\ current' = Concurrency
        /\ Concurrency > 0 => current' <= Concurrency
    <3>1. queue # <<>>
      BY <1>0
    <3> QED BY <1>0, <3>1 DEF Basic, Slots, SlotsAccounted
  <2>3. \A y \in todo' : y[2] \in Matches[y[1]]
    BY <1>0 DEF Basic, Slots
  <2> QED BY <1>0, <1>4, <2>1, <2>2, <2>3 DEF Slots, SlotsAccounted, Holders
<1>6. TypeOK'
  <2>1. todo' \subseteq Msgs \X Handlers
    BY <1>0, Facts
  <2> QED BY <1>0, <1>2, <1>4, <2>1 DEF Basic, TypeOK, HandsOut
<1> QED BY <1>2, <1>3, <1>5, <1>6 DEF Basic

\* Every step is a step of one message, and has its kind.
LEMMA NextCases ==
  ASSUME Basic, Next
  PROVE  \E m \in Msgs :
           /\ Numbering(m)
           /\ \/ \E s \in Stages : Goes(m, s)
              \/ WaitsForSlot(m) \/ Called(m) \/ SentDirect(m)
              \/ UNCHANGED <<counter, number>> /\ PartDone(m)
              \/ UNCHANGED <<counter, number>> /\ stage[m] = "emitted"
                 /\ (Freed(m) \/ \E k \in 1..Len(queue) : PassedOn(m, k))
<1>1. PICK m \in Msgs : StepOf(m)
  BY DEF Next, StepOf
<1>2. stage[m] = "new" \/ stage[m] \in {"failed", "stuck"} \/ number[m] # 0
  BY DEF Basic, Numbered
<1>3. /\ Numbering(m)
      /\ \/ \E s \in Stages : Goes(m, s)
         \/ WaitsForSlot(m) \/ Called(m) \/ SentDirect(m)
         \/ UNCHANGED <<counter, number>> /\ (PartDone(m) \/ AllDone(m))
  BY <1>1, <1>2, StepCases DEF Basic
<1>4. ASSUME UNCHANGED <<counter, number>>, AllDone(m)
      PROVE  stage[m] = "emitted" /\ (Freed(m) \/ \E k \in 1..Len(queue) : PassedOn(m, k))
  <2>1. stage[m] = "emitted"
    BY <1>4, Facts DEF AllDone
  <2>2. Release(m) /\ UNCHANGED number
    BY <1>4 DEF AllDone
  <2> QED BY <2>1, <2>2, ReleaseCases DEF Basic
<1> QED BY <1>3, <1>4

\* Every step keeps the types, the numbers and the slots.
LEMMA NextBasic ==
  ASSUME Basic, [Next]_vars
  PROVE  Basic'
<1>1. CASE Next
  <2>1. PICK m \in Msgs :
           /\ Numbering(m)
           /\ \/ \E s \in Stages : Goes(m, s)
              \/ WaitsForSlot(m) \/ Called(m) \/ SentDirect(m)
              \/ UNCHANGED <<counter, number>> /\ PartDone(m)
              \/ UNCHANGED <<counter, number>> /\ stage[m] = "emitted"
                 /\ (Freed(m) \/ \E k \in 1..Len(queue) : PassedOn(m, k))
    BY <1>1, NextCases
  <2>2. CASE \E s \in Stages : Goes(m, s)
    BY <2>1, <2>2, GoesBasic
  <2>3. CASE WaitsForSlot(m) \/ Called(m) \/ SentDirect(m)
    BY <2>1, <2>3, WaitsBasic, CalledBasic, DirectBasic
  <2>4. CASE UNCHANGED <<counter, number>> /\ PartDone(m)
    BY <2>4, PartBasic
  <2>5. CASE UNCHANGED <<counter, number>> /\ stage[m] = "emitted" /\ Freed(m)
    BY <2>5, FreedBasic
  <2>6. CASE /\ UNCHANGED <<counter, number>> /\ stage[m] = "emitted"
             /\ \E k \in 1..Len(queue) : PassedOn(m, k)
    BY <2>6, PassedBasic
  <2> QED BY <2>1, <2>2, <2>3, <2>4, <2>5, <2>6
<1>2. CASE UNCHANGED vars
  <2>1. UNCHANGED <<counter, number, stage, queue, current, todo, duplicates, got>>
    BY <1>2 DEF vars
  <2>2. TypeOK' /\ Staged' /\ Numbered'
    BY <2>1 DEF Basic, TypeOK, Staged, Numbered
  <2>3. Slots'
    BY <2>1 DEF Basic, Slots, SlotsAccounted
  <2> QED BY <2>2, <2>3 DEF Basic
<1> QED BY <1>1, <1>2

\* It all holds at the start.
LEMMA InitBasic == Init => Basic
<1> SUFFICES ASSUME Init PROVE Basic
  OBVIOUS
<1>1. /\ counter = 0 /\ current = 0 /\ queue = <<>> /\ todo = {}
      /\ number = [m \in Msgs |-> 0] /\ stage = [m \in Msgs |-> "new"]
      /\ duplicates = [c \in Clients |-> 0] /\ got = [c \in Clients |-> <<>>]
  BY DEF Init
<1>2. TypeOK
  <2>1. <<>> \in Seq(Msgs)
    OBVIOUS
  <2> QED BY <1>1, <2>1 DEF TypeOK, Stages
<1>3. Staged /\ Numbered
  <2>1. Len(queue) = 0 /\ Direct \subseteq Msgs
    BY <1>1, PublishAssumption
  <2>2. \A m \in Msgs : stage[m] = "new" /\ number[m] = 0
    BY <1>1
  <2>3. Staged
    BY <2>1, <2>2 DEF Staged
  <2> QED BY <1>1, <2>2, <2>3 DEF Numbered
<1>4. Slots
  <2>1. Holders = {}
    BY <1>1 DEF Holders
  <2>2. Cardinality({m \in Msgs : stage[m] = "emitted"}) = 0
    BY <2>1, FS_EmptySet DEF Holders
  <2>3. Concurrency \in Nat
    BY PublishAssumption
  <2> QED BY <1>1, <2>2, <2>3 DEF Slots, SlotsAccounted
<1> QED BY <1>2, <1>3, <1>4 DEF Basic

\* The slots of mqemitter in use are those of the messages whose handlers
\* have not all called back; a message waits only while all slots are taken.
THEOREM SlotsSafe == Safe => [](TypeOK /\ SlotsAccounted)
<1>1. Basic => TypeOK /\ SlotsAccounted
  BY DEF Basic, Slots
<1> QED BY InitBasic, NextBasic, <1>1, PTL DEF Safe

-----------------------------------------------------------------------------
(***************************************************************************)
(* What a client accepts.  It remembers the number of the last message it  *)
(* was handed, so the numbers of those it has accepted grow.               *)
(***************************************************************************)
Order ==
  \A c \in Clients :
    /\ \A i \in 1..Len(got[c]) : 1 <= number[got[c][i]] /\ number[got[c][i]] <= duplicates[c]
    /\ \A i, j \in 1..Len(got[c]) : i < j => number[got[c][i]] < number[got[c][j]]

\* The number it remembers is that of a message emitted and offered to it.
Dedupe ==
  \A c \in Clients :
    /\ duplicates[c] <= counter
    /\ \/ duplicates[c] = 0
       \/ \E x \in Msgs : Emitted(x) /\ Offered(x, c) /\ number[x] = duplicates[c]

\* No client.publish() is used on c.
Undirected(c) == \A d \in Direct : Target[d] # c

\* A simple message that waits for a slot is newer than those before it, and
\* than all that a client without client.publish() has been handed.
InQueue ==
  \A j \in 1..Len(queue) :
    Simple(queue[j]) =>
      /\ \A i \in 1..(j - 1) : number[queue[i]] < number[queue[j]]
      /\ \A c \in Clients : Undirected(c) => duplicates[c] < number[queue[j]]

\* What a client has missed is older than what it remembers.
Missed ==
  \A m \in Msgs, c \in Clients :
    Emitted(m) /\ MeantFor(m, c) /\ ~Accepted(m, c) =>
      /\ ~(Simple(m) /\ Undirected(c))
      /\ number[m] < duplicates[c]

Delivered == Order /\ Dedupe /\ InQueue /\ Missed

\* A message emitted stays so, and keeps its number, like all that have one.
Steady ==
  /\ counter' >= counter
  /\ \A x \in Msgs : /\ number[x] # 0 => number'[x] = number[x]
                     /\ Emitted(x) => Emitted(x)' /\ number'[x] = number[x] /\ number[x] # 0

\* Only q, and messages that nobody is offered, are emitted by the step.
OnlyEmits(S) ==
  \A x \in Msgs \ S : Emitted(x)' => Emitted(x) \/ \A c \in Clients : ~Offered(x, c)

\* No client is handed a message.
Quiet == UNCHANGED <<duplicates, got>> /\ OnlyEmits({})

\* q is emitted and handed to the clients.
Delivers(q) ==
  /\ HandsOut(q) /\ OnlyEmits({q})
  /\ ~Emitted(q) /\ Emitted(q)' /\ number'[q] # 0 /\ number'[q] <= counter'
  /\ \A c \in Clients : Simple(q) /\ Undirected(c) => duplicates[c] < number'[q]

\* A step that leaves no message but m, or those that waited and have no
\* handlers, newly emitted, is steady.
LEMMA NumbersSteady ==
  ASSUME Basic, NEW m \in Msgs, Numbering(m)
  PROVE  /\ counter' >= counter /\ counter \in Nat
         /\ \A x \in Msgs : number[x] # 0 => number'[x] = number[x]
         /\ \A x \in Msgs : Emitted(x) => number'[x] = number[x] /\ number[x] # 0
<1>0. counter \in Nat /\ number \in [Msgs -> Nat] /\ Numbered
  BY Facts DEF Basic
<1>1. stage[m] = "new" => number[m] = 0
  BY <1>0 DEF Numbered
<1>2. \A x \in Msgs : Emitted(x) => number[x] # 0
  BY <1>0 DEF Numbered, Emitted
<1>3. \A x \in Msgs : number[x] # 0 => number'[x] = number[x]
  BY <1>0, <1>1 DEF Numbering
<1>4. counter' >= counter
  BY <1>0 DEF Numbering
<1> QED BY <1>0, <1>2, <1>3, <1>4

\* A step that hands nothing out delivers nothing.
LEMMA QuietSteps ==
  ASSUME Basic, NEW m \in Msgs, Numbering(m),
         \/ \E s \in Stages : Goes(m, s)
         \/ WaitsForSlot(m) \/ PartDone(m) \/ (stage[m] = "emitted" /\ Freed(m))
  PROVE  Steady /\ Quiet
<1>0. /\ counter' >= counter
      /\ \A x \in Msgs : number[x] # 0 => number'[x] = number[x]
      /\ \A x \in Msgs : Emitted(x) => number'[x] = number[x] /\ number[x] # 0
  BY NumbersSteady
<1>s. stage \in [Msgs -> Stages]
  BY Facts
<1>1. ASSUME UNCHANGED <<duplicates, got>>,
             \A x \in Msgs : /\ Emitted(x) => Emitted(x)'
                             /\ Emitted(x)' => Emitted(x) \/ \A c \in Clients : ~Offered(x, c)
      PROVE  Steady /\ Quiet
  BY <1>0, <1>1 DEF Steady, Quiet, OnlyEmits
<1>2. ASSUME NEW s \in Stages, Goes(m, s) PROVE Steady /\ Quiet
  <2>1. /\ stage' = [stage EXCEPT ![m] = s] /\ UNCHANGED <<duplicates, got>>
        /\ stage[m] \notin {"emitted", "done"} /\ s \notin {"emitted", "published"}
        /\ s = "done" <=> stage[m] = "published"
    BY <1>2 DEF Goes
  <2>2. \A x \in Msgs : Emitted(x)' <=> Emitted(x)
    BY <1>s, <2>1 DEF Emitted
  <2> QED BY <1>1, <2>1, <2>2
<1>3. CASE WaitsForSlot(m)
  <2>1. /\ stage' = [stage EXCEPT ![m] = "waiting"] /\ UNCHANGED <<duplicates, got>>
        /\ stage[m] \in {"new", "storeRetained", "outgoingEnqueue"}
    BY <1>3 DEF WaitsForSlot, Sent
  <2>2. \A x \in Msgs : Emitted(x)' <=> Emitted(x)
    BY <1>s, <2>1 DEF Emitted
  <2> QED BY <1>1, <2>1, <2>2
<1>4. CASE PartDone(m)
  <2>1. UNCHANGED <<stage, duplicates, got>>
    BY <1>4 DEF PartDone
  <2>2. \A x \in Msgs : Emitted(x)' <=> Emitted(x)
    BY <2>1 DEF Emitted
  <2> QED BY <1>1, <2>1, <2>2
<1>5. CASE stage[m] = "emitted" /\ Freed(m)
  <2>1. UNCHANGED <<duplicates, got>>
    BY <1>5 DEF Freed
  <2>2. ASSUME NEW x \in Msgs
        PROVE  /\ Emitted(x) => Emitted(x)'
               /\ Emitted(x)' => Emitted(x) \/ \A c \in Clients : ~Offered(x, c)
    <3>1. CASE x = m
      BY <1>5, <3>1 DEF Freed, Emitted
    <3>2. CASE \E j \in 1..Len(queue) : x = queue[j]
      <4>1. stage'[x] = "published" /\ Matches[x] = {} /\ x \notin Direct
        BY <1>5, <3>2, Facts DEF Freed
      <4>2. \A c \in Clients : ~Offered(x, c)
        BY <4>1, AsksType DEF Offered
      <4> QED BY <4>1, <4>2 DEF Emitted
    <3>3. CASE x # m /\ ~\E j \in 1..Len(queue) : x = queue[j]
      <4>1. stage'[x] = stage[x]
        BY <1>5, <3>3 DEF Freed
      <4> QED BY <4>1 DEF Emitted
    <3> QED BY <3>1, <3>2, <3>3
  <2> QED BY <1>1, <2>1, <2>2
<1> QED BY <1>2, <1>3, <1>4, <1>5

\* mqemitter emits m at once, or client.publish() does.
LEMMA CalledSteps ==
  ASSUME Basic, Dedupe, NEW m \in Msgs, Numbering(m), Called(m) \/ SentDirect(m)
  PROVE  Steady /\ Delivers(m)
<1>0. /\ counter' >= counter
      /\ \A x \in Msgs : number[x] # 0 => number'[x] = number[x]
      /\ \A x \in Msgs : Emitted(x) => number'[x] = number[x] /\ number[x] # 0
  BY NumbersSteady
<1>1. Basic'
  BY CalledBasic, DirectBasic
<1>2. HandsOut(m) /\ number'[m] # 0 /\ number'[m] <= counter'
  BY <1>1 DEF Basic, Numbered, Called, SentDirect, Sent
<1>3. \E s \in {"emitted", "published", "done"} : stage' = [stage EXCEPT ![m] = s]
  BY DEF Called, SentDirect
<1>4. ~Emitted(m) /\ stage \in [Msgs -> Stages]
  BY Facts DEF Called, SentDirect, Sent, Emitted
<1>5. Emitted(m)' /\ \A x \in Msgs \ {m} : Emitted(x)' <=> Emitted(x)
  BY <1>3, <1>4 DEF Emitted
<1>6. ASSUME NEW c \in Clients, Simple(m), Undirected(c)
      PROVE  duplicates[c] < number'[m]
  <2>1. Called(m)
    BY <1>6 DEF SentDirect, Simple
  <2>2. number'[m] = counter + 1
    BY <1>6, <2>1 DEF Called, Sent
  <2>3. duplicates[c] <= counter /\ duplicates[c] \in Nat /\ counter \in Nat
    BY Facts DEF Dedupe
  <2> QED BY <2>2, <2>3
<1>7. Steady
  BY <1>0, <1>4, <1>5 DEF Steady
<1> QED BY <1>2, <1>4, <1>5, <1>6, <1>7 DEF Delivers, OnlyEmits

\* A message that has waited is emitted.
LEMMA PassedSteps ==
  ASSUME Basic, InQueue, NEW m \in Msgs, UNCHANGED <<counter, number>>, stage[m] = "emitted",
         NEW k \in 1..Len(queue), PassedOn(m, k)
  PROVE  Steady /\ Delivers(queue[k])
<1>a. PICK q \in Msgs : q = queue[k] /\ q \notin Direct /\ stage[q] = "waiting"
  BY Facts
<1>0. /\ counter' >= counter
      /\ \A x \in Msgs : number[x] # 0 => number'[x] = number[x]
      /\ \A x \in Msgs : Emitted(x) => number'[x] = number[x] /\ number[x] # 0
  <2>1. Numbering(m)
    BY DEF Numbering
  <2> QED BY <2>1, NumbersSteady
<1>1. /\ HandsOut(q) /\ \A j \in 1..(k - 1) : Matches[queue[j]] = {}
      /\ \A x \in Msgs : stage'[x] = IF x = m \/ \E j \in 1..(k - 1) : x = queue[j] THEN "published"
                                     ELSE IF x = q THEN "emitted" ELSE stage[x]
  BY <1>a DEF PassedOn
<1>2. number'[q] # 0 /\ number'[q] <= counter' /\ ~Emitted(q)
  BY <1>a DEF Basic, Numbered, Emitted
<1>3. Emitted(q)'
  BY <1>1, <1>a DEF Emitted
<1>4. ASSUME NEW x \in Msgs, x # q
      PROVE  /\ Emitted(x) => Emitted(x)'
             /\ Emitted(x)' => Emitted(x) \/ \A c \in Clients : ~Offered(x, c)
  <2>1. CASE x = m
    BY <1>1, <2>1 DEF Emitted
  <2>2. CASE \E j \in 1..(k - 1) : x = queue[j]
    <3>1. PICK j \in 1..(k - 1) : x = queue[j]
      BY <2>2
    <3>2. j \in 1..Len(queue)
      BY Facts
    <3>3. x \notin Direct /\ Matches[x] = {} /\ stage'[x] = "published"
      BY <1>1, <3>1, <3>2, Facts
    <3>4. \A c \in Clients : ~Offered(x, c)
      BY <3>3, AsksType DEF Offered
    <3> QED BY <3>3, <3>4 DEF Emitted
  <2>3. CASE x # m /\ ~\E j \in 1..(k - 1) : x = queue[j]
    <3>1. stage'[x] = stage[x]
      BY <1>1, <1>4, <2>3
    <3> QED BY <3>1 DEF Emitted
  <2> QED BY <2>1, <2>2, <2>3
<1>5. ASSUME NEW c \in Clients, Simple(q), Undirected(c)
      PROVE  duplicates[c] < number'[q]
  BY <1>5, <1>a DEF InQueue
<1>6. Steady
  BY <1>0, <1>2, <1>4 DEF Steady
<1>7. Delivers(q)
  BY <1>1, <1>2, <1>3, <1>4, <1>5 DEF Delivers, OnlyEmits
<1> QED BY <1>6, <1>7, <1>a

\* Every step is steady, and delivers one message or none.
LEMMA Deliveries ==
  ASSUME Basic, Dedupe, InQueue, [Next]_vars
  PROVE  Steady /\ (Quiet \/ \E q \in Msgs : Delivers(q))
<1>1. CASE Next
  <2>1. PICK m \in Msgs :
           /\ Numbering(m)
           /\ \/ \E s \in Stages : Goes(m, s)
              \/ WaitsForSlot(m) \/ Called(m) \/ SentDirect(m)
              \/ UNCHANGED <<counter, number>> /\ PartDone(m)
              \/ UNCHANGED <<counter, number>> /\ stage[m] = "emitted"
                 /\ (Freed(m) \/ \E k \in 1..Len(queue) : PassedOn(m, k))
    BY <1>1, NextCases
  <2>2. CASE \/ \E s \in Stages : Goes(m, s)
             \/ WaitsForSlot(m) \/ PartDone(m) \/ (stage[m] = "emitted" /\ Freed(m))
    BY <2>1, <2>2, QuietSteps
  <2>3. CASE Called(m) \/ SentDirect(m)
    BY <2>1, <2>3, CalledSteps
  <2>4. ASSUME UNCHANGED <<counter, number>>, stage[m] = "emitted",
               NEW k \in 1..Len(queue), PassedOn(m, k)
        PROVE  Steady /\ \E q \in Msgs : Delivers(q)
    <3>1. queue[k] \in Msgs
      BY Facts
    <3> QED BY <2>4, <3>1, PassedSteps
  <2>5. CASE /\ UNCHANGED <<counter, number>> /\ stage[m] = "emitted"
             /\ \E k \in 1..Len(queue) : PassedOn(m, k)
    BY <2>4, <2>5
  <2>6. \/ \/ \E s \in Stages : Goes(m, s)
           \/ WaitsForSlot(m) \/ PartDone(m) \/ (stage[m] = "emitted" /\ Freed(m))
        \/ Called(m) \/ SentDirect(m)
        \/ /\ UNCHANGED <<counter, number>> /\ stage[m] = "emitted"
           /\ \E k \in 1..Len(queue) : PassedOn(m, k)
    BY <2>1
  <2> QED BY <2>2, <2>3, <2>5, <2>6
<1>2. CASE UNCHANGED vars
  <2>1. UNCHANGED <<counter, number, stage, duplicates, got>>
    BY <1>2 DEF vars
  <2>2. \A x \in Msgs : Emitted(x)' <=> Emitted(x)
    BY <2>1 DEF Emitted
  <2>3. counter \in Nat /\ \A x \in Msgs : Emitted(x) => number[x] # 0
    BY Facts DEF Basic, Numbered, Emitted
  <2> QED BY <2>1, <2>2, <2>3 DEF Steady, Quiet, OnlyEmits
<1> QED BY <1>1, <1>2

\* What client c has accepted before the step has the numbers it had.
LEMMA OldNumbers ==
  ASSUME Basic, Order, Steady, NEW c \in Clients
  PROVE  \A i \in 1..Len(got[c]) : number'[got[c][i]] = number[got[c][i]] /\ number[got[c][i]] \in Nat
<1> SUFFICES ASSUME NEW i \in 1..Len(got[c])
             PROVE  number'[got[c][i]] = number[got[c][i]] /\ number[got[c][i]] \in Nat
  OBVIOUS
<1>1. got[c][i] \in Msgs /\ number \in [Msgs -> Nat]
  BY Facts
<1>2. 1 <= number[got[c][i]]
  BY DEF Order
<1> QED BY <1>1, <1>2 DEF Steady

\* A client accepts a message newer than those it has accepted.
LEMMA OrderStays ==
  ASSUME Basic, Basic', Order, Steady, NEW q \in Msgs, Quiet \/ Delivers(q)
  PROVE  Order'
<1> SUFFICES ASSUME NEW c \in Clients
             PROVE  /\ \A i \in 1..Len(got'[c]) : /\ 1 <= number'[got'[c][i]]
                                                  /\ number'[got'[c][i]] <= duplicates'[c]
                    /\ \A i, j \in 1..Len(got'[c]) :
                         i < j => number'[got'[c][i]] < number'[got'[c][j]]
  BY DEF Order
<1>1. /\ \A i \in 1..Len(got[c]) : 1 <= number[got[c][i]] /\ number[got[c][i]] <= duplicates[c]
      /\ \A i, j \in 1..Len(got[c]) : i < j => number[got[c][i]] < number[got[c][j]]
      /\ \A i \in 1..Len(got[c]) : /\ number'[got[c][i]] = number[got[c][i]]
                                   /\ number[got[c][i]] \in Nat
      /\ duplicates[c] \in Nat /\ Len(got[c]) \in Nat
  BY OldNumbers, Facts DEF Order
<1>2. CASE UNCHANGED <<duplicates, got>>
  BY <1>1, <1>2
<1>3. CASE Delivers(q)
  <2>1. /\ duplicates'[c] = IF Given(q, c) THEN number'[q] ELSE duplicates[c]
        /\ \A i \in 1..Len(got[c]) : got'[c][i] = got[c][i]
        /\ IF Given(q, c) /\ <<q, c>> \notin Refused
           THEN Len(got'[c]) = Len(got[c]) + 1 /\ got'[c][Len(got[c]) + 1] = q
           ELSE Len(got'[c]) = Len(got[c])
    BY <1>3 DEF Delivers, HandsOut
  <2>2. number'[q] \in Nat /\ number'[q] # 0
    <3>1. number' \in [Msgs -> Nat]
      BY DEF Basic, TypeOK
    <3> QED BY <1>3, <3>1 DEF Delivers
  <2>3. CASE Given(q, c) /\ <<q, c>> \notin Refused
    <3>1. /\ duplicates[c] < number'[q] /\ duplicates'[c] = number'[q]
          /\ Len(got'[c]) = Len(got[c]) + 1 /\ got'[c][Len(got[c]) + 1] = q
      BY <2>1, <2>3 DEF Given
    <3>2. \A i \in 1..Len(got'[c]) : i \in 1..Len(got[c]) \/ i = Len(got[c]) + 1
      BY <1>1, <3>1
    <3>3. \A i \in 1..Len(got[c]) : got'[c][i] = got[c][i]
      BY <2>1
    <3>4. ASSUME NEW i \in 1..Len(got'[c])
          PROVE  1 <= number'[got'[c][i]] /\ number'[got'[c][i]] <= duplicates'[c]
      <4>1. CASE i \in 1..Len(got[c])
        <5>1. /\ 1 <= number'[got'[c][i]] /\ number'[got'[c][i]] <= duplicates[c]
              /\ number'[got'[c][i]] \in Nat
          BY <1>1, <3>3, <4>1
        <5> QED BY <1>1, <2>2, <3>1, <5>1
      <4>2. CASE i = Len(got[c]) + 1
        BY <2>2, <3>1, <4>2
      <4> QED BY <3>2, <4>1, <4>2
    <3>5. ASSUME NEW i \in 1..Len(got'[c]), NEW j \in 1..Len(got'[c]), i < j
          PROVE  number'[got'[c][i]] < number'[got'[c][j]]
      <4>1. i \in 1..Len(got[c])
        BY <1>1, <3>1, <3>5
      <4>2. CASE j \in 1..Len(got[c])
        <5>1. number[got[c][i]] < number[got[c][j]]
          BY <1>1, <3>5, <4>1, <4>2
        <5>2. number'[got[c][i]] < number'[got[c][j]]
          BY <1>1, <4>1, <4>2, <5>1
        <5> QED BY <3>3, <4>1, <4>2, <5>2
      <4>3. CASE j = Len(got[c]) + 1
        <5>1. number'[got'[c][i]] <= duplicates[c] /\ number'[got'[c][i]] \in Nat
          BY <1>1, <3>3, <4>1
        <5> QED BY <1>1, <2>2, <3>1, <4>3, <5>1
      <4> QED BY <3>2, <4>2, <4>3
    <3> QED BY <3>4, <3>5
  <2>4. CASE ~(Given(q, c) /\ <<q, c>> \notin Refused)
    <3>1. duplicates[c] <= duplicates'[c] /\ Len(got'[c]) = Len(got[c]) /\ duplicates'[c] \in Nat
      BY <1>1, <2>1, <2>2, <2>4 DEF Given
    <3>2. ASSUME NEW i \in 1..Len(got[c])
          PROVE  /\ got'[c][i] = got[c][i] /\ number'[got'[c][i]] = number[got[c][i]]
                 /\ 1 <= number[got[c][i]] /\ number[got[c][i]] <= duplicates'[c]
      <4>1. number[got[c][i]] <= duplicates[c] /\ number[got[c][i]] \in Nat
        BY <1>1
      <4> QED BY <1>1, <2>1, <3>1, <4>1
    <3> QED BY <1>1, <3>1, <3>2
  <2> QED BY <2>3, <2>4
<1> QED BY <1>2, <1>3 DEF Quiet

\* The message that a client remembers is one that has been emitted.
LEMMA DedupeStays ==
  ASSUME Basic, Basic', Dedupe, Steady, NEW q \in Msgs, Quiet \/ Delivers(q)
  PROVE  Dedupe'
<1> SUFFICES ASSUME NEW c \in Clients
             PROVE  /\ duplicates'[c] <= counter'
                    /\ \/ duplicates'[c] = 0
                       \/ \E x \in Msgs : Emitted(x)' /\ Offered(x, c) /\ number'[x] = duplicates'[c]
  BY DEF Dedupe, Offered, Asks
<1>1. duplicates[c] \in Nat /\ counter \in Nat /\ counter' \in Nat /\ duplicates[c] <= counter
  BY Facts DEF Dedupe, Basic, TypeOK
<1>2. CASE duplicates'[c] = duplicates[c]
  <2>1. duplicates[c] = 0 \/ \E x \in Msgs : Emitted(x) /\ Offered(x, c) /\ number[x] = duplicates[c]
    BY DEF Dedupe
  <2>2. \A x \in Msgs : Emitted(x) => Emitted(x)' /\ number'[x] = number[x]
    BY DEF Steady
  <2>3. counter' >= counter
    BY DEF Steady
  <2> QED BY <1>1, <1>2, <2>1, <2>2, <2>3
<1>3. CASE Delivers(q) /\ Given(q, c)
  <2>1. duplicates'[c] = number'[q] /\ Emitted(q)' /\ number'[q] <= counter'
    BY <1>3 DEF Delivers, HandsOut
  <2> QED BY <1>3, <2>1 DEF Given
<1>4. duplicates'[c] = duplicates[c] \/ (Delivers(q) /\ Given(q, c))
  BY DEF Quiet, Delivers, HandsOut
<1> QED BY <1>2, <1>3, <1>4

\* What a client remembers never gets smaller.
LEMMA DuplicatesGrow ==
  ASSUME Basic, Basic', NEW q \in Msgs, Quiet \/ Delivers(q), NEW c \in Clients
  PROVE  /\ duplicates[c] \in Nat /\ duplicates'[c] \in Nat /\ duplicates[c] <= duplicates'[c]
         /\ \A m \in Msgs : Accepted(m, c) => Accepted(m, c)'
<1>1. /\ duplicates[c] \in Nat /\ number'[q] \in Nat /\ Len(got[c]) \in Nat
      /\ duplicates'[c] \in Nat
  BY Facts DEF Basic, TypeOK
<1>2. CASE UNCHANGED <<duplicates, got>>
  BY <1>1, <1>2 DEF Accepted
<1>3. CASE Delivers(q)
  <2>1. /\ duplicates'[c] = IF Given(q, c) THEN number'[q] ELSE duplicates[c]
        /\ \A i \in 1..Len(got[c]) : got'[c][i] = got[c][i]
        /\ Len(got'[c]) = Len(got[c]) \/ Len(got'[c]) = Len(got[c]) + 1
    BY <1>3 DEF Delivers, HandsOut
  <2>2. \A i \in 1..Len(got[c]) : i \in 1..Len(got'[c])
    BY <1>1, <2>1
  <2> QED BY <1>1, <2>1, <2>2 DEF Accepted, Given
<1> QED BY <1>2, <1>3 DEF Quiet

\* A client misses what it is handed only if it remembers a later number.
LEMMA MissedStays ==
  ASSUME Basic, Basic', Dedupe, Missed, Steady, NEW q \in Msgs, Quiet \/ Delivers(q)
  PROVE  Missed'
<1> SUFFICES ASSUME NEW m \in Msgs, NEW c \in Clients,
                    Emitted(m)', MeantFor(m, c), ~Accepted(m, c)'
             PROVE  ~(Simple(m) /\ Undirected(c)) /\ number'[m] < duplicates'[c]
  BY DEF Missed, MeantFor, Offered, Asks
<1>1. /\ duplicates[c] \in Nat /\ duplicates'[c] \in Nat /\ duplicates[c] <= duplicates'[c]
      /\ ~Accepted(m, c)
  BY DuplicatesGrow
<1>2. number[m] \in Nat /\ number'[m] \in Nat
  BY Facts DEF Basic, TypeOK
<1>3. CASE Emitted(m)
  <2>1. number[m] < duplicates[c] /\ ~(Simple(m) /\ Undirected(c))
    BY <1>1, <1>3 DEF Missed
  <2>2. number'[m] = number[m]
    BY <1>3 DEF Steady
  <2> QED BY <1>1, <1>2, <2>1, <2>2
<1>4. CASE ~Emitted(m)
  <2>1. m = q /\ Delivers(q)
    BY <1>4 DEF Quiet, Delivers, OnlyEmits, MeantFor
  <2>2. ~Given(m, c)
    <3>1. ASSUME Given(m, c) PROVE Accepted(m, c)'
      <4>1. Len(got'[c]) = Len(got[c]) + 1 /\ got'[c][Len(got[c]) + 1] = m
        BY <2>1, <3>1 DEF Delivers, HandsOut, MeantFor
      <4>2. Len(got[c]) + 1 \in 1..Len(got'[c])
        BY <4>1, Facts
      <4> QED BY <4>1, <4>2 DEF Accepted
    <3> QED BY <3>1
  <2>3. number'[m] <= duplicates[c] /\ number'[m] # 0
    BY <1>1, <1>2, <2>1, <2>2 DEF Given, MeantFor, Delivers
  <2>4. number'[m] # duplicates[c]
    <3> SUFFICES ASSUME number'[m] = duplicates[c] PROVE FALSE
      OBVIOUS
    <3>1. PICK x \in Msgs : Emitted(x) /\ number[x] = duplicates[c]
      BY <2>3 DEF Dedupe
    <3>2. number'[x] = number'[m]
      BY <3>1 DEF Steady
    <3>3. x = m
      BY <2>3, <3>2 DEF Basic, Numbered
    <3> QED BY <1>4, <3>1, <3>3
  <2>5. ~(Simple(m) /\ Undirected(c))
    BY <1>1, <1>2, <2>1, <2>3 DEF Delivers
  <2> QED BY <1>1, <1>2, <2>3, <2>4, <2>5
<1> QED BY <1>3, <1>4

\* The queue keeps its order, and a simple message in it is newer than what is
\* delivered meanwhile: to overtake it takes a slot, or a client.publish().
LEMMA InQueueStays ==
  ASSUME Basic, Basic', Dedupe, InQueue, [Next]_vars
  PROVE  InQueue'
<1>0. /\ Len(queue) \in Nat /\ counter \in Nat /\ number \in [Msgs -> Nat]
      /\ duplicates \in [Clients -> Nat] /\ current \in Nat /\ Concurrency \in Nat
      /\ \A j \in 1..Len(queue) : queue[j] \in Msgs /\ number[queue[j]] # 0
  BY Facts DEF Basic, Numbered
<1>1. ASSUME queue' = queue, \A j \in 1..Len(queue) : number'[queue[j]] = number[queue[j]],
             \A c \in Clients : Undirected(c) => duplicates'[c] = duplicates[c]
      PROVE  InQueue'
  BY <1>1 DEF InQueue, Undirected
<1>2. ASSUME Len(queue') = 0 PROVE InQueue'
  BY <1>2 DEF InQueue
<1>3. CASE UNCHANGED vars
  <2>1. UNCHANGED <<queue, number, duplicates>>
    BY <1>3 DEF vars
  <2> QED BY <1>1, <2>1
<1>4. ASSUME NEW m \in Msgs, Numbering(m)
      PROVE  \A j \in 1..Len(queue) : number'[queue[j]] = number[queue[j]]
  BY <1>0, <1>4, NumbersSteady
<1>5. ASSUME NEW m \in Msgs, Numbering(m), WaitsForSlot(m)
      PROVE  InQueue'
  <2>1. /\ Len(queue') = Len(queue) + 1 /\ queue'[Len(queue) + 1] = m
        /\ \A i \in 1..Len(queue) : queue'[i] = queue[i]
        /\ UNCHANGED duplicates
    BY <1>5, Facts, AppendProperties DEF WaitsForSlot
  <2>2. \A i \in 1..Len(queue) : number'[queue'[i]] = number[queue[i]]
    BY <1>4, <1>5, <2>1
  <2>3. \A i \in 1..Len(queue) : number[queue[i]] <= counter
    BY <1>0 DEF Basic, Numbered
  <2>4. \A c \in Clients : duplicates[c] <= counter
    BY DEF Dedupe
  <2>5. Simple(m) => number'[m] = counter + 1
    BY <1>5 DEF WaitsForSlot, Sent
  <2>6. ASSUME NEW j \in 1..Len(queue'), Simple(queue'[j])
        PROVE  /\ \A i \in 1..(j - 1) : number'[queue'[i]] < number'[queue'[j]]
               /\ \A c \in Clients : Undirected(c) => duplicates'[c] < number'[queue'[j]]
    <3>1. \A i \in 1..(j - 1) : i \in 1..Len(queue)
      BY <1>0, <2>1
    <3>2. CASE j = Len(queue) + 1
      <4>1. number'[queue'[j]] = counter + 1
        BY <2>1, <2>5, <2>6, <3>2
      <4>2. \A i \in 1..(j - 1) : number'[queue'[i]] < number'[queue'[j]]
        BY <1>0, <2>2, <2>3, <3>1, <4>1
      <4>3. \A c \in Clients : duplicates'[c] < number'[queue'[j]]
        BY <1>0, <2>1, <2>4, <4>1
      <4> QED BY <4>2, <4>3
    <3>3. CASE j \in 1..Len(queue)
      <4>1. Simple(queue[j]) /\ number'[queue'[j]] = number[queue[j]]
        BY <2>1, <2>2, <2>6, <3>3
      <4>2. /\ \A i \in 1..(j - 1) : number[queue[i]] < number[queue[j]]
            /\ \A c \in Clients : Undirected(c) => duplicates[c] < number[queue[j]]
        BY <3>3, <4>1 DEF InQueue
      <4> QED BY <2>1, <2>2, <3>1, <4>1, <4>2
    <3> QED BY <1>0, <2>1, <3>2, <3>3
  <2> QED BY <2>6 DEF InQueue, Undirected
<1>6. ASSUME NEW m \in Msgs, Numbering(m), Called(m)
      PROVE  InQueue'
  <2>1. queue = <<>> /\ queue' = queue
    BY <1>0, <1>6 DEF Called, Basic, Slots, SlotsAccounted
  <2> QED BY <1>2, <2>1
<1>7. ASSUME NEW m \in Msgs, Numbering(m), SentDirect(m)
      PROVE  InQueue'
  <2>1. queue' = queue /\ m \in Direct /\ HandsOut(m)
    BY <1>7 DEF SentDirect
  <2>2. \A c \in Clients : Undirected(c) => duplicates'[c] = duplicates[c]
    BY <2>1 DEF HandsOut, Given, Offered, Undirected
  <2> QED BY <1>1, <1>4, <1>7, <2>1, <2>2
<1>8. ASSUME NEW m \in Msgs, UNCHANGED <<counter, number>>, NEW k \in 1..Len(queue), PassedOn(m, k)
      PROVE  InQueue'
  <2>1. /\ Len(queue') = Len(queue) - k /\ \A i \in 1..(Len(queue) - k) : queue'[i] = queue[k + i]
        /\ HandsOut(queue[k]) /\ number' = number
    BY <1>8 DEF PassedOn
  <2>2. \A c \in Clients : duplicates'[c] \in {duplicates[c], number[queue[k]]}
    BY <2>1 DEF HandsOut
  <2>3. ASSUME NEW j \in 1..Len(queue'), Simple(queue'[j])
        PROVE  /\ \A i \in 1..(j - 1) : number'[queue'[i]] < number'[queue'[j]]
               /\ \A c \in Clients : Undirected(c) => duplicates'[c] < number'[queue'[j]]
    <3>1. k + j \in 1..Len(queue) /\ queue'[j] = queue[k + j] /\ k \in 1..(k + j - 1)
      BY <1>0, <2>1
    <3>2. \A i \in 1..(j - 1) : k + i \in 1..(k + j - 1) /\ queue'[i] = queue[k + i]
      <4>1. ASSUME NEW i \in 1..(j - 1)
            PROVE  k + i \in 1..(k + j - 1) /\ i \in 1..(Len(queue) - k)
        BY <1>0, <2>1
      <4> QED BY <2>1, <4>1
    <3>3. /\ \A i \in 1..(k + j - 1) : number[queue[i]] < number[queue[k + j]]
          /\ \A c \in Clients : Undirected(c) => duplicates[c] < number[queue[k + j]]
      BY <2>3, <3>1 DEF InQueue
    <3>4. \A i \in 1..(j - 1) : number'[queue'[i]] < number'[queue'[j]]
      BY <2>1, <3>1, <3>2, <3>3
    <3>5. number[queue[k]] < number[queue[k + j]]
      BY <3>1, <3>3
    <3>6. \A c \in Clients : Undirected(c) => duplicates'[c] < number'[queue'[j]]
      BY <2>1, <2>2, <3>1, <3>3, <3>5
    <3> QED BY <3>4, <3>6
  <2> QED BY <2>3 DEF InQueue, Undirected
<1>9. CASE Next
  <2>1. PICK m \in Msgs :
           /\ Numbering(m)
           /\ \/ \E s \in Stages : Goes(m, s)
              \/ WaitsForSlot(m) \/ Called(m) \/ SentDirect(m)
              \/ UNCHANGED <<counter, number>> /\ PartDone(m)
              \/ UNCHANGED <<counter, number>> /\ stage[m] = "emitted"
                 /\ (Freed(m) \/ \E k \in 1..Len(queue) : PassedOn(m, k))
    BY <1>9, NextCases
  <2>2. CASE (\E s \in Stages : Goes(m, s)) \/ PartDone(m)
    <3>1. queue' = queue /\ duplicates' = duplicates
      BY <2>2 DEF Goes, PartDone
    <3> QED BY <1>1, <1>4, <2>1, <3>1
  <2>3. CASE WaitsForSlot(m) \/ Called(m) \/ SentDirect(m)
    BY <1>5, <1>6, <1>7, <2>1, <2>3
  <2>4. CASE Freed(m)
    <3>1. Len(queue') = 0
      BY <2>4 DEF Freed
    <3> QED BY <1>2, <3>1
  <2>5. CASE UNCHANGED <<counter, number>> /\ \E k \in 1..Len(queue) : PassedOn(m, k)
    BY <1>8, <2>5
  <2>6. \/ (\E s \in Stages : Goes(m, s)) \/ PartDone(m)
        \/ WaitsForSlot(m) \/ Called(m) \/ SentDirect(m)
        \/ Freed(m)
        \/ UNCHANGED <<counter, number>> /\ \E k \in 1..Len(queue) : PassedOn(m, k)
    BY <2>1
  <2> QED BY <2>2, <2>3, <2>4, <2>5, <2>6
<1> QED BY <1>3, <1>9

Accepting == Basic /\ Delivered

\* It holds at the start, when no message has been emitted.
LEMMA InitAccepting == Init => Accepting
<1> SUFFICES ASSUME Init PROVE Delivered
  BY InitBasic DEF Accepting
<1>1. /\ queue = <<>> /\ counter = 0 /\ duplicates = [c \in Clients |-> 0]
      /\ stage = [m \in Msgs |-> "new"] /\ got = [c \in Clients |-> <<>>]
  BY DEF Init
<1>2. Len(queue) = 0 /\ \A c \in Clients : Len(got[c]) = 0 /\ duplicates[c] = 0
  BY <1>1
<1>3. \A m \in Msgs : ~Emitted(m)
  BY <1>1 DEF Emitted
<1> QED BY <1>1, <1>2, <1>3 DEF Delivered, Order, Dedupe, InQueue, Missed

\* Every step keeps it.
LEMMA NextAccepting == Accepting /\ [Next]_vars => Accepting'
<1> SUFFICES ASSUME Accepting, [Next]_vars PROVE Accepting'
  OBVIOUS
<1>1. Basic /\ Order /\ Dedupe /\ InQueue /\ Missed
  BY DEF Accepting, Delivered
<1>2. Basic'
  BY <1>1, NextBasic
<1>3. InQueue'
  BY <1>1, <1>2, InQueueStays
<1>4. Steady /\ (Quiet \/ \E q \in Msgs : Delivers(q))
  BY <1>1, Deliveries
<1>5. ASSUME NEW q \in Msgs, Quiet \/ Delivers(q) PROVE Order' /\ Dedupe' /\ Missed'
  BY <1>1, <1>2, <1>4, <1>5, OrderStays, DedupeStays, MissedStays
<1>6. CASE Msgs = {}
  <2>1. UNCHANGED <<counter, number, stage, queue, current, todo, duplicates, got>>
    BY <1>6 DEF Next, vars
  <2> QED BY <1>1, <2>1, <1>2
       DEF Accepting, Delivered, Order, Dedupe, InQueue, Missed, Emitted, Accepted
<1>7. CASE Msgs # {}
  <2>1. Order' /\ Dedupe' /\ Missed'
    BY <1>4, <1>5, <1>7
  <2> QED BY <1>2, <1>3, <2>1 DEF Accepting, Delivered
<1> QED BY <1>6, <1>7

\* A client accepts each message at most once, in the order of publish().
THEOREM OrderSafe == Safe => []AcceptedInOrder
<1>1. Accepting => AcceptedInOrder
  BY DEF Accepting, Delivered, Order, AcceptedInOrder
<1> QED BY InitAccepting, NextAccepting, <1>1, PTL DEF Safe

\* A client misses a message only because a later one was offered to it; a
\* simple one only if client.publish() is used on it.
THEOREM DroppedSafe == Safe => []DroppedOnlyIfOvertaken
<1>1. Accepting => DroppedOnlyIfOvertaken
  <2> SUFFICES ASSUME Accepting, NEW m \in Msgs, NEW c \in Clients,
                      Emitted(m), MeantFor(m, c), ~Accepted(m, c)
               PROVE  /\ Simple(m) => \E d \in Direct : Target[d] = c
                      /\ \E x \in Msgs : Emitted(x) /\ Offered(x, c) /\ number[x] > number[m]
    BY DEF DroppedOnlyIfOvertaken
  <2>1. ~(Simple(m) /\ Undirected(c)) /\ number[m] < duplicates[c]
    BY DEF Accepting, Delivered, Missed
  <2>2. number[m] \in Nat /\ duplicates[c] \in Nat
    BY Facts DEF Accepting
  <2>3. \E x \in Msgs : Emitted(x) /\ Offered(x, c) /\ number[x] = duplicates[c]
    BY <2>1, <2>2 DEF Accepting, Delivered, Dedupe
  <2> QED BY <2>1, <2>2, <2>3 DEF Undirected
<1> QED BY InitAccepting, NextAccepting, <1>1, PTL DEF Safe
=============================================================================

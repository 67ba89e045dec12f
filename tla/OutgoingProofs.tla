--------------------------- MODULE OutgoingProofs ---------------------------
(***************************************************************************)
(* Proofs about Outgoing for any messages, messageIds and connections:     *)
(* what is stored for a session stays stored until the client has it, a    *)
(* QoS 2 message is taken once, and the exchange implements Handover.      *)
(***************************************************************************)
EXTENDS Outgoing, WellFoundedInduction, SequenceTheorems, TLAPS

-----------------------------------------------------------------------------
\* Sequences.

\* The elements of a sequence.
LEMMA SetIs ==
  ASSUME NEW S, NEW s \in Seq(S)
  PROVE  /\ ToSet(s) = {s[i] : i \in 1..Len(s)} /\ ToSet(s) \subseteq S /\ Len(s) \in Nat
         /\ \A i \in 1..Len(s) : s[i] \in S /\ s[i] \in ToSet(s)
         /\ \A x \in ToSet(s) : \E i \in 1..Len(s) : s[i] = x
<1>1. Len(s) \in Nat /\ DOMAIN s = 1..Len(s) /\ \A i \in 1..Len(s) : s[i] \in S
  BY LenProperties, ElementOfSeq
<1> QED BY <1>1 DEF ToSet

\* No element.
LEMMA NothingSet == <<>> \in Seq({}) /\ Len(<<>>) = 0 /\ ToSet(<<>>) = {}
<1>1. DOMAIN <<>> = {}
  OBVIOUS
<1> QED BY <1>1, EmptySeq DEF ToSet

\* One element more.
LEMMA AppendIs ==
  ASSUME NEW S, NEW s \in Seq(S), NEW e \in S
  PROVE  /\ Append(s, e) \in Seq(S) /\ Len(Append(s, e)) = Len(s) + 1
         /\ \A i \in 1..Len(s) : Append(s, e)[i] = s[i]
         /\ Append(s, e)[Len(s) + 1] = e
         /\ ToSet(Append(s, e)) = ToSet(s) \cup {e}
<1> DEFINE t == Append(s, e)
<1>1. /\ t \in Seq(S) /\ Len(t) = Len(s) + 1 /\ Len(s) \in Nat
      /\ \A i \in 1..Len(s) : t[i] = s[i]
      /\ t[Len(s) + 1] = e
  BY AppendProperties, LenProperties
<1> HIDE DEF t
<1>2. ToSet(t) = {t[i] : i \in 1..Len(t)} /\ ToSet(s) = {s[i] : i \in 1..Len(s)}
  BY <1>1, SetIs
<1>3. ToSet(t) \subseteq ToSet(s) \cup {e}
  <2>1. ASSUME NEW i \in 1..Len(t) PROVE t[i] \in ToSet(s) \cup {e}
    <3>1. i \in 1..Len(s) \/ i = Len(s) + 1
      BY <1>1
    <3> QED BY <1>1, <1>2, <3>1
  <2> QED BY <1>2, <2>1
<1>4. ToSet(s) \cup {e} \subseteq ToSet(t)
  <2>1. \A i \in 1..Len(s) : i \in 1..Len(t)
    BY <1>1
  <2>2. Len(s) + 1 \in 1..Len(t)
    BY <1>1
  <2> QED BY <1>1, <1>2, <2>1, <2>2
<1> QED BY <1>1, <1>3, <1>4 DEF t

\* The first element and the others.
LEMMA TailIs ==
  ASSUME NEW S, NEW s \in Seq(S), s # <<>>
  PROVE  /\ Head(s) \in S /\ Head(s) = s[1] /\ Len(s) > 0 /\ Len(s) \in Nat
         /\ Tail(s) \in Seq(S) /\ Len(Tail(s)) = Len(s) - 1
         /\ \A i \in 1..(Len(s) - 1) : Tail(s)[i] = s[i + 1]
         /\ ToSet(s) = {Head(s)} \cup ToSet(Tail(s))
<1> DEFINE t == Tail(s)
<1>1. /\ Head(s) \in S /\ Head(s) = s[1] /\ Len(s) > 0 /\ Len(s) \in Nat
      /\ t \in Seq(S) /\ Len(t) = Len(s) - 1
      /\ \A i \in 1..(Len(s) - 1) : t[i] = s[i + 1]
  BY HeadTailProperties, LenProperties, EmptySeq
<1> HIDE DEF t
<1>2. ToSet(t) = {t[i] : i \in 1..Len(t)} /\ ToSet(s) = {s[i] : i \in 1..Len(s)}
  BY <1>1, SetIs
<1>3. ASSUME NEW i \in 1..Len(s) PROVE s[i] \in {Head(s)} \cup ToSet(t)
  <2>1. CASE i = 1
    BY <1>1, <2>1
  <2>2. CASE i # 1
    <3>1. i - 1 \in 1..(Len(s) - 1) /\ (i - 1) + 1 = i
      BY <1>1, <2>2
    <3> QED BY <1>1, <1>2, <3>1
  <2> QED BY <2>1, <2>2
<1>4. ASSUME NEW i \in 1..Len(t) PROVE t[i] \in ToSet(s)
  <2>1. i + 1 \in 1..Len(s) /\ i \in 1..(Len(s) - 1)
    BY <1>1
  <2> QED BY <1>1, <1>2, <2>1
<1>5. 1 \in 1..Len(s)
  BY <1>1
<1> QED BY <1>1, <1>2, <1>3, <1>4, <1>5 DEF t

\* One element less.
LEMMA RemoveIs ==
  ASSUME NEW S, NEW s \in Seq(S), NEW i \in 1..Len(s)
  PROVE  LET r == RemoveAt(s, i) IN
         /\ r \in Seq(S) /\ Len(r) = Len(s) - 1
         /\ \A j \in 1..Len(r) : r[j] = IF j < i THEN s[j] ELSE s[j + 1]
         /\ ToSet(r) \subseteq ToSet(s) /\ ToSet(s) \subseteq ToSet(r) \cup {s[i]}
<1> DEFINE a == SubSeq(s, 1, i - 1)
           b == SubSeq(s, i + 1, Len(s))
           r == a \o b
<1>0. Len(s) \in Nat /\ \A j \in 1..Len(s) : s[j] \in S
  BY LenProperties, ElementOfSeq
<1>1. a \in Seq(S) /\ Len(a) = i - 1 /\ \A j \in 1..(i - 1) : a[j] = s[j]
  <2>1. 1 \in Int /\ i - 1 \in Int /\ \A j \in 1..(i - 1) : s[j] \in S
    BY <1>0
  <2>2. /\ a \in Seq(S) /\ Len(a) = IF 1 <= i - 1 THEN (i - 1) - 1 + 1 ELSE 0
        /\ \A j \in 1..((i - 1) - 1 + 1) : a[j] = s[1 + j - 1]
    BY <2>1, SubSeqProperties
  <2> HIDE DEF a
  <2> QED BY <1>0, <2>2
<1>2. b \in Seq(S) /\ Len(b) = Len(s) - i /\ \A j \in 1..(Len(s) - i) : b[j] = s[i + j]
  <2>1. i + 1 \in Int /\ Len(s) \in Int /\ \A j \in (i + 1)..Len(s) : s[j] \in S
    BY <1>0
  <2>2. /\ b \in Seq(S) /\ Len(b) = IF i + 1 <= Len(s) THEN Len(s) - (i + 1) + 1 ELSE 0
        /\ \A j \in 1..(Len(s) - (i + 1) + 1) : b[j] = s[(i + 1) + j - 1]
    BY <2>1, SubSeqProperties
  <2> HIDE DEF b
  <2> QED BY <1>0, <2>2
<1> HIDE DEF a, b
<1>3. /\ r \in Seq(S) /\ Len(r) = Len(a) + Len(b)
      /\ \A j \in 1..(Len(a) + Len(b)) : r[j] = IF j <= Len(a) THEN a[j] ELSE b[j - Len(a)]
  BY <1>1, <1>2, ConcatProperties
<1> HIDE DEF r
<1>4. Len(r) = Len(s) - 1
  BY <1>0, <1>1, <1>2, <1>3
<1>5. ASSUME NEW j \in 1..Len(r) PROVE r[j] = IF j < i THEN s[j] ELSE s[j + 1]
  <2>1. CASE j < i
    <3>1. j \in 1..(i - 1) /\ j <= Len(a) /\ j \in 1..(Len(a) + Len(b))
      BY <1>0, <1>1, <1>2, <1>4, <2>1
    <3> QED BY <1>1, <1>3, <2>1, <3>1
  <2>2. CASE ~(j < i)
    <3>1. /\ j - (i - 1) \in 1..(Len(s) - i) /\ ~(j <= Len(a)) /\ j \in 1..(Len(a) + Len(b))
          /\ i + (j - (i - 1)) = j + 1 /\ j - Len(a) = j - (i - 1)
      BY <1>0, <1>1, <1>2, <1>4, <2>2
    <3>2. r[j] = b[j - (i - 1)]
      BY <1>3, <3>1
    <3>3. b[j - (i - 1)] = s[i + (j - (i - 1))]
      BY <1>2, <3>1
    <3> QED BY <2>2, <3>1, <3>2, <3>3
  <2> QED BY <2>1, <2>2
<1>6. ToSet(r) = {r[j] : j \in 1..Len(r)} /\ ToSet(s) = {s[j] : j \in 1..Len(s)}
  BY <1>3, SetIs
<1>7. ToSet(r) \subseteq ToSet(s)
  <2>1. ASSUME NEW j \in 1..Len(r) PROVE r[j] \in ToSet(s)
    <3>1. j \in 1..Len(s) /\ j + 1 \in 1..Len(s)
      BY <1>0, <1>4
    <3> QED BY <1>5, <1>6, <3>1
  <2> QED BY <1>6, <2>1
<1>8. ToSet(s) \subseteq ToSet(r) \cup {s[i]}
  <2>1. ASSUME NEW j \in 1..Len(s), j # i PROVE s[j] \in ToSet(r)
    <3>1. CASE j < i
      <4>1. j \in 1..Len(r)
        BY <1>0, <1>4, <3>1
      <4> QED BY <1>5, <1>6, <3>1, <4>1
    <3>2. CASE j > i
      <4>1. j - 1 \in 1..Len(r) /\ ~(j - 1 < i) /\ (j - 1) + 1 = j
        BY <1>0, <1>4, <3>2
      <4> QED BY <1>5, <1>6, <4>1
    <3> QED BY <1>0, <2>1, <3>1, <3>2
  <2> QED BY <1>6, <2>1
<1>9. RemoveAt(s, i) = r
  BY DEF RemoveAt, r, a, b
<1> QED BY <1>3, <1>4, <1>5, <1>7, <1>8, <1>9

\* One element replaced.
LEMMA ReplaceIs ==
  ASSUME NEW S, NEW s \in Seq(S), NEW i \in 1..Len(s), NEW e \in S
  PROVE  LET r == [s EXCEPT ![i] = e] IN
         /\ r \in Seq(S) /\ Len(r) = Len(s)
         /\ \A j \in 1..Len(s) : r[j] = IF j = i THEN e ELSE s[j]
         /\ ToSet(r) \subseteq ToSet(s) \cup {e} /\ e \in ToSet(r)
         /\ ToSet(s) \subseteq ToSet(r) \cup {s[i]}
<1> DEFINE r == [s EXCEPT ![i] = e]
<1>1. /\ r \in Seq(S) /\ Len(r) = Len(s) /\ Len(s) \in Nat
      /\ \A j \in 1..Len(s) : r[j] = IF j = i THEN e ELSE s[j]
  <2>1. r \in Seq(S) /\ Len(r) = Len(s) /\ Len(s) \in Nat /\ DOMAIN s = 1..Len(s)
    BY ExceptSeq, LenProperties
  <2> QED BY <2>1
<1> HIDE DEF r
<1>2. ToSet(r) = {r[j] : j \in 1..Len(r)} /\ ToSet(s) = {s[j] : j \in 1..Len(s)}
  BY <1>1, SetIs
<1>3. /\ ToSet(r) \subseteq ToSet(s) \cup {e} /\ e \in ToSet(r)
      /\ ToSet(s) \subseteq ToSet(r) \cup {s[i]}
  BY <1>1, <1>2
<1> QED BY <1>1, <1>3 DEF r

-----------------------------------------------------------------------------
\* The store.

\* The order of the numbers.
LEMMA Below == OpToRel(<, Nat) = {p \in Nat \X Nat : p[1] < p[2]}
BY DEF OpToRel

\* The least number of a set is one of it.
LEMMA MinIs ==
  ASSUME NEW S \in SUBSET Nat, S # {}
  PROVE  Min(S) \in S /\ \A x \in S : Min(S) <= x
<1> DEFINE R == {p \in Nat \X Nat : p[1] < p[2]}
<1>1. IsWellFoundedOn(R, Nat)
  BY NatLessThanWellFounded, Below
<1> HIDE DEF R
<1>2. PICK x \in S : \A y \in S : ~ (<<y, x>> \in R)
  BY <1>1, WFMin
<1>3. ASSUME NEW y \in S PROVE x <= y
  <2>1. x \in Nat /\ y \in Nat /\ <<y, x>> \notin R
    BY <1>2
  <2> QED BY <2>1 DEF R
<1> QED BY <1>3 DEF Min

\* The entry with a messageId.
LEMMA FindIdIs ==
  ASSUME NEW id \in Nat, store \in Seq(Entries)
  PROVE  LET i == Find(LAMBDA e : e.id = id) IN
         /\ i = 0 \/ (i \in 1..Len(store) /\ store[i].id = id)
         /\ i = 0 => \A j \in 1..Len(store) : store[j].id # id
<1> DEFINE I == {j \in 1..Len(store) : store[j].id = id}
<1>1. Find(LAMBDA e : e.id = id) = IF I # {} THEN Min(I) ELSE 0
  BY DEF Find, SelectInSeq
<1>2. Len(store) \in Nat
  BY LenProperties
<1>3. I # {} => Min(I) \in I
  <2>1. I \in SUBSET Nat
    BY <1>2
  <2> HIDE DEF I
  <2> QED BY <2>1, MinIs
<1> QED BY <1>1, <1>2, <1>3

\* What outgoingClearMessageId removes, if anything.
LEMMA ClearedIs ==
  ASSUME NEW id \in Nat, store \in Seq(Entries)
  PROVE  \/ Cleared(id) = store
         \/ \E i \in 1..Len(store) : store[i].id = id /\ Cleared(id) = RemoveAt(store, i)
<1> DEFINE i == Find(LAMBDA e : e.id = id)
<1>1. i = 0 \/ (i \in 1..Len(store) /\ store[i].id = id)
  BY FindIdIs
<1>2. Cleared(id) = IF i = 0 THEN store ELSE RemoveAt(store, i)
  BY DEF Cleared
<1> HIDE DEF i
<1> QED BY <1>1, <1>2

\* What outgoingUpdate replaces.
LEMMA PlaceIs ==
  ASSUME NEW e \in Entries, store \in Seq(Entries)
  PROVE  LET i == Place(e) IN
         \/ i = 0
         \/ i \in 1..Len(store) /\ e.cmd = "publish" /\ store[i].cmd = "publish" /\ store[i].msg = e.msg
         \/ /\ i \in 1..Len(store) /\ store[i].id = e.id
            /\ e.cmd = "pubrel" \/ store[i].cmd = "pubrel"
<1> DEFINE I == {j \in 1..Len(store) : e.cmd = "publish" /\ store[j].cmd = "publish" /\ store[j].msg = e.msg}
           J == {j \in 1..Len(store) : store[j].id = e.id /\ (e.cmd = "pubrel" \/ store[j].cmd = "pubrel")}
           k == IF I # {} THEN Min(I) ELSE 0
           l == IF J # {} THEN Min(J) ELSE 0
<1>1. Place(e) = IF k # 0 THEN k ELSE l
  BY DEF Place, Find, SelectInSeq
<1>2. Len(store) \in Nat
  BY LenProperties
<1>3. (I # {} => Min(I) \in I) /\ (J # {} => Min(J) \in J)
  <2>1. I \in SUBSET Nat /\ J \in SUBSET Nat
    BY <1>2
  <2> HIDE DEF I, J
  <2>2. I # {} => Min(I) \in I
    BY <2>1, MinIs
  <2>3. J # {} => Min(J) \in J
    BY <2>1, MinIs
  <2> QED BY <2>2, <2>3
<1> QED BY <1>1, <1>2, <1>3

-----------------------------------------------------------------------------
(***************************************************************************)
(* Types.                                                                  *)
(***************************************************************************)
SentPackets == [cmd : {"publish", "pubrel"}, msg : Msgs, id : Ids]
Unsent == [cmd : {"publish"}, msg : Msgs, id : {0}]
Forwards == [conn : Conns, by : {"live", "refused", "repeated"}, entry : Unsent]
              \cup [conn : Conns, by : {"clearing"}, entry : SentPackets]
Replies == [conn : Conns, by : {"live", "stream", "pubrec"}, entry : SentPackets]

\* The types of what the broker's handlers change, one by one.
BrokerTypes ==
  /\ queued \in 0..MaxMsgs /\ emitted \in 0..queued
  /\ store \in Seq(Entries) /\ queue \in [Conns -> Seq(Entries)]
  /\ toClient \in Seq(SentPackets)
  /\ forwards \subseteq Forwards /\ replies \subseteq Replies /\ acks \subseteq Acks
  /\ phase \in {"down", "new", "subscribed", "open"}
  /\ phase = "down" => toClient = <<>>
  /\ phase # "down" => conn \in Conns
  /\ \A r \in replies : Refused(r.entry) \/ Current(r.conn)
  /\ \A f \in forwards : f.by = "clearing" => Refused(f.entry)

\* The types of the client, and of what a handler never changes.
ClientTypes ==
  /\ held \subseteq Ids /\ accepted \in [Msgs -> Nat]
  /\ conn \in 0..MaxConns
  /\ nextId \in Ids /\ forbidden \subseteq Doubtful
  /\ causes \subseteq {"collision", "renamed", "stale", "wrong"}

Typed == BrokerTypes /\ ClientTypes

\* What the constants say.
LEMMA ConstantsAre ==
  /\ MaxMsgs \in Nat /\ MaxConns \in Nat /\ MaxId \in Nat /\ MaxId > 0 /\ 1 \in Ids
  /\ \A x \in Ids : x \in Nat /\ x # 0
  /\ \A x \in Msgs : x \in Nat /\ x # 0
  /\ FirstIds \subseteq Ids /\ LaterIds \subseteq Ids
BY OutgoingAssumption DEF Ids, Msgs

\* A packet on the way is an entry with a messageId.
LEMMA SentAreEntries ==
  /\ \A e : e \in SentPackets <=> e \in Entries /\ e.id \in Ids
  /\ SentPackets \subseteq Entries /\ Unsent \subseteq Entries
  /\ \A f \in Forwards : f.conn \in Conns /\ f.entry \in Entries
<1>1. Ids \subseteq 0..MaxId /\ 0 \in 0..MaxId
  BY ConstantsAre DEF Ids
<1>2. /\ \A e : e \in SentPackets <=> e \in Entries /\ e.id \in Ids
      /\ SentPackets \subseteq Entries /\ Unsent \subseteq Entries
  BY <1>1 DEF SentPackets, Unsent, Entries
<1>3. \A f \in Forwards : f.conn \in Conns /\ (f.entry \in Unsent \/ f.entry \in SentPackets)
  BY DEF Forwards
<1> QED BY <1>2, <1>3

\* They are all.
LEMMA TypedIsTypeOK == Typed => TypeOK
<1>1. /\ Forwards \subseteq [conn : Conns, by : {"live"} \cup Clearings, entry : Entries]
      /\ Replies \subseteq [conn : Conns, by : {"live", "stream", "pubrec"}, entry : Entries]
  BY SentAreEntries DEF Forwards, Replies, Clearings
<1> QED BY <1>1 DEF Typed, TypeOK, BrokerTypes, ClientTypes, SentPackets

\* The empty sequence.
LEMMA NothingIsSeq == \A S : <<>> \in Seq(S)
BY EmptySeq

\* The messages and packets have their types at first.
LEMMA InitType == Init => Typed
<1> SUFFICES ASSUME Init PROVE BrokerTypes /\ ClientTypes
  BY DEF Typed
<1>1. BrokerTypes
  <2>1. /\ queued = 0 /\ emitted = 0 /\ store = <<>> /\ toClient = <<>> /\ phase = "down"
        /\ forwards = {} /\ replies = {} /\ acks = {} /\ queue = [c \in Conns |-> <<>>]
    BY DEF Init
  <2>2. queue \in [Conns -> Seq(Entries)]
    BY <2>1, NothingIsSeq
  <2> QED BY <2>1, <2>2, NothingIsSeq, ConstantsAre DEF BrokerTypes
<1>2. ClientTypes
  BY ConstantsAre DEF Init, ClientTypes
<1> QED BY <1>1, <1>2

\* The steps of the client and of the network.
LEMMA ClientType ==
  ASSUME Typed, (Connect \/ Receive \/ Lose) /\ UNCHANGED forbidden
  PROVE  Typed'
<1>0. BrokerTypes /\ ClientTypes
  BY DEF Typed
<1>1. CASE Connect
  <2>1. /\ phase = "down" /\ phase' = "new" /\ conn' = conn + 1 /\ conn < MaxConns
        /\ nextId' \in IF conn = 0 THEN FirstIds ELSE LaterIds
        /\ UNCHANGED <<held, accepted, toClient, acks, queued, emitted, store, queue, forwards,
                       replies, causes, forbidden>>
    BY <1>1 DEF Connect, client, topics, chains
  <2>2. conn' \in Conns /\ conn' \in 0..MaxConns
    BY <1>0, <2>1, ConstantsAre DEF ClientTypes, Conns
  <2>3. (\A r \in replies : Refused(r.entry)) /\ (\A e : Refused(e)' <=> Refused(e))
    BY <1>0, <2>1 DEF BrokerTypes, Current, Refused
  <2>4. BrokerTypes'
    BY <1>0, <2>1, <2>2, <2>3 DEF BrokerTypes
  <2>5. ClientTypes'
    BY <1>0, <2>1, <2>2, ConstantsAre DEF ClientTypes
  <2> QED BY <2>4, <2>5 DEF Typed
<1>2. CASE Lose
  <2>1. /\ phase' = "down" /\ toClient' = <<>> /\ acks' \subseteq acks
        /\ replies' = {r \in replies : Refused(r.entry)}
        /\ UNCHANGED <<held, accepted, conn, queued, emitted, store, queue, forwards,
                       nextId, causes, forbidden>>
    BY <1>2 DEF Lose, Closed, client, topics
  <2>2. \A e : Refused(e)' <=> Refused(e)
    BY <2>1 DEF Refused
  <2>3. BrokerTypes'
    BY <1>0, <2>1, <2>2, NothingIsSeq DEF BrokerTypes
  <2>4. ClientTypes'
    BY <1>0, <2>1 DEF ClientTypes
  <2> QED BY <2>3, <2>4 DEF Typed
<1>3. CASE Receive
  <2> DEFINE p == Head(toClient)
             cmd == IF p.cmd = "pubrel" THEN "pubcomp" ELSE IF p.msg \in QoS2 THEN "pubrec" ELSE "puback"
  <2>1. toClient # <<>> /\ toClient \in Seq(SentPackets)
    BY <1>0, <1>3 DEF Receive, BrokerTypes
  <2>2. p \in SentPackets /\ Tail(toClient) \in Seq(SentPackets)
    BY <2>1, TailIs
  <2>3. p.msg \in Msgs /\ p.id \in Ids
    BY <2>2 DEF SentPackets
  <2>4. /\ acks' = acks \cup {[conn |-> conn, id |-> p.id, cmd |-> cmd]}
        /\ held' \subseteq held \cup {p.id}
        /\ accepted' \in {accepted, [accepted EXCEPT ![p.msg] = @ + 1]}
        /\ toClient' = Tail(toClient)
        /\ UNCHANGED <<conn, phase, queued, emitted, store, queue, forwards, replies,
                       nextId, causes, forbidden>>
    BY <1>3 DEF Receive, topics, chains
  <2>5. phase # "down" /\ conn \in Conns
    BY <1>0, <2>1 DEF BrokerTypes
  <2>6. acks' \subseteq Acks
    <3>1. cmd \in {"puback", "pubrec", "pubcomp"}
      OBVIOUS
    <3> HIDE DEF cmd, p
    <3>2. [conn |-> conn, id |-> p.id, cmd |-> cmd] \in Acks
      BY <2>3, <2>5, <3>1 DEF Acks
    <3> QED BY <1>0, <2>4, <3>2 DEF BrokerTypes
  <2> HIDE DEF p, cmd
  <2>7. (\A e : Refused(e)' <=> Refused(e)) /\ (\A c : Current(c)' <=> Current(c))
    BY <2>4 DEF Refused, Current
  <2>8. BrokerTypes'
    BY <1>0, <2>2, <2>4, <2>5, <2>6, <2>7 DEF BrokerTypes
  <2>9. held' \subseteq Ids /\ accepted' \in [Msgs -> Nat]
    BY <1>0, <2>3, <2>4 DEF ClientTypes
  <2>10. ClientTypes'
    BY <1>0, <2>4, <2>9 DEF ClientTypes
  <2> QED BY <2>8, <2>10 DEF Typed
<1> QED BY <1>1, <1>2, <1>3

\* The steps about new messages, and what is read from the store.
LEMMA StreamType ==
  ASSUME Typed, (Enqueue \/ Emit \/ RestoreSubs \/ EmptyQueue) /\ UNCHANGED forbidden
  PROVE  Typed'
<1>0. BrokerTypes /\ ClientTypes /\ (\A e : Refused(e)' <=> Refused(e))
  BY DEF Typed, Refused
<1>1. CASE Enqueue
  <2>1. /\ queued < MaxMsgs /\ queued' = queued + 1
        /\ store' = Append(store, [cmd |-> "publish", msg |-> queued + 1, id |-> 0])
        /\ UNCHANGED <<held, accepted, conn, phase, toClient, acks, emitted, queue, forwards,
                       replies, nextId, causes, forbidden>>
    BY <1>1 DEF Enqueue, client, chains
  <2>2. queued + 1 \in Msgs /\ queued' \in 0..MaxMsgs /\ emitted' \in 0..queued'
    BY <1>0, <2>1, ConstantsAre DEF BrokerTypes, Msgs
  <2>3. [cmd |-> "publish", msg |-> queued + 1, id |-> 0] \in Entries
    BY <2>2, ConstantsAre DEF Entries
  <2>4. store' \in Seq(Entries)
    BY <1>0, <2>1, <2>3, AppendProperties DEF BrokerTypes
  <2>5. \A c : Current(c)' <=> Current(c)
    BY <2>1 DEF Current
  <2>6. BrokerTypes'
    BY <1>0, <2>1, <2>2, <2>4, <2>5 DEF BrokerTypes
  <2>7. ClientTypes'
    BY <1>0, <2>1 DEF ClientTypes
  <2> QED BY <2>6, <2>7 DEF Typed
<1>2. CASE Emit
  <2> DEFINE one(by) == [conn |-> conn, by |-> by,
                         entry |-> [cmd |-> "publish", msg |-> emitted + 1, id |-> 0]]
  <2>1. /\ emitted < queued /\ emitted' = emitted + 1
        /\ UNCHANGED <<held, accepted, conn, phase, toClient, acks, queued, store, queue, replies,
                       nextId, causes, forbidden>>
        /\ forwards' \subseteq forwards \cup (IF phase \in {"subscribed", "open"}
                                              THEN {one("live"), one("refused"), one("repeated")} ELSE {})
    BY <1>2 DEF Emit, client
  <2>2. emitted + 1 \in Msgs /\ emitted' \in 0..queued'
    BY <1>0, <2>1, ConstantsAre DEF BrokerTypes, Msgs
  <2>3. [cmd |-> "publish", msg |-> emitted + 1, id |-> 0] \in Unsent
    BY <2>2 DEF Unsent
  <2>4. phase \in {"subscribed", "open"} =>
          \A f \in {one("live"), one("refused"), one("repeated")} : f \in Forwards /\ f.by # "clearing"
    BY <1>0, <2>3 DEF BrokerTypes, Forwards
  <2> HIDE DEF one
  <2>5. \A f \in forwards' : f \in forwards \/ (f \in Forwards /\ f.by # "clearing")
    BY <2>1, <2>4
  <2>6. \A c : Current(c)' <=> Current(c)
    BY <2>1 DEF Current
  <2>7. BrokerTypes'
    BY <1>0, <2>1, <2>2, <2>5, <2>6 DEF BrokerTypes
  <2>8. ClientTypes'
    BY <1>0, <2>1 DEF ClientTypes
  <2> QED BY <2>7, <2>8 DEF Typed
<1>3. CASE RestoreSubs \/ EmptyQueue
  <2>1. /\ UNCHANGED <<held, accepted, conn, toClient, acks, queued, emitted, store, forwards, replies,
                       nextId, causes, forbidden>>
        /\ phase # "down" /\ phase' \in {"subscribed", "open"}
        /\ queue' \in {queue, [queue EXCEPT ![conn] = store]}
    BY <1>3 DEF RestoreSubs, EmptyQueue, client, topics, chains
  <2>2. queue' \in [Conns -> Seq(Entries)]
    BY <1>0, <2>1 DEF BrokerTypes
  <2>3. \A c : Current(c)' <=> Current(c)
    BY <2>1 DEF Current
  <2>4. BrokerTypes'
    BY <1>0, <2>1, <2>2, <2>3 DEF BrokerTypes
  <2>5. ClientTypes'
    BY <1>0, <2>1 DEF ClientTypes
  <2> QED BY <2>4, <2>5 DEF Typed
<1> QED BY <1>1, <1>2, <1>3

\* The persistence has answered.
LEMMA AnswerType ==
  ASSUME Typed, NEW r \in replies, Answer(r), UNCHANGED forbidden
  PROVE  Typed'
<1>0. BrokerTypes /\ ClientTypes /\ (\A e : Refused(e)' <=> Refused(e))
  BY DEF Typed, Refused
<1>1. /\ replies' = replies \ {r}
      /\ UNCHANGED <<held, accepted, conn, phase, acks, queued, emitted, store, queue, nextId, forbidden>>
      /\ \/ /\ Refused(r.entry) /\ forwards' = forwards \cup {[r EXCEPT !.by = "clearing"]}
            /\ UNCHANGED <<toClient, causes>>
         \/ /\ ~Refused(r.entry) /\ toClient' = Append(toClient, r.entry)
            /\ causes' \in {causes, causes \cup {"stale"}} /\ UNCHANGED forwards
  BY DEF Answer, client, topics
<1>2. r \in Replies /\ r.entry \in SentPackets /\ r.conn \in Conns /\ toClient \in Seq(SentPackets)
  BY <1>0 DEF BrokerTypes, Replies
<1>3. \A c : Current(c)' <=> Current(c)
  BY <1>1 DEF Current
<1>4. CASE /\ Refused(r.entry) /\ forwards' = forwards \cup {[r EXCEPT !.by = "clearing"]}
           /\ UNCHANGED <<toClient, causes>>
  <2> DEFINE g == [r EXCEPT !.by = "clearing"]
  <2>1. g \in Forwards /\ g.entry = r.entry
    BY <1>2 DEF Replies, Forwards
  <2> HIDE DEF g
  <2>2. forwards' = forwards \cup {g}
    BY <1>4 DEF g
  <2>3. BrokerTypes'
    BY <1>0, <1>1, <1>3, <1>4, <2>1, <2>2 DEF BrokerTypes
  <2>4. ClientTypes'
    BY <1>0, <1>1, <1>4 DEF ClientTypes
  <2> QED BY <2>3, <2>4 DEF Typed
<1>5. CASE /\ ~Refused(r.entry) /\ toClient' = Append(toClient, r.entry)
           /\ causes' \in {causes, causes \cup {"stale"}} /\ UNCHANGED forwards
  <2>1. Append(toClient, r.entry) \in Seq(SentPackets)
    BY <1>2, AppendProperties
  <2>2. phase # "down"
    BY <1>0, <1>5 DEF BrokerTypes, Current
  <2>3. BrokerTypes'
    BY <1>0, <1>1, <1>3, <1>5, <2>1, <2>2 DEF BrokerTypes
  <2>4. ClientTypes'
    BY <1>0, <1>1, <1>5 DEF ClientTypes
  <2> QED BY <2>3, <2>4 DEF Typed
<1> QED BY <1>1, <1>4, <1>5

-----------------------------------------------------------------------------
(***************************************************************************)
(* What the broker's handlers do with the store: they fail, they clear an  *)
(* entry, or they replace one, and then wait for the answer.               *)
(***************************************************************************)
Queued == UNION {ToSet(queue[c]) : c \in Conns}
Pending == Queued \cup {f.entry : f \in forwards}

\* What they all leave, and what they only take from.
Frame ==
  /\ UNCHANGED <<held, accepted, conn, queued, emitted, forbidden>>
  /\ forwards' \subseteq forwards /\ acks' \subseteq acks /\ nextId' \in Ids
  /\ queue' \in [Conns -> Seq(Entries)] /\ Queued' \subseteq Queued
  /\ causes \subseteq causes' /\ causes' \subseteq {"collision", "renamed", "stale", "wrong"}

Fails ==
  /\ store' = store
  /\ \/ UNCHANGED <<toClient, replies, phase>>
     \/ phase' = "down" /\ toClient' = <<>> /\ replies' = {r \in replies : Refused(r.entry)}

Clears(i) ==
  /\ i \in 1..Len(store) /\ store' = RemoveAt(store, i)
  /\ UNCHANGED <<toClient, replies, phase>>

Replaces(i, w) ==
  /\ i \in 1..Len(store) /\ w \in Replies
  /\ store' = [store EXCEPT ![i] = w.entry]
  /\ replies' = Waits(w) /\ UNCHANGED <<toClient, phase>>

\* outgoingUpdate, for the entry x, which is given the messageId of w.
Updates(x, w) ==
  /\ w.entry.cmd = x.cmd /\ w.entry.msg = x.msg
  /\ x.id # 0 => w.entry.id = x.id
  /\ Replaces(Place(w.entry), w)
  /\ x.id = 0 /\ w.entry.id \in Used(x.msg) => "collision" \in causes'
  /\ store[Place(w.entry)].id \notin {0, w.entry.id} => "renamed" \in causes'
  /\ store[Place(w.entry)].cmd # x.cmd => "stale" \in causes'

\* A handler that fails.
LEMMA FailIs ==
  ASSUME NEW c, Fail(c), UNCHANGED store
  PROVE  Fails
BY DEF Fail, Closed, Fails

\* The queues that are not touched, or shorter by their first entries.
LEMMA QueueIs ==
  ASSUME Typed, NEW c \in Conns,
         \/ queue' = queue
         \/ queue' = [queue EXCEPT ![c] = <<>>]
         \/ queue[c] # <<>> /\ queue' = [queue EXCEPT ![c] = Tail(@)]
  PROVE  queue' \in [Conns -> Seq(Entries)] /\ Queued' \subseteq Queued
<1>1. queue \in [Conns -> Seq(Entries)]
  BY DEF Typed, BrokerTypes
<1>2. CASE queue' = queue
  BY <1>1, <1>2 DEF Queued
<1>3. CASE queue' = [queue EXCEPT ![c] = <<>>]
  <2>1. queue' \in [Conns -> Seq(Entries)]
    BY <1>1, <1>3, NothingIsSeq
  <2>2. ASSUME NEW d \in Conns PROVE ToSet(queue'[d]) \subseteq ToSet(queue[d])
    <3>1. queue'[d] = IF d = c THEN <<>> ELSE queue[d]
      BY <1>1, <1>3
    <3> QED BY <3>1, NothingSet
  <2> QED BY <2>1, <2>2 DEF Queued
<1>4. CASE queue[c] # <<>> /\ queue' = [queue EXCEPT ![c] = Tail(@)]
  <2>1. Tail(queue[c]) \in Seq(Entries) /\ ToSet(queue[c]) = {Head(queue[c])} \cup ToSet(Tail(queue[c]))
    BY <1>1, <1>4, TailIs
  <2>2. queue' \in [Conns -> Seq(Entries)]
    BY <1>1, <1>4, <2>1
  <2>3. ASSUME NEW d \in Conns PROVE ToSet(queue'[d]) \subseteq ToSet(queue[d])
    <3>1. queue'[d] = IF d = c THEN Tail(queue[c]) ELSE queue[d]
      BY <1>1, <1>4
    <3> QED BY <2>1, <3>1
  <2> QED BY <2>2, <2>3 DEF Queued
<1> QED BY <1>2, <1>3, <1>4

\* The next messageId.
LEMMA SuccType == \A i \in Ids : Succ(i) \in Ids
<1> SUFFICES ASSUME NEW i \in Ids PROVE Succ(i) \in Ids
  OBVIOUS
<1>1. i \in 1..MaxId /\ MaxId \in Nat
  BY ConstantsAre DEF Ids
<1> QED BY <1>1, ConstantsAre DEF Succ, Ids

\* outgoingUpdate, as deliverQoS and emptyQueue call it.
LEMMA UpdateIs ==
  ASSUME Typed, NEW c \in Conns, NEW by \in {"live", "stream"}, NEW x \in Entries,
         Update([conn |-> c, by |-> by, entry |-> x]), UNCHANGED <<phase, toClient>>
  PROVE  /\ nextId' \in Ids
         /\ causes \subseteq causes' /\ causes' \subseteq {"collision", "renamed", "stale", "wrong"}
         /\ \E w : Updates(x, w)
<1> DEFINE u == [conn |-> c, by |-> by, entry |-> x]
<1>0. nextId \in Ids /\ store \in Seq(Entries) /\ causes \subseteq {"collision", "renamed", "stale", "wrong"}
  BY DEF Typed, BrokerTypes, ClientTypes
<1>1. PICK id \in IF u.entry.id # 0 THEN {u.entry.id} ELSE IF u.conn = conn THEN {nextId} ELSE Ids :
       LET e == [u.entry EXCEPT !.id = id]
           i == Place(e)
           new == u.entry.id = 0
       IN /\ i # 0 /\ store' = [store EXCEPT ![i] = e]
          /\ replies' = Waits([u EXCEPT !.entry = e])
          /\ nextId' = IF new /\ u.conn = conn THEN Succ(nextId) ELSE nextId
          /\ causes' = causes
               \cup (IF new /\ id \in Used(e.msg) THEN {"collision"} ELSE {})
               \cup (IF store[i].id \notin {0, id} THEN {"renamed"} ELSE {})
               \cup (IF store[i].cmd # e.cmd THEN {"stale"} ELSE {})
  BY DEF Update
<1> DEFINE e == [x EXCEPT !.id = id]
           i == Place(e)
           w == [u EXCEPT !.entry = e]
<1>2. id \in Ids /\ (x.id # 0 => id = x.id)
  <2>1. x.id \in 0..MaxId
    BY DEF Entries
  <2>2. x.id # 0 => x.id \in Ids
    BY <2>1, ConstantsAre DEF Ids
  <2> QED BY <1>0, <1>1, <2>2
<1>3. /\ e \in SentPackets /\ e.cmd = x.cmd /\ e.msg = x.msg /\ e.id = id
      /\ w = [conn |-> c, by |-> by, entry |-> e]
  BY <1>2 DEF Entries, SentPackets
<1>4. /\ i # 0 /\ store' = [store EXCEPT ![i] = e]
      /\ replies' = Waits(w)
      /\ nextId' \in {nextId, Succ(nextId)}
      /\ causes' = causes
           \cup (IF x.id = 0 /\ id \in Used(e.msg) THEN {"collision"} ELSE {})
           \cup (IF store[i].id \notin {0, id} THEN {"renamed"} ELSE {})
           \cup (IF store[i].cmd # e.cmd THEN {"stale"} ELSE {})
  BY <1>1
<1> HIDE DEF e, i, u
<1>5. nextId' \in Ids
  BY <1>0, <1>4, SuccType
<1>6. i \in 1..Len(store)
  <2>1. e \in Entries
    BY <1>3, SentAreEntries
  <2> QED BY <1>0, <1>4, <2>1, PlaceIs DEF i
<1> HIDE DEF w
<1>7. w \in Replies /\ w.entry = e
  BY <1>3 DEF Replies
<1>8. Replaces(Place(w.entry), w)
  BY <1>4, <1>6, <1>7 DEF Replaces, i
<1>9. Updates(x, w)
  BY <1>2, <1>3, <1>4, <1>7, <1>8 DEF Updates, i
<1> QED BY <1>0, <1>4, <1>5, <1>9

\* An update that fails.
LEMMA UpdateFailsIs ==
  ASSUME Typed, NEW c, NEW e, UpdateFails(c, e)
  PROVE  Fails /\ causes' = causes /\ nextId' \in Ids
<1>1. nextId \in Ids
  BY DEF Typed, ClientTypes
<1> QED BY <1>1, SuccType, FailIs DEF UpdateFails

\* deliverQoS.
LEMMA ForwardIs ==
  ASSUME Typed, NEW f \in forwards, Forward(f), UNCHANGED forbidden
  PROVE  Frame /\ (Fails \/ \E x \in Pending : \E w : Updates(x, w))
<1>1. /\ f.by = "live" /\ forwards' = forwards \ {f}
      /\ UNCHANGED <<held, accepted, conn, acks, queued, emitted, queue>>
      /\ (Update(f) /\ UNCHANGED <<phase, toClient>>) \/ UpdateFails(f.conn, f.entry)
  BY DEF Forward, client, topics
<1>2. f \in Forwards /\ f.conn \in Conns /\ f.entry \in Entries /\ f.entry \in Pending
  BY SentAreEntries DEF Typed, BrokerTypes, Pending
<1>3. f = [conn |-> f.conn, by |-> "live", entry |-> f.entry]
  BY <1>1, <1>2 DEF Forwards
<1>4. /\ nextId' \in Ids
      /\ causes \subseteq causes' /\ causes' \subseteq {"collision", "renamed", "stale", "wrong"}
      /\ Fails \/ \E w : Updates(f.entry, w)
  <2>1. CASE Update(f) /\ UNCHANGED <<phase, toClient>>
    BY <1>2, <1>3, <2>1, UpdateIs
  <2>2. CASE UpdateFails(f.conn, f.entry)
    BY <2>2, UpdateFailsIs DEF Typed, ClientTypes
  <2> QED BY <1>1, <2>1, <2>2
<1>5. queue' \in [Conns -> Seq(Entries)] /\ Queued' \subseteq Queued
  BY <1>1, <1>2, QueueIs
<1> QED BY <1>1, <1>2, <1>4, <1>5 DEF Frame

\* emptyQueue.
LEMMA StreamNextIs ==
  ASSUME Typed, NEW c \in Conns, StreamNext(c), UNCHANGED forbidden
  PROVE  Frame /\ (Fails \/ \E x \in Pending : \E w : Updates(x, w))
<1> DEFINE h == Head(queue[c])
<1>1. /\ queue[c] # <<>> /\ UNCHANGED <<held, accepted, conn, acks, queued, emitted, forwards>>
      /\ \/ /\ queue' = [queue EXCEPT ![c] = Tail(@)]
            /\ \/ Update([conn |-> c, by |-> "stream", entry |-> h]) /\ UNCHANGED <<phase, toClient>>
               \/ UpdateFails(c, h)
         \/ /\ queue' = [queue EXCEPT ![c] = <<>>] /\ Fail(c) /\ UNCHANGED <<store, nextId, causes>>
  BY DEF StreamNext, client, topics
<1>2. queue[c] \in Seq(Entries) /\ nextId \in Ids /\ causes \subseteq {"collision", "renamed", "stale", "wrong"}
  BY DEF Typed, BrokerTypes, ClientTypes
<1>3. h \in Entries /\ h \in ToSet(queue[c])
  BY <1>1, <1>2, TailIs
<1>4. h \in Pending
  BY <1>3 DEF Pending, Queued
<1> HIDE DEF h
<1>5. /\ nextId' \in Ids
      /\ causes \subseteq causes' /\ causes' \subseteq {"collision", "renamed", "stale", "wrong"}
      /\ Fails \/ \E w : Updates(h, w)
  <2>1. CASE Update([conn |-> c, by |-> "stream", entry |-> h]) /\ UNCHANGED <<phase, toClient>>
    BY <1>3, <2>1, UpdateIs
  <2>2. CASE UpdateFails(c, h)
    BY <1>2, <2>2, UpdateFailsIs
  <2>3. CASE Fail(c) /\ UNCHANGED <<store, nextId, causes>>
    BY <1>2, <2>3, FailIs
  <2> QED BY <1>1, <2>1, <2>2, <2>3
<1>6. queue' \in [Conns -> Seq(Entries)] /\ Queued' \subseteq Queued
  BY <1>1, QueueIs
<1> QED BY <1>1, <1>4, <1>5, <1>6 DEF Frame

\* handlePuback.
LEMMA PubackIs ==
  ASSUME Typed, NEW a \in acks, Puback(a), UNCHANGED forbidden
  PROVE  /\ Frame /\ a.cmd \in {"puback", "pubcomp"}
         /\ Fails \/ \E i \in 1..Len(store) : store[i].id = a.id /\ Clears(i)
<1>0. /\ a.id \in Nat /\ a.conn \in Conns /\ store \in Seq(Entries) /\ nextId \in Ids
      /\ causes \subseteq {"collision", "renamed", "stale", "wrong"}
  BY ConstantsAre DEF Typed, BrokerTypes, ClientTypes, Acks
<1>1. /\ UNCHANGED <<held, accepted, conn, queued, emitted, queue, forwards, nextId, causes>>
      /\ acks' = acks \ {a} /\ a.cmd \in {"puback", "pubcomp"}
      /\ \/ Fail(a.conn) /\ UNCHANGED store
         \/ store' = Cleared(a.id) /\ UNCHANGED <<phase, toClient, replies>>
  BY DEF Puback, client, topics
<1>2. Frame
  BY <1>0, <1>1, QueueIs DEF Frame
<1>3. CASE Fail(a.conn) /\ UNCHANGED store
  BY <1>1, <1>2, <1>3, FailIs
<1>4. CASE store' = Cleared(a.id) /\ UNCHANGED <<phase, toClient, replies>>
  <2>1. \/ Cleared(a.id) = store
        \/ \E i \in 1..Len(store) : store[i].id = a.id /\ Cleared(a.id) = RemoveAt(store, i)
    BY <1>0, ClearedIs
  <2>2. CASE store' = store
    BY <1>1, <1>2, <1>4, <2>2 DEF Fails
  <2>3. ASSUME NEW i \in 1..Len(store), store[i].id = a.id, store' = RemoveAt(store, i)
        PROVE  store[i].id = a.id /\ Clears(i)
    BY <1>4, <2>3 DEF Clears
  <2> QED BY <1>1, <1>2, <1>4, <2>1, <2>2, <2>3
<1> QED BY <1>1, <1>3, <1>4

\* handlePubrec.
LEMMA PubrecIs ==
  ASSUME Typed, NEW a \in acks, Pubrec(a), UNCHANGED forbidden
  PROVE  /\ Frame /\ a.cmd = "pubrec"
         /\ Fails \/ \E i \in 1..Len(store) : store[i].id = a.id /\ Replaces(i, PubrelFor(a, i))
<1>0. /\ a.id \in Nat /\ a.id \in Ids /\ a.conn \in Conns /\ store \in Seq(Entries) /\ nextId \in Ids
      /\ causes \subseteq {"collision", "renamed", "stale", "wrong"}
  BY ConstantsAre DEF Typed, BrokerTypes, ClientTypes, Acks
<1> DEFINE k == Find(LAMBDA e : e.id = a.id)
<1>1. /\ UNCHANGED <<held, accepted, conn, queued, emitted, queue, forwards, nextId, causes>>
      /\ acks' = acks \ {a} /\ a.cmd = "pubrec"
      /\ \/ Fail(a.conn) /\ UNCHANGED store
         \/ /\ k # 0 /\ store' = [store EXCEPT ![k] = PubrelFor(a, k).entry]
            /\ replies' = Waits(PubrelFor(a, k)) /\ UNCHANGED <<phase, toClient>>
  BY DEF Pubrec, client, topics
<1>2. k = 0 \/ (k \in 1..Len(store) /\ store[k].id = a.id)
  BY <1>0, FindIdIs
<1> HIDE DEF k
<1>3. Frame
  BY <1>0, <1>1, QueueIs DEF Frame
<1>4. CASE Fail(a.conn) /\ UNCHANGED store
  BY <1>1, <1>3, <1>4, FailIs
<1>5. CASE /\ k # 0 /\ store' = [store EXCEPT ![k] = PubrelFor(a, k).entry]
           /\ replies' = Waits(PubrelFor(a, k)) /\ UNCHANGED <<phase, toClient>>
  <2>1. k \in 1..Len(store) /\ store[k].id = a.id
    BY <1>2, <1>5
  <2>2. store[k] \in Entries
    BY <1>0, <2>1, SetIs
  <2>3. PubrelFor(a, k) \in Replies
    BY <1>0, <2>2 DEF PubrelFor, Replies, Entries, SentPackets
  <2>4. Replaces(k, PubrelFor(a, k))
    BY <1>5, <2>1, <2>3 DEF Replaces
  <2> QED BY <1>1, <1>3, <2>1, <2>4
<1> QED BY <1>1, <1>4, <1>5

\* deliverQoS and emptyQueue when authorizeForward refuses.
LEMMA ClearRefusedIs ==
  ASSUME Typed, NEW f \in forwards, ClearRefused(f), UNCHANGED forbidden
  PROVE  /\ Frame /\ f.entry \in Pending
         /\ f.entry.id # 0 => f.entry.msg \in forbidden
         /\ \/ Fails
            \/ \E i \in 1..Len(store) :
                 /\ store[i].id = f.entry.id /\ Clears(i)
                 /\ f.entry.id = 0 /\ store[i].msg \notin forbidden => "wrong" \in causes'
<1>0. /\ f \in Forwards /\ store \in Seq(Entries) /\ nextId \in Ids
      /\ causes \subseteq {"collision", "renamed", "stale", "wrong"}
      /\ f.by = "clearing" => Refused(f.entry)
  BY DEF Typed, BrokerTypes, ClientTypes
<1>1. /\ UNCHANGED <<held, accepted, conn, queued, emitted, acks, nextId>>
      /\ forwards' = forwards \ {f} /\ f.by \in Clearings
      /\ \/ /\ store' = Cleared(f.entry.id)
            /\ causes' = IF f.entry.id # 0 \/ \A i \in DOMAIN store : store[i].id # 0 \/ store[i].msg \in forbidden
                         THEN causes ELSE causes \cup {"wrong"}
            /\ UNCHANGED <<phase, toClient, replies, queue>>
         \/ UNCHANGED <<phase, toClient, replies, queue, store, causes>>
         \/ /\ queue' = [queue EXCEPT ![f.conn] = <<>>]
            /\ Fail(f.conn) /\ UNCHANGED <<store, causes>>
  BY DEF ClearRefused, client, topics
<1>2. /\ f.conn \in Conns /\ f.entry \in Entries /\ f.entry \in Pending
      /\ f.entry.id # 0 => f.entry.msg \in forbidden
  <2>1. f.conn \in Conns /\ f.entry \in Entries
    BY <1>0, SentAreEntries
  <2>2. f.entry.id # 0 => f.by = "clearing"
    BY <1>0 DEF Forwards, Unsent
  <2> QED BY <1>0, <2>1, <2>2 DEF Pending, Refused
<1>3. f.entry.id \in Nat /\ DOMAIN store = 1..Len(store)
  BY <1>0, <1>2, ConstantsAre, LenProperties DEF Entries
<1>4. causes \subseteq causes' /\ causes' \subseteq causes \cup {"wrong"}
  BY <1>1
<1>5. Frame
  <2>1. queue' = queue \/ queue' = [queue EXCEPT ![f.conn] = <<>>]
    BY <1>1
  <2>2. queue' \in [Conns -> Seq(Entries)] /\ Queued' \subseteq Queued
    BY <1>2, <2>1, QueueIs
  <2> QED BY <1>0, <1>1, <1>4, <2>2 DEF Frame
<1>6. CASE /\ store' = Cleared(f.entry.id)
           /\ causes' = IF f.entry.id # 0 \/ \A i \in DOMAIN store : store[i].id # 0 \/ store[i].msg \in forbidden
                        THEN causes ELSE causes \cup {"wrong"}
           /\ UNCHANGED <<phase, toClient, replies, queue>>
  <2>1. \/ Cleared(f.entry.id) = store
        \/ \E i \in 1..Len(store) : store[i].id = f.entry.id /\ Cleared(f.entry.id) = RemoveAt(store, i)
    BY <1>0, <1>3, ClearedIs
  <2>2. CASE store' = store
    BY <1>2, <1>5, <1>6, <2>2 DEF Fails
  <2>3. ASSUME NEW i \in 1..Len(store), store[i].id = f.entry.id, store' = RemoveAt(store, i)
        PROVE  /\ store[i].id = f.entry.id /\ Clears(i)
               /\ f.entry.id = 0 /\ store[i].msg \notin forbidden => "wrong" \in causes'
    <3>1. Clears(i)
      BY <1>6, <2>3 DEF Clears
    <3>2. f.entry.id = 0 /\ store[i].msg \notin forbidden => "wrong" \in causes'
      BY <1>3, <1>6, <2>3
    <3> QED BY <2>3, <3>1, <3>2
  <2> QED BY <1>2, <1>5, <1>6, <2>1, <2>2, <2>3
<1>7. CASE UNCHANGED <<phase, toClient, replies, queue, store, causes>>
  BY <1>2, <1>5, <1>7 DEF Fails
<1>8. CASE Fail(f.conn) /\ UNCHANGED <<store, causes>>
  BY <1>2, <1>5, <1>8, FailIs
<1> QED BY <1>1, <1>6, <1>7, <1>8

\* The types after any of them.
LEMMA HandlerType ==
  ASSUME Typed, Frame,
         \/ Fails
         \/ \E i \in 1..Len(store) : Clears(i)
         \/ \E i \in 1..Len(store), w \in Replies : Replaces(i, w)
  PROVE  Typed'
<1>0. BrokerTypes /\ ClientTypes /\ (\A e : Refused(e)' <=> Refused(e))
  BY DEF Typed, Refused, Frame
<1>1. ClientTypes'
  BY <1>0 DEF ClientTypes, Frame
<1>2. /\ UNCHANGED <<conn, queued, emitted>> /\ queued \in 0..MaxMsgs /\ emitted \in 0..queued
      /\ forwards' \subseteq forwards /\ forwards \subseteq Forwards /\ acks' \subseteq Acks
      /\ queue' \in [Conns -> Seq(Entries)]
      /\ \A f \in forwards : f.by = "clearing" => Refused(f.entry)
      /\ store \in Seq(Entries) /\ toClient \in Seq(SentPackets) /\ replies \subseteq Replies
      /\ phase \in {"down", "new", "subscribed", "open"}
      /\ phase = "down" => toClient = <<>>
      /\ phase # "down" => conn \in Conns
      /\ \A r \in replies : Refused(r.entry) \/ Current(r.conn)
  BY <1>0 DEF BrokerTypes, Frame
<1>3. CASE Fails
  <2>1. CASE UNCHANGED <<toClient, replies, phase>>
    <3>1. \A c : Current(c)' <=> Current(c)
      BY <1>2, <2>1 DEF Current
    <3>2. BrokerTypes'
      BY <1>0, <1>2, <1>3, <2>1, <3>1 DEF BrokerTypes, Fails
    <3> QED BY <1>1, <3>2 DEF Typed
  <2>2. CASE phase' = "down" /\ toClient' = <<>> /\ replies' = {r \in replies : Refused(r.entry)}
    <3>1. BrokerTypes'
      BY <1>0, <1>2, <1>3, <2>2, NothingIsSeq DEF BrokerTypes, Fails
    <3> QED BY <1>1, <3>1 DEF Typed
  <2> QED BY <1>3, <2>1, <2>2 DEF Fails
<1>4. ASSUME NEW i \in 1..Len(store), Clears(i) PROVE Typed'
  <2>1. store' \in Seq(Entries)
    BY <1>2, <1>4, RemoveIs DEF Clears
  <2>2. \A c : Current(c)' <=> Current(c)
    BY <1>2, <1>4 DEF Current, Clears
  <2>3. BrokerTypes'
    BY <1>0, <1>2, <1>4, <2>1, <2>2 DEF BrokerTypes, Clears
  <2> QED BY <1>1, <2>3 DEF Typed
<1>5. ASSUME NEW i \in 1..Len(store), NEW w \in Replies, Replaces(i, w) PROVE Typed'
  <2>1. store' \in Seq(Entries)
    <3>1. w.entry \in Entries
      BY SentAreEntries DEF Replies
    <3> QED BY <1>2, <1>5, <3>1, ReplaceIs DEF Replaces
  <2>2. \A c : Current(c)' <=> Current(c)
    BY <1>2, <1>5 DEF Current, Replaces
  <2>3. \A r \in replies' : r \in Replies /\ (Refused(r.entry) \/ Current(r.conn))
    BY <1>2, <1>5 DEF Replaces, Waits
  <2>4. BrokerTypes'
    BY <1>0, <1>2, <1>5, <2>1, <2>2, <2>3 DEF BrokerTypes, Replaces
  <2> QED BY <1>1, <2>4 DEF Typed
<1> QED BY <1>3, <1>4, <1>5

\* Every step keeps the types.
LEMMA NextTyped == Typed /\ [Next]_vars => Typed'
<1> SUFFICES ASSUME Typed, [Next]_vars PROVE Typed'
  OBVIOUS
<1>1. CASE Step(Connect) \/ Step(Receive) \/ Step(Lose)
  BY <1>1, ClientType DEF Step
<1>2. CASE Step(Enqueue) \/ Step(Emit \/ RestoreSubs \/ EmptyQueue)
  BY <1>2, StreamType DEF Step
<1>3. ASSUME Frame, Fails \/ \E x, w : Updates(x, w) PROVE Typed'
  <2>1. \A x, w : Updates(x, w) => \E i \in 1..Len(store), v \in Replies : Replaces(i, v)
    BY DEF Updates, Replaces
  <2> QED BY <1>3, <2>1, HandlerType
<1>4. ASSUME NEW c \in Conns, StreamNext(c), UNCHANGED forbidden PROVE Typed'
  BY <1>3, <1>4, StreamNextIs
<1>5. ASSUME NEW f \in forwards, Forward(f), UNCHANGED forbidden PROVE Typed'
  BY <1>3, <1>5, ForwardIs
<1>6. ASSUME NEW f \in forwards, ClearRefused(f), UNCHANGED forbidden PROVE Typed'
  BY <1>6, ClearRefusedIs, HandlerType
<1>7. ASSUME NEW r \in replies, Answer(r), UNCHANGED forbidden PROVE Typed'
  BY <1>7, AnswerType
<1>8. ASSUME NEW a \in acks, Puback(a), UNCHANGED forbidden PROVE Typed'
  BY <1>8, PubackIs, HandlerType
<1>9. ASSUME NEW a \in acks, Pubrec(a), UNCHANGED forbidden PROVE Typed'
  <2>1. \A i : Replaces(i, PubrelFor(a, i)) => PubrelFor(a, i) \in Replies
    BY DEF Replaces
  <2> QED BY <1>9, <2>1, PubrecIs, HandlerType
<1>10. CASE UNCHANGED vars
  <2>1. /\ UNCHANGED <<held, accepted, conn, phase, toClient, acks, queued, emitted, store, queue,
                       forwards, replies, nextId, forbidden, causes>>
    BY <1>10 DEF vars, client, topics, chains
  <2>2. (\A e : Refused(e)' <=> Refused(e)) /\ (\A c : Current(c)' <=> Current(c))
    BY <2>1 DEF Refused, Current
  <2> QED BY <2>1, <2>2 DEF Typed, BrokerTypes, ClientTypes
<1> QED BY <1>1, <1>2, <1>4, <1>5, <1>6, <1>7, <1>8, <1>9, <1>10 DEF Next, Step, Work


-----------------------------------------------------------------------------
(***************************************************************************)
(* The invariant.  It is about the packets of the session, wherever they   *)
(* are, while no messageId has been used twice.                            *)
(***************************************************************************)
Stored == ToSet(store)
Sent == ToSet(toClient)
Waiting == {r.entry : r \in replies}
Packets == Stored \cup Queued \cup Sent \cup Waiting \cup {f.entry : f \in forwards}

\* No entry was given a second messageId, or sent again after its PUBREC.
Clean == causes \cap {"renamed", "stale"} = {}

\* The client does not take this message for another one.
Trusted(m) == m \notin QoS2 \/ Clean

\* What is known of every behaviour.
Numbered ==
  /\ \A i, j \in 1..Len(store) : store[i].msg = store[j].msg => i = j
  /\ \A p \in Packets : p.msg <= queued /\ (p.cmd = "pubrel" => p.id # 0)
  /\ \A m \in Msgs : accepted[m] > 0 => m <= queued
Unique == \A p, q \in Packets : p.id = q.id /\ p.id # 0 => p.msg = q.msg
Acked ==
  \A a \in acks, p \in Packets : p.id = a.id =>
     /\ p.msg \notin forbidden /\ (Trusted(p.msg) => accepted[p.msg] > 0)
     /\ a.cmd = "puback" <=> p.msg \notin QoS2
Released ==
  \A p \in Packets : p.cmd = "pubrel" =>
     p.msg \in QoS2 \ forbidden /\ (Trusted(p.msg) => accepted[p.msg] > 0)
NeverSent ==
  /\ \A p \in Sent : p.msg \notin forbidden
  /\ \A m \in forbidden : accepted[m] = 0
Always == Numbered /\ Unique /\ Acked /\ Released /\ NeverSent

\* What is known while Clean: what the client holds is stored and was taken; an
\* entry without a messageId is on its way with none; PUBREL is the last word
\* on a message; and a message taken once is never under way with another
\* messageId than the one the client holds.
HeldStored ==
  /\ \A h \in held : \E p \in Stored : p.id = h
  /\ \A p \in Sent : p.cmd = "publish" /\ p.msg \in QoS2 => \E q \in Stored : q.id = p.id
HeldTaken == \A p \in Packets : p.id \in held => p.msg \in QoS2 /\ accepted[p.msg] > 0
NotHeld ==
  \A a \in acks :
     /\ a.cmd \in {"puback", "pubcomp"} => a.id \notin held
     /\ a.cmd = "pubcomp" => \A p \in Stored \cup Sent : p.cmd = "publish" => p.id # a.id
Fresh ==
  \A p \in Stored, q \in Packets : p.cmd = "publish" /\ p.id = 0 /\ q.msg = p.msg => q.id = 0
Ordered ==
  /\ \A p \in Sent \cup Waiting, q \in Stored : p.cmd = "pubrel" /\ q.msg = p.msg => q.cmd = "pubrel"
  /\ \A i, j \in 1..Len(toClient) :
        i < j /\ toClient[i].cmd = "pubrel" /\ toClient[j].cmd = "publish"
        => toClient[i].msg # toClient[j].msg
SameId ==
  \A p \in Sent \cup Waiting, q \in Stored \cup Sent \cup Waiting :
     p.cmd = "publish" /\ q.cmd = "publish" /\ p.msg = q.msg => p.id = q.id
Once ==
  \A m \in QoS2 :
     /\ accepted[m] <= 1
     /\ accepted[m] = 1 =>
          \A p \in Stored \cup Sent : p.cmd = "publish" /\ p.msg = m => p.id \in held
WhileClean ==
  HeldStored /\ HeldTaken /\ NotHeld /\ Fresh /\ Ordered /\ SameId /\ Once

Sure == "collision" \notin causes => Always
SureClean == "collision" \notin causes /\ Clean => WhileClean
Inv == Typed /\ Kept /\ ExactlyOnce /\ Sure /\ SureClean

\* What the types say of the packets.
Placed ==
  /\ Stored \subseteq Packets /\ Sent \subseteq Packets /\ Waiting \subseteq Packets
  /\ \A p \in Packets : p.msg \in Msgs /\ p.cmd \in {"publish", "pubrel"}
  /\ \A p \in Sent \cup Waiting : p.id # 0
  /\ \A h \in held : h # 0
  /\ \A a \in acks : a.id # 0
  /\ \A m \in Msgs : accepted[m] \in Nat
  /\ QoS2 \subseteq Msgs /\ forbidden \subseteq Msgs

\* They say it.
LEMMA TypedPlaced == Typed => Placed
<1> SUFFICES ASSUME Typed PROVE Placed
  OBVIOUS
<1>1. /\ store \in Seq(Entries) /\ queue \in [Conns -> Seq(Entries)] /\ toClient \in Seq(SentPackets)
      /\ forwards \subseteq Forwards /\ replies \subseteq Replies /\ acks \subseteq Acks /\ held \subseteq Ids
      /\ accepted \in [Msgs -> Nat] /\ forbidden \subseteq Doubtful
  BY DEF Typed, BrokerTypes, ClientTypes
<1>2. Stored \subseteq Entries /\ Queued \subseteq Entries /\ Sent \subseteq SentPackets /\ Waiting \subseteq SentPackets
  <2>1. \A c \in Conns : ToSet(queue[c]) \subseteq Entries
    BY <1>1, SetIs
  <2> QED BY <1>1, <2>1, SetIs DEF Stored, Sent, Queued, Waiting, Replies
<1>3. Packets \subseteq Entries
  BY <1>1, <1>2, SentAreEntries DEF Packets
<1>4. Stored \subseteq Packets /\ Sent \subseteq Packets /\ Waiting \subseteq Packets
  BY DEF Packets
<1>5. \A p \in Packets : p.msg \in Msgs /\ p.cmd \in {"publish", "pubrel"}
  BY <1>3 DEF Entries
<1>6. \A p \in Sent \cup Waiting : p.id # 0
  BY <1>2, ConstantsAre DEF SentPackets
<1>7. (\A h \in held : h # 0) /\ (\A a \in acks : a.id # 0) /\ (\A m \in Msgs : accepted[m] \in Nat)
  BY <1>1, ConstantsAre DEF Acks
<1> QED BY <1>1, <1>4, <1>5, <1>6, <1>7, OutgoingAssumption DEF Placed

\* What Kept says of the stored packets.
Safe(m) ==
  \/ accepted[m] > 0
  \/ \E p \in Stored : p.cmd = "publish" /\ p.msg = m
  \/ m \in QoS2 /\ ~Clean

AllSafe == "wrong" \notin causes => \A m \in (1..queued) \ forbidden : Safe(m)

\* It is the same.
LEMMA KeptIs == Typed => (Kept <=> AllSafe)
<1> SUFFICES ASSUME Typed PROVE Kept <=> AllSafe
  OBVIOUS
<1>1. store \in Seq(Entries)
  BY DEF Typed, BrokerTypes
<1>2. Stored = {store[i] : i \in 1..Len(store)} /\ DOMAIN store = 1..Len(store)
  BY <1>1, SetIs, LenProperties DEF Stored
<1>3. \A m : (\E i \in DOMAIN store : store[i].cmd = "publish" /\ store[i].msg = m)
             <=> (\E p \in Stored : p.cmd = "publish" /\ p.msg = m)
  BY <1>2
<1> QED BY <1>3 DEF Kept, AllSafe, Safe, Clean

\* What is exact about Once.
LEMMA OnceIsExact == "collision" \notin causes /\ SureClean => ExactlyOnce
BY DEF SureClean, WhileClean, Once, ExactlyOnce, Clean

\* At first there is nothing.
LEMMA InitInv == Init => Inv
<1> SUFFICES ASSUME Init PROVE Inv
  OBVIOUS
<1>1. Typed
  BY InitType
<1>2. /\ Stored = {} /\ Sent = {} /\ Waiting = {} /\ Packets = {} /\ Len(store) = 0 /\ Len(toClient) = 0
      /\ acks = {} /\ held = {} /\ queued = 0 /\ \A m \in Msgs : accepted[m] = 0
  <2>1. ToSet(<<>>) = {} /\ Len(<<>>) = 0
    BY NothingSet
  <2>2. /\ store = <<>> /\ toClient = <<>> /\ forwards = {} /\ replies = {} /\ queue = [c \in Conns |-> <<>>]
        /\ acks = {} /\ held = {} /\ queued = 0 /\ accepted = [m \in Msgs |-> 0]
    BY DEF Init
  <2>3. Queued = {}
    BY <2>1, <2>2 DEF Queued
  <2> QED BY <2>1, <2>2, <2>3 DEF Stored, Sent, Waiting, Packets
<1>3. QoS2 \subseteq Msgs /\ forbidden \subseteq Msgs
  BY <1>1, TypedPlaced DEF Placed
<1>4. Kept /\ ExactlyOnce
  BY <1>2, <1>3 DEF Kept, ExactlyOnce
<1>5. Always
  BY <1>2, <1>3 DEF Always, Numbered, Unique, Acked, Released, NeverSent
<1>6. WhileClean
  BY <1>2, <1>3 DEF WhileClean, HeldStored, HeldTaken, NotHeld, Fresh, Ordered, SameId, Once
<1> QED BY <1>1, <1>4, <1>5, <1>6 DEF Inv, Sure, SureClean

-----------------------------------------------------------------------------
(***************************************************************************)
(* What the steps do with the packets, and that each keeps the invariant.  *)
(***************************************************************************)
\* No step but Receive changes these.
Same == UNCHANGED <<held, accepted, forbidden>> /\ causes \subseteq causes'

\* Fewer things have gone wrong before a step than after it.
LEMMA CleanBefore ==
  ASSUME causes \subseteq causes'
  PROVE  (Clean' => Clean) /\ \A m : (Trusted(m))' => Trusted(m)
<1>1. Clean' => Clean
  BY DEF Clean
<1> QED BY <1>1 DEF Trusted

\* A step that writes nothing and removes nothing from the store: new are only
\* entries on their way without a messageId.
Quiet ==
  /\ Same /\ store' = store /\ queued' = queued /\ acks' \subseteq acks
  /\ toClient' \in {toClient, <<>>} /\ Waiting' \subseteq Waiting
  /\ \A p \in Packets' : p \in Packets \/ (p.cmd = "publish" /\ p.id = 0 /\ p.msg <= queued)

\* The packets under way to the client after it.
LEMMA QuietSent ==
  ASSUME Quiet
  PROVE  /\ Stored' = Stored /\ Sent' \subseteq Sent
         /\ Ordered => Ordered'
<1>1. Stored' = Stored
  BY DEF Quiet, Stored
<1>2. CASE toClient' = toClient
  <2>1. Sent' = Sent /\ Waiting' \subseteq Waiting
    BY <1>2 DEF Sent, Quiet
  <2> QED BY <1>1, <1>2, <2>1 DEF Ordered
<1>3. CASE toClient' = <<>>
  <2>1. Sent' = {} /\ Len(toClient') = 0
    BY <1>3, NothingSet DEF Sent
  <2>2. Waiting' \subseteq Waiting
    BY DEF Quiet
  <2> QED BY <1>1, <2>1, <2>2 DEF Ordered
<1> QED BY <1>1, <1>2, <1>3 DEF Quiet

\* It keeps what is always known.
LEMMA QuietAlways ==
  ASSUME Typed, Typed', Quiet, Always
  PROVE  Always'
<1>0. Placed /\ Placed'
  BY TypedPlaced, PTL
<1>1. /\ UNCHANGED <<held, accepted, forbidden, store, queued>> /\ acks' \subseteq acks
      /\ \A p \in Packets' : p \in Packets \/ (p.cmd = "publish" /\ p.id = 0 /\ p.msg <= queued)
      /\ Stored' = Stored /\ Sent' \subseteq Sent /\ Waiting' \subseteq Waiting
  BY QuietSent DEF Quiet, Same
<1>2. \A m : (Trusted(m))' => Trusted(m)
  BY CleanBefore DEF Quiet, Same
<1>3. Numbered'
  BY <1>1 DEF Always, Numbered
<1>4. Unique'
  BY <1>1 DEF Always, Unique
<1>5. Acked'
  <2>1. \A a \in acks' : a.id # 0
    BY <1>0 DEF Placed
  <2> QED BY <1>1, <1>2, <2>1 DEF Always, Acked
<1>6. Released'
  BY <1>1, <1>2 DEF Always, Released
<1>7. NeverSent'
  BY <1>1 DEF Always, NeverSent
<1> QED BY <1>3, <1>4, <1>5, <1>6, <1>7 DEF Always

\* It keeps what is known while Clean.
LEMMA QuietClean ==
  ASSUME Typed, Typed', Quiet, Always, WhileClean
  PROVE  WhileClean'
<1>0. Placed /\ Placed'
  BY TypedPlaced, PTL
<1>1. /\ UNCHANGED <<held, accepted, forbidden, store, queued>> /\ acks' \subseteq acks
      /\ \A p \in Packets' : p \in Packets \/ (p.cmd = "publish" /\ p.id = 0 /\ p.msg <= queued)
      /\ Stored' = Stored /\ Sent' \subseteq Sent /\ Waiting' \subseteq Waiting
  BY QuietSent DEF Quiet, Same
<1>2. HeldStored'
  BY <1>1 DEF WhileClean, HeldStored
<1>3. HeldTaken'
  <2>1. \A h \in held : h # 0
    BY <1>0 DEF Placed
  <2> QED BY <1>1, <2>1 DEF WhileClean, HeldTaken
<1>4. NotHeld'
  BY <1>1 DEF WhileClean, NotHeld
<1>5. Fresh'
  BY <1>1 DEF WhileClean, Fresh
<1>6. Ordered'
  BY QuietSent DEF WhileClean
<1>7. SameId'
  BY <1>1 DEF WhileClean, SameId
<1>8. Once'
  BY <1>1 DEF WhileClean, Once
<1> QED BY <1>2, <1>3, <1>4, <1>5, <1>6, <1>7, <1>8 DEF WhileClean

\* A step that removes one stored packet, which the client does not hold.
Removed(r) == 
  /\ Same /\ queued' = queued /\ acks' \subseteq acks /\ toClient' = toClient /\ Waiting' \subseteq Waiting
  /\ Packets' \subseteq Packets
  /\ r \in Stored /\ Stored' \subseteq Stored /\ Stored \subseteq Stored' \cup {r}
  /\ \A i, j \in 1..Len(store') : store'[i].msg = store'[j].msg => i = j
  /\ Clean' => r.id \notin held /\ \A p \in Sent : p.cmd = "publish" /\ p.msg \in QoS2 => p.id # r.id

\* It keeps what is always known.
LEMMA RemovedAlways ==
  ASSUME Typed, Typed', NEW r, Removed(r), Always
  PROVE  Always'
<1>1. /\ UNCHANGED <<held, accepted, forbidden, queued, toClient>> /\ acks' \subseteq acks
      /\ Packets' \subseteq Packets /\ Sent' = Sent
      /\ \A i, j \in 1..Len(store') : store'[i].msg = store'[j].msg => i = j
  BY DEF Removed, Same, Sent
<1>2. \A m : (Trusted(m))' => Trusted(m)
  BY CleanBefore DEF Removed, Same
<1>3. Numbered'
  BY <1>1 DEF Always, Numbered
<1>4. Unique'
  BY <1>1 DEF Always, Unique
<1>5. Acked'
  BY <1>1, <1>2 DEF Always, Acked
<1>6. Released'
  BY <1>1, <1>2 DEF Always, Released
<1>7. NeverSent'
  BY <1>1 DEF Always, NeverSent
<1> QED BY <1>3, <1>4, <1>5, <1>6, <1>7 DEF Always

\* It keeps what is known while Clean.
LEMMA RemovedClean ==
  ASSUME Typed, Typed', NEW r, Removed(r), Always, WhileClean, Clean'
  PROVE  WhileClean'
<1>1. /\ UNCHANGED <<held, accepted, forbidden, queued, toClient>> /\ acks' \subseteq acks
      /\ Packets' \subseteq Packets /\ Sent' = Sent /\ Waiting' \subseteq Waiting
      /\ Stored' \subseteq Stored /\ Stored \subseteq Stored' \cup {r}
      /\ r.id \notin held /\ \A p \in Sent : p.cmd = "publish" /\ p.msg \in QoS2 => p.id # r.id
  BY DEF Removed, Same, Sent
<1>2. HeldStored'
  <2>1. ASSUME NEW h \in held' PROVE \E p \in Stored' : p.id = h
    BY <1>1 DEF WhileClean, HeldStored
  <2>2. ASSUME NEW p \in Sent', p.cmd = "publish", p.msg \in QoS2 PROVE \E q \in Stored' : q.id = p.id
    BY <1>1, <2>2 DEF WhileClean, HeldStored
  <2> QED BY <2>1, <2>2 DEF HeldStored
<1>3. HeldTaken'
  BY <1>1 DEF WhileClean, HeldTaken
<1>4. NotHeld'
  BY <1>1 DEF WhileClean, NotHeld
<1>5. Fresh'
  BY <1>1 DEF WhileClean, Fresh
<1>6. Ordered'
  BY <1>1 DEF WhileClean, Ordered
<1>7. SameId'
  BY <1>1 DEF WhileClean, SameId
<1>8. Once'
  BY <1>1 DEF WhileClean, Once
<1> QED BY <1>2, <1>3, <1>4, <1>5, <1>6, <1>7, <1>8 DEF WhileClean

\* A step that stores e in the place of the entry r, of the same message, and waits
\* for the answer.
Written(r, e) ==
  /\ Same /\ queued' = queued /\ acks' \subseteq acks /\ toClient' = toClient
  /\ r \in Stored /\ e.msg = r.msg /\ e.id # 0
  /\ e \in Stored' /\ Stored' \subseteq Stored \cup {e} /\ Stored \subseteq Stored' \cup {r}
  /\ \A q \in Stored' : q.msg = e.msg => q = e
  /\ \A i, j \in 1..Len(store') : store'[i].msg = store'[j].msg => i = j
  /\ Packets' \subseteq Packets \cup {e} /\ Waiting' \subseteq Waiting \cup {e}

\* A PUBREL takes the place of an entry with its messageId.
WrittenRel(r, e) ==
  /\ Written(r, e) /\ e.cmd = "pubrel" /\ e.id = r.id /\ e.msg \in QoS2 \ forbidden
  /\ Trusted(e.msg) => accepted[e.msg] > 0

\* A message is stored again with a messageId that no other message has.
WrittenPub(r, e) ==
  /\ Written(r, e) /\ e.cmd = "publish"
  /\ \A p \in Packets : p.id = e.id => p.msg = e.msg
  /\ \A a \in acks : a.id = e.id =>
       /\ e.msg \notin forbidden /\ (Trusted(e.msg) => accepted[e.msg] > 0)
       /\ a.cmd = "puback" <=> e.msg \notin QoS2
       /\ Clean' => r.id # 0
  /\ Clean' => r.cmd = "publish" /\ r.id \in {0, e.id}

\* Each keeps what is always known.
LEMMA WrittenAlways ==
  ASSUME Typed, Typed', NEW r, NEW e, WrittenRel(r, e) \/ WrittenPub(r, e), Always
  PROVE  Always'
<1>0. Placed /\ Placed' /\ Written(r, e)
  BY TypedPlaced, PTL DEF WrittenRel, WrittenPub
<1>1. /\ UNCHANGED <<held, accepted, forbidden, queued>> /\ acks' \subseteq acks
      /\ r \in Packets /\ e.msg = r.msg /\ e.id # 0
      /\ Packets' \subseteq Packets \cup {e} /\ Sent' = Sent /\ Waiting' \subseteq Waiting \cup {e}
      /\ \A i, j \in 1..Len(store') : store'[i].msg = store'[j].msg => i = j
  BY <1>0 DEF Written, Same, Placed, Sent
<1>2. \A m : (Trusted(m))' => Trusted(m)
  BY <1>0, CleanBefore DEF Written, Same
<1>3. Numbered'
  <2>1. \A p \in Packets : p.msg <= queued /\ (p.cmd = "pubrel" => p.id # 0)
    BY DEF Always, Numbered
  <2>2. \A p \in Packets' : p.msg <= queued' /\ (p.cmd = "pubrel" => p.id # 0)
    BY <1>1, <2>1
  <2> QED BY <1>1, <2>2 DEF Always, Numbered
<1>4. \A p \in Packets : p.id = e.id => p.msg = e.msg
  <2>1. CASE WrittenRel(r, e)
    BY <1>1, <2>1 DEF WrittenRel, Always, Unique
  <2>2. CASE WrittenPub(r, e)
    BY <2>2 DEF WrittenPub
  <2> QED BY <2>1, <2>2
<1>5. Unique'
  BY <1>1, <1>4 DEF Always, Unique
<1>6. ASSUME NEW a \in acks, a.id = e.id
      PROVE  /\ e.msg \notin forbidden /\ (Trusted(e.msg) => accepted[e.msg] > 0)
             /\ a.cmd = "puback" <=> e.msg \notin QoS2
  <2>1. CASE WrittenRel(r, e)
    BY <1>1, <1>6, <2>1 DEF WrittenRel, Always, Acked
  <2>2. CASE WrittenPub(r, e)
    BY <1>6, <2>2 DEF WrittenPub
  <2> QED BY <2>1, <2>2
<1>7. Acked'
  BY <1>1, <1>2, <1>6 DEF Always, Acked
<1>8. Released'
  <2>1. e.cmd = "pubrel" => e.msg \in QoS2 \ forbidden /\ (Trusted(e.msg) => accepted[e.msg] > 0)
    BY DEF WrittenRel, WrittenPub
  <2> QED BY <1>1, <1>2, <2>1 DEF Always, Released
<1>9. NeverSent'
  BY <1>1 DEF Always, NeverSent
<1> QED BY <1>3, <1>5, <1>7, <1>8, <1>9 DEF Always

\* A PUBREL written keeps what is known while Clean.
LEMMA WrittenRelClean ==
  ASSUME Typed, Typed', NEW r, NEW e, WrittenRel(r, e), Always, WhileClean
  PROVE  WhileClean'
<1>0. Placed /\ Placed' /\ Written(r, e) /\ e.cmd = "pubrel" /\ e.id = r.id
  BY TypedPlaced, PTL DEF WrittenRel
<1>1. /\ UNCHANGED <<held, accepted, forbidden, queued>> /\ acks' \subseteq acks
      /\ r \in Stored /\ r \in Packets /\ e.msg = r.msg /\ e.id # 0
      /\ e \in Stored' /\ Stored' \subseteq Stored \cup {e} /\ Stored \subseteq Stored' \cup {r}
      /\ \A q \in Stored' : q.msg = e.msg => q = e
      /\ Packets' \subseteq Packets \cup {e} /\ Sent' = Sent /\ Waiting' \subseteq Waiting \cup {e}
  BY <1>0 DEF Written, Same, Placed, Sent
<1>2. HeldStored'
  <2>1. ASSUME NEW h, \E p \in Stored : p.id = h PROVE \E p \in Stored' : p.id = h
    BY <1>0, <1>1, <2>1
  <2>2. \A h \in held' : \E p \in Stored' : p.id = h
    BY <1>1, <2>1 DEF WhileClean, HeldStored
  <2>3. ASSUME NEW p \in Sent', p.cmd = "publish", p.msg \in QoS2 PROVE \E q \in Stored' : q.id = p.id
    <3>1. p \in Sent
      BY <1>1, <2>3
    <3>2. \E q \in Stored : q.id = p.id
      BY <2>3, <3>1 DEF WhileClean, HeldStored
    <3> QED BY <2>1, <3>2
  <2> QED BY <2>2, <2>3 DEF HeldStored
<1>3. HeldTaken'
  BY <1>0, <1>1 DEF WhileClean, HeldTaken
<1>4. NotHeld'
  BY <1>0, <1>1 DEF WhileClean, NotHeld
<1>5. Fresh'
  <2>1. ASSUME NEW p \in Stored', NEW q \in Packets', p.cmd = "publish", p.id = 0, q.msg = p.msg
        PROVE  q.id = 0
    <3>1. p \in Stored
      BY <1>0, <1>1, <2>1
    <3>2. CASE q = e
      <4>1. p = e
        BY <1>1, <2>1, <3>2
      <4> QED BY <1>1, <2>1, <4>1
    <3>3. CASE q \in Packets
      BY <2>1, <3>1, <3>3 DEF WhileClean, Fresh
    <3> QED BY <1>1, <3>2, <3>3
  <2> QED BY <2>1 DEF Fresh
<1>6. Ordered'
  <2>1. ASSUME NEW p \in Sent' \cup Waiting', NEW q \in Stored', p.cmd = "pubrel", q.msg = p.msg
        PROVE  q.cmd = "pubrel"
    <3>1. CASE p = e \/ q = e
      BY <1>0, <1>1, <2>1, <3>1
    <3>2. CASE p \in Sent \cup Waiting /\ q \in Stored
      BY <2>1, <3>2 DEF WhileClean, Ordered
    <3> QED BY <1>1, <3>1, <3>2
  <2>2. toClient' = toClient
    BY <1>0 DEF Written
  <2> QED BY <2>1, <2>2 DEF WhileClean, Ordered
<1>7. SameId'
  BY <1>0, <1>1 DEF WhileClean, SameId
<1>8. Once'
  BY <1>0, <1>1 DEF WhileClean, Once
<1> QED BY <1>2, <1>3, <1>4, <1>5, <1>6, <1>7, <1>8 DEF WhileClean

\* A message written keeps what is known while Clean.
LEMMA WrittenPubClean ==
  ASSUME Typed, Typed', NEW r, NEW e, WrittenPub(r, e), Always, WhileClean, Clean'
  PROVE  WhileClean'
<1>0. Placed /\ Placed' /\ Written(r, e) /\ e.cmd = "publish"
  BY TypedPlaced, PTL DEF WrittenPub
<1>1. /\ UNCHANGED <<held, accepted, forbidden, queued>> /\ acks' \subseteq acks
      /\ r \in Stored /\ r \in Packets /\ e.msg = r.msg /\ e.id # 0
      /\ e \in Stored' /\ Stored' \subseteq Stored \cup {e} /\ Stored \subseteq Stored' \cup {r}
      /\ \A q \in Stored' : q.msg = e.msg => q = e
      /\ Packets' \subseteq Packets \cup {e} /\ Sent' = Sent /\ Waiting' \subseteq Waiting \cup {e}
  BY <1>0 DEF Written, Same, Placed, Sent
<1>2. /\ r.cmd = "publish" /\ r.id \in {0, e.id}
      /\ \A p \in Packets : p.id = e.id => p.msg = e.msg
      /\ \A a \in acks : a.id = e.id => r.id = e.id
  BY DEF WrittenPub
<1>3. HeldStored'
  <2>1. ASSUME NEW h, h # 0, \E p \in Stored : p.id = h PROVE \E p \in Stored' : p.id = h
    <3>1. PICK p \in Stored : p.id = h
      BY <2>1
    <3>2. p = r => e.id = h
      BY <1>2, <2>1, <3>1
    <3> QED BY <1>1, <3>1, <3>2
  <2>2. \A h \in held : h # 0
    BY <1>0 DEF Placed
  <2>3. \A h \in held' : \E p \in Stored' : p.id = h
    BY <1>1, <2>1, <2>2 DEF WhileClean, HeldStored
  <2>4. ASSUME NEW p \in Sent', p.cmd = "publish", p.msg \in QoS2 PROVE \E q \in Stored' : q.id = p.id
    <3>1. (\E q \in Stored : q.id = p.id) /\ p.id # 0
      BY <1>0, <1>1, <2>4 DEF WhileClean, HeldStored, Placed
    <3> QED BY <2>1, <3>1
  <2> QED BY <2>3, <2>4 DEF HeldStored
<1>4. HeldTaken'
  <2>1. e.id \in held => e.msg \in QoS2 /\ accepted[e.msg] > 0
    <3>1. ASSUME e.id \in held PROVE e.msg \in QoS2 /\ accepted[e.msg] > 0
      <4>1. PICK p \in Stored : p.id = e.id
        BY <3>1 DEF WhileClean, HeldStored
      <4>2. p \in Packets /\ p.msg = e.msg
        BY <1>0, <1>2, <4>1 DEF Placed
      <4> QED BY <3>1, <4>1, <4>2 DEF WhileClean, HeldTaken
    <3> QED BY <3>1
  <2> QED BY <1>1, <2>1 DEF WhileClean, HeldTaken
<1>5. NotHeld'
  <2>1. ASSUME NEW a \in acks, a.cmd = "pubcomp" PROVE e.id # a.id
    <3>1. \A p \in Stored \cup Sent : p.cmd = "publish" => p.id # a.id
      BY <2>1 DEF WhileClean, NotHeld
    <3> QED BY <1>1, <1>2, <3>1
  <2> QED BY <1>1, <2>1 DEF WhileClean, NotHeld
<1>6. Fresh'
  <2>1. ASSUME NEW p \in Stored', NEW q \in Packets', p.cmd = "publish", p.id = 0, q.msg = p.msg
        PROVE  q.id = 0
    <3>1. p \in Stored
      BY <1>1, <2>1
    <3>2. CASE q = e
      <4>1. p = e
        BY <1>1, <2>1, <3>2
      <4> QED BY <1>1, <2>1, <4>1
    <3>3. CASE q \in Packets
      BY <2>1, <3>1, <3>3 DEF WhileClean, Fresh
    <3> QED BY <1>1, <3>2, <3>3
  <2> QED BY <2>1 DEF Fresh
<1>7. \A p \in Sent \cup Waiting : p.cmd = "pubrel" => p.msg # e.msg
  BY <1>1, <1>2 DEF WhileClean, Ordered
<1>8. Ordered'
  <2>1. ASSUME NEW p \in Sent' \cup Waiting', NEW q \in Stored', p.cmd = "pubrel", q.msg = p.msg
        PROVE  q.cmd = "pubrel"
    <3>1. p \in Sent \cup Waiting /\ q # e
      BY <1>0, <1>1, <1>7, <2>1
    <3> QED BY <1>1, <2>1, <3>1 DEF WhileClean, Ordered
  <2>2. toClient' = toClient
    BY <1>0 DEF Written
  <2> QED BY <2>1, <2>2 DEF WhileClean, Ordered
<1>9. SameId'
  <2>1. ASSUME NEW p \in Sent \cup Waiting, p.cmd = "publish", p.msg = e.msg PROVE p.id = e.id
    <3>1. p.id = r.id /\ p.id # 0
      BY <1>0, <1>1, <1>2, <2>1 DEF WhileClean, SameId, Placed
    <3> QED BY <1>2, <3>1
  <2>2. ASSUME NEW p \in Sent' \cup Waiting', NEW q \in Stored' \cup Sent' \cup Waiting',
               p.cmd = "publish", q.cmd = "publish", p.msg = q.msg
        PROVE  p.id = q.id
    <3>1. CASE p = e
      <4>1. q = e \/ q \in Sent \cup Waiting
        BY <1>1, <2>2, <3>1
      <4> QED BY <2>1, <2>2, <3>1, <4>1
    <3>2. CASE p \in Sent \cup Waiting /\ q = e
      BY <2>1, <2>2, <3>2
    <3>3. CASE p \in Sent \cup Waiting /\ q \in Stored \cup Sent \cup Waiting
      BY <2>2, <3>3 DEF WhileClean, SameId
    <3> QED BY <1>1, <3>1, <3>2, <3>3
  <2> QED BY <2>2 DEF SameId
<1>10. Once'
  <2>1. ASSUME e.msg \in QoS2, accepted[e.msg] = 1 PROVE e.id \in held
    <3>1. r.id \in held
      BY <1>1, <1>2, <2>1 DEF WhileClean, Once
    <3>2. r.id # 0
      BY <1>0, <3>1 DEF Placed
    <3> QED BY <1>2, <3>1, <3>2
  <2> QED BY <1>1, <2>1 DEF WhileClean, Once
<1> QED BY <1>3, <1>4, <1>5, <1>6, <1>8, <1>9, <1>10 DEF WhileClean


\* A step that writes a stored entry when the persistence has answered.
Delivers(e) ==
  /\ Same /\ queued' = queued /\ acks' = acks /\ store' = store
  /\ e \in Waiting /\ Waiting' \subseteq Waiting /\ Packets' \subseteq Packets
  /\ e.cmd = "publish" => e.msg \notin forbidden
  /\ Clean' /\ e.cmd = "publish" /\ e.msg \in QoS2 => \E q \in Stored : q.cmd = "publish" /\ q.msg = e.msg
  /\ Sent' \subseteq Sent \cup {e}
  /\ \A i, j \in 1..Len(toClient') : i < j =>
       /\ i \in 1..Len(toClient) /\ toClient'[i] = toClient[i] /\ toClient[i] \in Sent
       /\ \/ toClient'[j] = e
          \/ j \in 1..Len(toClient) /\ toClient'[j] = toClient[j]

\* It keeps what is always known.
LEMMA DeliversAlways ==
  ASSUME Typed, Typed', NEW e, Delivers(e), Always
  PROVE  Always'
<1>1. /\ UNCHANGED <<held, accepted, forbidden, queued, store, acks>>
      /\ Packets' \subseteq Packets /\ Sent' \subseteq Sent \cup {e} /\ e \in Waiting
      /\ e.cmd = "publish" => e.msg \notin forbidden
  BY DEF Delivers, Same
<1>2. \A m : (Trusted(m))' => Trusted(m)
  BY CleanBefore DEF Delivers, Same
<1>3. Numbered'
  BY <1>1 DEF Always, Numbered
<1>4. Unique'
  BY <1>1 DEF Always, Unique
<1>5. Acked'
  BY <1>1, <1>2 DEF Always, Acked
<1>6. Released'
  BY <1>1, <1>2 DEF Always, Released
<1>7. NeverSent'
  <2>1. e.msg \notin forbidden
    BY <1>1, TypedPlaced DEF Placed, Always, Released
  <2> QED BY <1>1, <2>1 DEF Always, NeverSent
<1> QED BY <1>3, <1>4, <1>5, <1>6, <1>7 DEF Always

\* It keeps what is known while Clean: a message of QoS 2 that is written is still
\* stored as a message, with the same messageId.
LEMMA DeliversClean ==
  ASSUME Typed, Typed', NEW e, Delivers(e), Always, WhileClean, Clean'
  PROVE  WhileClean'
<1>0. Placed
  BY TypedPlaced
<1>1. /\ UNCHANGED <<held, accepted, forbidden, queued, store, acks>> /\ Stored' = Stored
      /\ Packets' \subseteq Packets /\ Sent' \subseteq Sent \cup {e}
      /\ e \in Waiting /\ Waiting' \subseteq Waiting /\ e \in Packets
  BY <1>0 DEF Delivers, Same, Stored, Placed
<1>2. ASSUME e.cmd = "publish", e.msg \in QoS2
      PROVE  \E q \in Stored : q.cmd = "publish" /\ q.msg = e.msg /\ q.id = e.id
  <2>1. PICK q \in Stored : q.cmd = "publish" /\ q.msg = e.msg
    BY <1>2 DEF Delivers
  <2> QED BY <1>1, <1>2, <2>1 DEF WhileClean, SameId
<1>3. HeldStored'
  BY <1>1, <1>2 DEF WhileClean, HeldStored
<1>4. HeldTaken'
  BY <1>1 DEF WhileClean, HeldTaken
<1>5. NotHeld'
  <2>1. ASSUME NEW a \in acks, a.cmd = "pubcomp", e.cmd = "publish" PROVE e.id # a.id
    <3>1. e.id = a.id => e.msg \in QoS2
      BY <1>1, <2>1 DEF Always, Acked
    <3> QED BY <1>2, <2>1, <3>1 DEF WhileClean, NotHeld
  <2> QED BY <1>1, <2>1 DEF WhileClean, NotHeld
<1>6. Fresh'
  BY <1>1 DEF WhileClean, Fresh
<1>7. Ordered'
  <2>1. ASSUME NEW p \in Sent, p.cmd = "pubrel", e.cmd = "publish" PROVE p.msg # e.msg
    <3>1. p.msg \in QoS2
      BY <1>0, <2>1 DEF Placed, Always, Released
    <3> QED BY <1>2, <2>1, <3>1 DEF WhileClean, Ordered
  <2>2. ASSUME NEW i \in 1..Len(toClient'), NEW j \in 1..Len(toClient'), i < j,
               toClient'[i].cmd = "pubrel", toClient'[j].cmd = "publish"
        PROVE  toClient'[i].msg # toClient'[j].msg
    <3>1. /\ i \in 1..Len(toClient) /\ toClient'[i] = toClient[i] /\ toClient[i] \in Sent
          /\ \/ toClient'[j] = e
             \/ j \in 1..Len(toClient) /\ toClient'[j] = toClient[j]
      BY <2>2 DEF Delivers
    <3>2. CASE toClient'[j] = e
      BY <2>1, <2>2, <3>1, <3>2
    <3>3. CASE j \in 1..Len(toClient) /\ toClient'[j] = toClient[j]
      BY <2>2, <3>1, <3>3 DEF WhileClean, Ordered
    <3> QED BY <3>1, <3>2, <3>3
  <2>3. \A p \in Sent' \cup Waiting', q \in Stored' : p.cmd = "pubrel" /\ q.msg = p.msg => q.cmd = "pubrel"
    BY <1>1 DEF WhileClean, Ordered
  <2> QED BY <2>2, <2>3 DEF Ordered
<1>8. SameId'
  BY <1>1 DEF WhileClean, SameId
<1>9. Once'
  <2>1. ASSUME e.cmd = "publish", e.msg \in QoS2, accepted[e.msg] = 1 PROVE e.id \in held
    BY <1>2, <2>1 DEF WhileClean, Once
  <2> QED BY <1>1, <2>1 DEF WhileClean, Once
<1> QED BY <1>3, <1>4, <1>5, <1>6, <1>7, <1>8, <1>9 DEF WhileClean

-----------------------------------------------------------------------------
\* What Enqueue does with the packets.
LEMMA EnqueueIs ==
  ASSUME Typed, Enqueue, UNCHANGED forbidden
  PROVE  LET n == [cmd |-> "publish", msg |-> queued + 1, id |-> 0] IN
         /\ UNCHANGED <<held, accepted, forbidden, toClient, acks, causes>> /\ queued' = queued + 1
         /\ Stored' = Stored \cup {n} /\ Sent' = Sent /\ Waiting' = Waiting /\ Packets' = Packets \cup {n}
         /\ queued \in Nat /\ n.msg \in Msgs
         /\ \A i \in 1..Len(store) : store'[i] = store[i] /\ store[i] \in Packets
         /\ Len(store') = Len(store) + 1 /\ store'[Len(store) + 1] = n /\ Len(store) \in Nat
<1> DEFINE n == [cmd |-> "publish", msg |-> queued + 1, id |-> 0]
<1>1. store \in Seq(Entries) /\ queued \in 0..MaxMsgs /\ queued < MaxMsgs
  BY DEF Typed, BrokerTypes, Enqueue
<1>2. n.msg \in Msgs /\ queued \in Nat
  BY <1>1, ConstantsAre DEF Msgs
<1>3. n \in Entries
  BY <1>2, ConstantsAre DEF Entries
<1>4. /\ UNCHANGED <<held, accepted, forbidden, toClient, acks, causes, queue, forwards, replies>>
      /\ queued' = queued + 1 /\ store' = Append(store, n)
  BY DEF Enqueue, client, chains
<1> HIDE DEF n
<1>5. /\ \A i \in 1..Len(store) : store'[i] = store[i] /\ store[i] \in Stored
      /\ Len(store') = Len(store) + 1 /\ store'[Len(store) + 1] = n /\ Len(store) \in Nat
      /\ Stored' = Stored \cup {n}
  BY <1>1, <1>3, <1>4, AppendIs, SetIs DEF Stored
<1>6. Sent' = Sent /\ Waiting' = Waiting /\ Packets' = Packets \cup {n} /\ Stored \subseteq Packets
  BY <1>4, <1>5 DEF Packets, Sent, Waiting, Queued
<1> QED BY <1>2, <1>4, <1>5, <1>6 DEF n

\* It keeps the invariant: the new message is nowhere else.
LEMMA EnqueueKeeps ==
  ASSUME Typed, Typed', Enqueue, UNCHANGED forbidden, Always
  PROVE  Always' /\ (WhileClean => WhileClean')
<1> DEFINE n == [cmd |-> "publish", msg |-> queued + 1, id |-> 0]
<1>0. Placed /\ Placed'
  BY TypedPlaced, PTL
<1>1. /\ UNCHANGED <<held, accepted, forbidden, toClient, acks, causes>> /\ queued' = queued + 1
      /\ Stored' = Stored \cup {n} /\ Sent' = Sent /\ Waiting' = Waiting /\ Packets' = Packets \cup {n}
      /\ queued \in Nat /\ n.msg \in Msgs
      /\ \A i \in 1..Len(store) : store'[i] = store[i] /\ store[i] \in Packets
      /\ Len(store') = Len(store) + 1 /\ store'[Len(store) + 1] = n /\ Len(store) \in Nat
  BY EnqueueIs
<1>2. n.cmd = "publish" /\ n.msg = queued + 1 /\ n.id = 0
  OBVIOUS
<1> HIDE DEF n
<1>3. \A m : (Trusted(m))' <=> Trusted(m)
  BY <1>1 DEF Trusted, Clean
<1>4. /\ \A p \in Packets : p.msg \in Nat /\ p.msg <= queued /\ p.msg # n.msg
      /\ \A a \in acks : a.id # 0
      /\ \A h \in held : h # 0
      /\ \A p \in Sent \cup Waiting : p \in Packets
      /\ \A p \in Stored : p \in Packets
  <2>1. /\ \A p \in Packets : p.msg \in Nat /\ p.msg <= queued
        /\ \A p \in Sent \cup Waiting : p \in Packets
        /\ \A p \in Stored : p \in Packets
    BY <1>0, ConstantsAre DEF Placed, Always, Numbered
  <2>2. \A p \in Packets : p.msg # n.msg
    BY <1>1, <1>2, <2>1
  <2> QED BY <1>0, <2>1, <2>2 DEF Placed
<1>5. Numbered'
  <2>1. ASSUME NEW i \in 1..Len(store'), NEW j \in 1..Len(store'), store'[i].msg = store'[j].msg
        PROVE  i = j
    <3>1. \A k \in 1..Len(store') : k \in 1..Len(store) \/ k = Len(store) + 1
      BY <1>1
    <3>2. CASE i \in 1..Len(store) /\ j \in 1..Len(store)
      BY <1>1, <2>1, <3>2 DEF Always, Numbered
    <3>3. CASE i \in 1..Len(store) /\ j = Len(store) + 1
      BY <1>1, <1>4, <2>1, <3>3
    <3>4. CASE j \in 1..Len(store) /\ i = Len(store) + 1
      BY <1>1, <1>4, <2>1, <3>4
    <3> QED BY <3>1, <3>2, <3>3, <3>4
  <2>2. \A p \in Packets' : p.msg <= queued' /\ (p.cmd = "pubrel" => p.id # 0)
    BY <1>1, <1>2, <1>4 DEF Always, Numbered
  <2>3. \A m \in Msgs : accepted'[m] > 0 => m <= queued'
    <3>1. \A m \in Msgs : m \in Nat /\ (accepted[m] > 0 => m <= queued)
      BY ConstantsAre DEF Always, Numbered
    <3> QED BY <1>1, <3>1
  <2> QED BY <2>1, <2>2, <2>3 DEF Numbered
<1>6. Unique'
  BY <1>1, <1>2 DEF Always, Unique
<1>7. Acked'
  BY <1>1, <1>2, <1>3, <1>4 DEF Always, Acked
<1>8. Released'
  BY <1>1, <1>2, <1>3 DEF Always, Released
<1>9. NeverSent'
  BY <1>1 DEF Always, NeverSent
<1>10. ASSUME WhileClean PROVE WhileClean'
  <2>1. HeldStored'
    BY <1>1, <1>10 DEF WhileClean, HeldStored
  <2>2. HeldTaken'
    BY <1>1, <1>2, <1>4, <1>10 DEF WhileClean, HeldTaken
  <2>3. NotHeld'
    BY <1>1, <1>2, <1>4, <1>10 DEF WhileClean, NotHeld
  <2>4. Fresh'
    BY <1>1, <1>2, <1>4, <1>10 DEF WhileClean, Fresh
  <2>5. Ordered'
    BY <1>1, <1>2, <1>4, <1>10 DEF WhileClean, Ordered
  <2>6. SameId'
    BY <1>1, <1>2, <1>4, <1>10 DEF WhileClean, SameId
  <2>7. ~ (accepted[n.msg] > 0)
    <3>1. ~ (queued + 1 <= queued)
      BY <1>1
    <3> QED BY <1>1, <1>2, <3>1 DEF Always, Numbered
  <2>8. Once'
    BY <1>1, <1>2, <1>10, <2>7 DEF WhileClean, Once
  <2> QED BY <2>1, <2>2, <2>3, <2>4, <2>5, <2>6, <2>8 DEF WhileClean
<1> QED BY <1>5, <1>6, <1>7, <1>8, <1>9, <1>10 DEF Always

\* What Receive does.
Received(p) ==
  /\ UNCHANGED <<store, queued, forbidden, causes>> /\ p \in Sent
  /\ Stored' = Stored /\ Packets' \subseteq Packets /\ Sent' \subseteq Sent /\ Waiting' = Waiting
  /\ \A q \in Sent' : p.cmd = "pubrel" /\ q.cmd = "publish" /\ Ordered => q.msg # p.msg
  /\ Ordered => Ordered'
  /\ \A a \in acks' : a \in acks \/
       /\ a.id = p.id
       /\ a.cmd = IF p.cmd = "pubrel" THEN "pubcomp" ELSE IF p.msg \in QoS2 THEN "pubrec" ELSE "puback"
  /\ held' = IF p.cmd = "pubrel" THEN held \ {p.id}
             ELSE IF p.msg \in QoS2 THEN held \cup {p.id} ELSE held
  /\ \A m \in Msgs :
       accepted'[m] = IF m = p.msg /\ p.cmd = "publish" /\ (p.msg \in QoS2 => p.id \notin held)
                      THEN accepted[m] + 1 ELSE accepted[m]

\* It does.
LEMMA ReceiveIs ==
  ASSUME Typed, Receive, UNCHANGED forbidden
  PROVE  Received(Head(toClient))
<1> DEFINE p == Head(toClient)
           t == Tail(toClient)
<1>1. /\ toClient \in Seq(SentPackets) /\ toClient # <<>> /\ accepted \in [Msgs -> Nat]
      /\ toClient' = t
      /\ UNCHANGED <<store, queued, forbidden, causes, queue, forwards, replies>>
  BY DEF Typed, BrokerTypes, ClientTypes, Receive, topics, chains
<1>2. /\ p \in SentPackets /\ p = toClient[1] /\ Len(toClient) > 0 /\ Len(toClient) \in Nat
      /\ t \in Seq(SentPackets) /\ Len(t) = Len(toClient) - 1
      /\ \A i \in 1..(Len(toClient) - 1) : t[i] = toClient[i + 1]
      /\ ToSet(toClient) = {p} \cup ToSet(t)
  BY <1>1, TailIs
<1>3. /\ acks' = acks \cup
             {[conn |-> conn, id |-> p.id,
               cmd |-> IF p.cmd = "pubrel" THEN "pubcomp"
                       ELSE IF p.msg \in QoS2 THEN "pubrec" ELSE "puback"]}
      /\ held' = IF p.cmd = "pubrel" THEN held \ {p.id}
                 ELSE IF p.msg \in QoS2 THEN held \cup {p.id} ELSE held
      /\ accepted' = IF p.cmd = "publish" /\ (p.msg \in QoS2 => p.id \notin held)
                     THEN [accepted EXCEPT ![p.msg] = @ + 1] ELSE accepted
  BY DEF Receive
<1>4. ToSet(t) = {t[i] : i \in 1..Len(t)}
  BY <1>2, SetIs
<1> HIDE DEF p, t
<1>5. Sent = {p} \cup Sent' /\ Stored' = Stored /\ Sent' = ToSet(t) /\ Waiting' = Waiting
  BY <1>1, <1>2 DEF Sent, Stored, Waiting
<1>6. Packets' \subseteq Packets /\ p \in Sent
  BY <1>1, <1>5 DEF Packets, Queued
<1>7. ASSUME NEW j \in 1..Len(t)
      PROVE  j + 1 \in 1..Len(toClient) /\ t[j] = toClient[j + 1] /\ 1 \in 1..Len(toClient) /\ 1 < j + 1
  BY <1>2
<1>8. ASSUME NEW q \in Sent', p.cmd = "pubrel", q.cmd = "publish", Ordered PROVE q.msg # p.msg
  <2>1. PICK j \in 1..Len(t) : q = t[j]
    BY <1>4, <1>5
  <2> QED BY <1>2, <1>7, <1>8, <2>1 DEF Ordered
<1>9. ASSUME Ordered PROVE Ordered'
  <2>1. ASSUME NEW i \in 1..Len(t), NEW j \in 1..Len(t), i < j,
               t[i].cmd = "pubrel", t[j].cmd = "publish"
        PROVE  t[i].msg # t[j].msg
    <3>1. i + 1 < j + 1
      BY <2>1
    <3> QED BY <1>7, <1>9, <2>1, <3>1 DEF Ordered
  <2> QED BY <1>1, <1>5, <1>9, <2>1 DEF Ordered
<1>10. \A m \in Msgs :
         accepted'[m] = IF m = p.msg /\ p.cmd = "publish" /\ (p.msg \in QoS2 => p.id \notin held)
                        THEN accepted[m] + 1 ELSE accepted[m]
  <2>1. p.msg \in Msgs
    BY <1>2 DEF SentPackets
  <2> QED BY <1>1, <1>3, <2>1
<1>11. \A a \in acks' : a \in acks \/
         /\ a.id = p.id
         /\ a.cmd = IF p.cmd = "pubrel" THEN "pubcomp" ELSE IF p.msg \in QoS2 THEN "pubrec" ELSE "puback"
  BY <1>3
<1> QED BY <1>1, <1>3, <1>5, <1>6, <1>8, <1>9, <1>10, <1>11 DEF Received, p

\* Nothing is taken back, and a packet that is acknowledged has been taken.
LEMMA ReceivedTakes ==
  ASSUME Typed, Typed', NEW p, Received(p), Always, "collision" \notin causes, SureClean
  PROVE  /\ \A m \in Msgs : accepted[m] \in Nat /\ (accepted[m] > 0 => accepted'[m] > 0)
         /\ p \in Packets /\ p.msg \in Msgs /\ p.id # 0 /\ p.msg \notin forbidden
         /\ Trusted(p.msg) => accepted'[p.msg] > 0
         /\ \A q \in Packets : q.id = p.id => q.msg = p.msg
<1>0. Placed
  BY TypedPlaced
<1>1. /\ p \in Sent /\ p \in Packets /\ p.msg \in Msgs /\ p.id # 0 /\ p.cmd \in {"publish", "pubrel"}
      /\ \A m \in Msgs : accepted[m] \in Nat
  BY <1>0 DEF Received, Placed
<1>2. /\ \A m \in Msgs :
           accepted'[m] = IF m = p.msg /\ p.cmd = "publish" /\ (p.msg \in QoS2 => p.id \notin held)
                          THEN accepted[m] + 1 ELSE accepted[m]
  BY DEF Received
<1>3. \A m \in Msgs : accepted[m] > 0 => accepted'[m] > 0
  BY <1>1, <1>2
<1>4. p.msg \notin forbidden
  BY <1>1 DEF Always, NeverSent
<1>5. \A q \in Packets : q.id = p.id => q.msg = p.msg
  BY <1>1 DEF Always, Unique
<1>6. ASSUME Trusted(p.msg) PROVE accepted'[p.msg] > 0
  <2>1. CASE p.cmd = "pubrel"
    <3>1. accepted[p.msg] > 0
      BY <1>1, <1>6, <2>1 DEF Always, Released
    <3> QED BY <1>1, <1>3, <3>1
  <2>2. CASE p.cmd = "publish" /\ (p.msg \in QoS2 => p.id \notin held)
    BY <1>1, <1>2, <2>2
  <2>3. CASE p.msg \in QoS2 /\ p.id \in held
    <3>1. WhileClean
      BY <1>6, <2>3 DEF Trusted, SureClean
    <3>2. accepted[p.msg] > 0
      BY <1>1, <2>3, <3>1 DEF WhileClean, HeldTaken
    <3> QED BY <1>1, <1>3, <3>2
  <2> QED BY <1>1, <2>1, <2>2, <2>3
<1> QED BY <1>1, <1>3, <1>4, <1>5, <1>6

\* It keeps what is always known.
LEMMA ReceivedAlways ==
  ASSUME Typed, Typed', NEW p, Received(p), Always, "collision" \notin causes, SureClean
  PROVE  Always'
<1>0. Placed /\ Placed'
  BY TypedPlaced, PTL
<1>1. /\ UNCHANGED <<store, queued, forbidden, causes>> /\ p \in Sent
      /\ Stored' = Stored /\ Packets' \subseteq Packets /\ Sent' \subseteq Sent /\ Waiting' = Waiting
      /\ \A a \in acks' : a \in acks \/
           /\ a.id = p.id
           /\ a.cmd = IF p.cmd = "pubrel" THEN "pubcomp" ELSE IF p.msg \in QoS2 THEN "pubrec" ELSE "puback"
      /\ \A m \in Msgs :
           accepted'[m] = IF m = p.msg /\ p.cmd = "publish" /\ (p.msg \in QoS2 => p.id \notin held)
                          THEN accepted[m] + 1 ELSE accepted[m]
  BY DEF Received
<1>2. /\ \A m \in Msgs : accepted[m] \in Nat /\ (accepted[m] > 0 => accepted'[m] > 0)
      /\ p \in Packets /\ p.msg \in Msgs /\ p.id # 0 /\ p.msg \notin forbidden
      /\ Trusted(p.msg) => accepted'[p.msg] > 0
      /\ \A q \in Packets : q.id = p.id => q.msg = p.msg
  BY ReceivedTakes
<1>3. \A m : (Trusted(m))' <=> Trusted(m)
  BY <1>1 DEF Trusted, Clean
<1>4. \A q \in Packets : q.msg \in Msgs
  BY <1>0 DEF Placed
<1>5. Numbered'
  <2>1. \A m \in Msgs : accepted'[m] > 0 => m <= queued
    BY <1>1, <1>2 DEF Always, Numbered
  <2> QED BY <1>1, <2>1 DEF Always, Numbered
<1>6. Unique'
  BY <1>1 DEF Always, Unique
<1>7. Acked'
  <2>1. ASSUME NEW a \in acks', NEW q \in Packets', q.id = a.id
        PROVE  /\ q.msg \notin forbidden /\ (Trusted(q.msg) => accepted'[q.msg] > 0)
               /\ a.cmd = "puback" <=> q.msg \notin QoS2
    <3>1. CASE a \in acks
      BY <1>1, <1>2, <1>4, <2>1, <3>1 DEF Always, Acked
    <3>2. CASE /\ a.id = p.id
               /\ a.cmd = IF p.cmd = "pubrel" THEN "pubcomp" ELSE IF p.msg \in QoS2 THEN "pubrec" ELSE "puback"
      <4>1. q.msg = p.msg
        BY <1>1, <1>2, <2>1, <3>2
      <4>2. a.cmd = "puback" <=> p.msg \notin QoS2
        BY <1>2, <3>2 DEF Always, Released
      <4> QED BY <1>2, <4>1, <4>2
    <3> QED BY <1>1, <3>1, <3>2
  <2> QED BY <1>1, <1>3, <2>1 DEF Acked
<1>8. Released'
  BY <1>1, <1>2, <1>3, <1>4 DEF Always, Released
<1>9. NeverSent'
  <2>1. forbidden \subseteq Msgs
    BY <1>0 DEF Placed
  <2> QED BY <1>1, <1>2, <2>1 DEF Always, NeverSent
<1> QED BY <1>5, <1>6, <1>7, <1>8, <1>9 DEF Always

\* It keeps what is known while Clean: the client takes a message once.
LEMMA ReceivedClean ==
  ASSUME Typed, Typed', NEW p, Received(p), Always, WhileClean, "collision" \notin causes, Clean
  PROVE  WhileClean'
<1>0. Placed /\ Placed' /\ SureClean
  BY TypedPlaced, PTL DEF SureClean
<1>1. /\ UNCHANGED <<store, queued, forbidden, causes>> /\ p \in Sent
      /\ Stored' = Stored /\ Packets' \subseteq Packets /\ Sent' \subseteq Sent /\ Waiting' = Waiting
      /\ \A q \in Sent' : p.cmd = "pubrel" /\ q.cmd = "publish" /\ Ordered => q.msg # p.msg
      /\ Ordered => Ordered'
      /\ \A a \in acks' : a \in acks \/
           /\ a.id = p.id
           /\ a.cmd = IF p.cmd = "pubrel" THEN "pubcomp" ELSE IF p.msg \in QoS2 THEN "pubrec" ELSE "puback"
      /\ held' = IF p.cmd = "pubrel" THEN held \ {p.id}
                 ELSE IF p.msg \in QoS2 THEN held \cup {p.id} ELSE held
      /\ \A m \in Msgs :
           accepted'[m] = IF m = p.msg /\ p.cmd = "publish" /\ (p.msg \in QoS2 => p.id \notin held)
                          THEN accepted[m] + 1 ELSE accepted[m]
  BY DEF Received
<1>2. /\ \A m \in Msgs : accepted[m] \in Nat /\ (accepted[m] > 0 => accepted'[m] > 0)
      /\ p \in Packets /\ p.msg \in Msgs /\ p.id # 0 /\ p.msg \notin forbidden
      /\ accepted'[p.msg] > 0
      /\ \A q \in Packets : q.id = p.id => q.msg = p.msg
  BY <1>0, ReceivedTakes DEF Trusted
<1>3. /\ \A q \in Packets : q.msg \in Msgs
      /\ p.cmd \in {"publish", "pubrel"}
      /\ \A q \in Stored \cup Sent : q \in Packets
  BY <1>0, <1>2 DEF Placed
<1>4. ASSUME NEW q \in Stored \cup Sent', q.cmd = "publish", q.msg = p.msg PROVE p.cmd = "publish"
  BY <1>1, <1>3, <1>4 DEF WhileClean, Ordered
<1>5. HeldStored'
  BY <1>1, <1>3 DEF WhileClean, HeldStored
<1>6. HeldTaken'
  <2>1. ASSUME NEW q \in Packets', q.id \in held' PROVE q.msg \in QoS2 /\ accepted'[q.msg] > 0
    <3>1. CASE q.id \in held
      BY <1>1, <1>2, <1>3, <3>1 DEF WhileClean, HeldTaken
    <3>2. CASE q.id = p.id /\ p.msg \in QoS2
      BY <1>1, <1>2, <3>2
    <3> QED BY <1>1, <2>1, <3>1, <3>2
  <2> QED BY <2>1 DEF HeldTaken
<1>7. NotHeld'
  <2>1. ASSUME NEW a \in acks', a.cmd \in {"puback", "pubcomp"} PROVE a.id \notin held'
    <3>1. CASE a \in acks
      <4>1. a.id \notin held
        BY <2>1, <3>1 DEF WhileClean, NotHeld
      <4>2. p.cmd = "publish" /\ p.msg \in QoS2 => a.id # p.id
        BY <1>1, <1>2, <2>1, <3>1 DEF WhileClean, NotHeld, Always, Acked
      <4> QED BY <1>1, <1>3, <4>1, <4>2
    <3>2. CASE /\ a.id = p.id
               /\ a.cmd = IF p.cmd = "pubrel" THEN "pubcomp" ELSE IF p.msg \in QoS2 THEN "pubrec" ELSE "puback"
      <4>1. CASE p.cmd = "pubrel"
        BY <1>1, <3>2, <4>1
      <4>2. CASE p.msg \notin QoS2
        <5>1. p.id \notin held
          BY <1>2, <4>2 DEF WhileClean, HeldTaken
        <5> QED BY <1>1, <3>2, <4>2, <5>1
      <4> QED BY <2>1, <3>2, <4>1, <4>2
    <3> QED BY <1>1, <3>1, <3>2
  <2>2. ASSUME NEW a \in acks', a.cmd = "pubcomp", NEW q \in Stored' \cup Sent', q.cmd = "publish"
        PROVE  q.id # a.id
    <3>1. CASE a \in acks
      BY <1>1, <2>2, <3>1 DEF WhileClean, NotHeld
    <3>2. CASE /\ a.id = p.id
               /\ a.cmd = IF p.cmd = "pubrel" THEN "pubcomp" ELSE IF p.msg \in QoS2 THEN "pubrec" ELSE "puback"
      <4>1. p.cmd = "pubrel"
        BY <2>2, <3>2
      <4>2. q.msg # p.msg
        BY <1>1, <1>4, <2>2, <4>1
      <4> QED BY <1>1, <1>2, <1>3, <2>2, <3>2, <4>2
    <3> QED BY <1>1, <3>1, <3>2
  <2> QED BY <2>1, <2>2 DEF NotHeld
<1>8. Fresh'
  BY <1>1 DEF WhileClean, Fresh
<1>9. Ordered'
  BY <1>1 DEF WhileClean
<1>10. SameId'
  BY <1>1 DEF WhileClean, SameId
<1>11. Once'
  <2>1. ASSUME NEW m \in QoS2
        PROVE  /\ accepted'[m] <= 1
               /\ accepted'[m] = 1 =>
                    \A q \in Stored' \cup Sent' : q.cmd = "publish" /\ q.msg = m => q.id \in held'
    <3>0. m \in Msgs /\ accepted[m] \in Nat /\ accepted[m] <= 1
      BY <1>0, <1>2 DEF Placed, WhileClean, Once
    <3>1. CASE m = p.msg /\ p.cmd = "publish" /\ p.id \notin held
      <4>1. accepted[m] # 1
        BY <1>1, <3>1 DEF WhileClean, Once
      <4>2. accepted'[m] <= 1
        BY <1>1, <3>0, <3>1, <4>1
      <4>3. ASSUME NEW q \in Stored \cup Sent, q.cmd = "publish", q.msg = m PROVE q.id = p.id
        BY <1>1, <3>1, <4>3 DEF WhileClean, SameId
      <4> QED BY <1>1, <3>1, <4>2, <4>3
    <3>2. CASE ~(m = p.msg /\ p.cmd = "publish" /\ p.id \notin held)
      <4>1. accepted'[m] = accepted[m]
        BY <1>1, <3>0, <3>2
      <4>2. ASSUME accepted[m] = 1, NEW q \in Stored \cup Sent', q.cmd = "publish", q.msg = m
            PROVE  q.id \in held'
        <5>1. q.id \in held
          BY <1>1, <4>2 DEF WhileClean, Once
        <5>2. p.cmd = "pubrel" => q.id # p.id
          BY <1>1, <1>2, <1>3, <1>4, <4>2
        <5> QED BY <1>1, <5>1, <5>2
      <4> QED BY <1>1, <3>0, <4>1, <4>2
    <3> QED BY <3>1, <3>2
  <2> QED BY <2>1 DEF Once
<1> QED BY <1>5, <1>6, <1>7, <1>8, <1>9, <1>10, <1>11 DEF WhileClean

-----------------------------------------------------------------------------
(***************************************************************************)
(* Every step keeps the invariant.                                         *)
(***************************************************************************)
\* What is left to show of a step that keeps the types.
Stays == Kept' /\ ExactlyOnce' /\ Sure' /\ SureClean'

\* An entry that leaves the store was not needed any more.
LEMMA KeptStays ==
  ASSUME Typed, Typed', Kept, Same, queued' = queued, NEW r, Stored \subseteq Stored' \cup {r},
         "wrong" \notin causes' /\ r.cmd = "publish" /\ r.msg \notin forbidden => (Safe(r.msg))'
  PROVE  Kept'
<1>1. AllSafe
  BY KeptIs
<1>2. AllSafe' => Kept'
  BY KeptIs, PTL
<1>3. UNCHANGED <<accepted, forbidden>> /\ causes \subseteq causes' /\ (Clean' => Clean)
  BY CleanBefore DEF Same
<1>4. ASSUME "wrong" \notin causes', NEW m \in (1..queued) \ forbidden PROVE (Safe(m))'
  <2>1. Safe(m)
    BY <1>1, <1>3, <1>4 DEF AllSafe
  <2>2. CASE accepted[m] > 0 \/ (m \in QoS2 /\ ~Clean)
    BY <1>3, <2>2 DEF Safe
  <2>3. CASE \E p \in Stored : p.cmd = "publish" /\ p.msg = m
    <3>1. PICK p \in Stored : p.cmd = "publish" /\ p.msg = m
      BY <2>3
    <3>2. CASE p = r
      BY <1>4, <3>1, <3>2
    <3>3. CASE p \in Stored'
      BY <3>1, <3>3 DEF Safe
    <3> QED BY <3>2, <3>3
  <2> QED BY <2>1, <2>2, <2>3 DEF Safe
<1> QED BY <1>2, <1>3, <1>4 DEF AllSafe

\* The client takes nothing in a step of the broker.
LEMMA ExactStays == Same /\ ExactlyOnce => ExactlyOnce'
BY DEF Same, ExactlyOnce

\* The invariant after a step, from what the step keeps.
LEMMA SureStays ==
  ASSUME Inv, "collision" \notin causes, causes \subseteq causes', Always => Always',
         Always /\ WhileClean /\ Clean' => WhileClean'
  PROVE  Sure' /\ SureClean'
<1>1. Clean' => Clean
  BY CleanBefore
<1>2. Always /\ (Clean => WhileClean)
  BY DEF Inv, Sure, SureClean
<1> QED BY <1>1, <1>2 DEF Sure, SureClean

\* Nothing written, nothing removed.
LEMMA QuietStays ==
  ASSUME Inv, Typed', "collision" \notin causes, Quiet
  PROVE  Stays
<1>1. Typed /\ Kept /\ ExactlyOnce /\ Same /\ causes \subseteq causes' /\ Stored' = Stored /\ queued' = queued
  BY QuietSent DEF Inv, Quiet, Same
<1>2. Kept'
  <2>1. UNCHANGED <<accepted, forbidden>> /\ (Clean' => Clean)
    BY <1>1, CleanBefore DEF Same
  <2>2. AllSafe
    BY <1>1, KeptIs
  <2>3. AllSafe' => Kept'
    BY KeptIs, PTL
  <2> QED BY <1>1, <2>1, <2>2, <2>3 DEF Quiet, Same, AllSafe, Safe
<1>3. ExactlyOnce'
  BY <1>1, ExactStays
<1>4. Always => Always'
  BY <1>1, QuietAlways
<1>5. Always /\ WhileClean => WhileClean'
  BY <1>1, QuietClean
<1>6. Sure' /\ SureClean'
  BY <1>1, <1>4, <1>5, SureStays
<1> QED BY <1>2, <1>3, <1>6 DEF Stays

\* An entry removed.
LEMMA RemovedStays ==
  ASSUME Inv, Typed', "collision" \notin causes, NEW r, Removed(r),
         "wrong" \notin causes' /\ r.cmd = "publish" /\ r.msg \notin forbidden
           => (Trusted(r.msg) => accepted[r.msg] > 0)
  PROVE  Stays
<1>1. /\ Typed /\ Kept /\ ExactlyOnce /\ Same /\ causes \subseteq causes' /\ queued' = queued
      /\ Stored \subseteq Stored' \cup {r}
  BY DEF Inv, Removed, Same
<1>2. Kept'
  <2>1. UNCHANGED accepted /\ (Clean' => Clean)
    BY <1>1, CleanBefore DEF Same
  <2>2. "wrong" \notin causes' /\ r.cmd = "publish" /\ r.msg \notin forbidden => (Safe(r.msg))'
    BY <2>1 DEF Safe, Trusted
  <2> QED BY <1>1, <2>2, KeptStays
<1>3. ExactlyOnce'
  BY <1>1, ExactStays
<1>4. Always => Always'
  BY <1>1, RemovedAlways
<1>5. Always /\ WhileClean /\ Clean' => WhileClean'
  BY <1>1, RemovedClean
<1>6. Sure' /\ SureClean'
  BY <1>1, <1>4, <1>5, SureStays
<1> QED BY <1>2, <1>3, <1>6 DEF Stays

\* An entry replaced.
LEMMA WrittenStays ==
  ASSUME Inv, Typed', "collision" \notin causes, NEW r, NEW e, WrittenRel(r, e) \/ WrittenPub(r, e)
  PROVE  Stays
<1>1. /\ Typed /\ Kept /\ ExactlyOnce /\ Same /\ causes \subseteq causes' /\ queued' = queued
      /\ Stored \subseteq Stored' \cup {r} /\ e \in Stored' /\ e.msg = r.msg
  BY DEF Inv, WrittenRel, WrittenPub, Written, Same
<1>2. Kept'
  <2>1. UNCHANGED accepted /\ (Clean' => Clean)
    BY <1>1, CleanBefore DEF Same
  <2>2. r.cmd = "publish" => (Safe(r.msg))'
    BY <1>1, <2>1 DEF Safe, Trusted, WrittenRel, WrittenPub
  <2> QED BY <1>1, <2>2, KeptStays
<1>3. ExactlyOnce'
  BY <1>1, ExactStays
<1>4. Always => Always'
  BY <1>1, WrittenAlways
<1>5. Always /\ WhileClean /\ Clean' => WhileClean'
  BY <1>1, WrittenRelClean, WrittenPubClean
<1>6. Sure' /\ SureClean'
  BY <1>1, <1>4, <1>5, SureStays
<1> QED BY <1>2, <1>3, <1>6 DEF Stays

\* An entry written to the client.
LEMMA DeliversStays ==
  ASSUME Inv, Typed', "collision" \notin causes, NEW e, Delivers(e)
  PROVE  Stays
<1>1. Typed /\ Kept /\ ExactlyOnce /\ Same /\ causes \subseteq causes' /\ Stored' = Stored /\ queued' = queued
  BY DEF Inv, Delivers, Same, Stored
<1>2. Kept'
  <2>1. UNCHANGED <<accepted, forbidden>> /\ (Clean' => Clean)
    BY <1>1, CleanBefore DEF Same
  <2>2. AllSafe
    BY <1>1, KeptIs
  <2>3. AllSafe' => Kept'
    BY KeptIs, PTL
  <2> QED BY <1>1, <2>1, <2>2, <2>3 DEF AllSafe, Safe
<1>3. ExactlyOnce'
  BY <1>1, ExactStays
<1>4. Always => Always'
  BY <1>1, DeliversAlways
<1>5. Always /\ WhileClean /\ Clean' => WhileClean'
  BY <1>1, DeliversClean
<1>6. Sure' /\ SureClean'
  BY <1>1, <1>4, <1>5, SureStays
<1> QED BY <1>2, <1>3, <1>6 DEF Stays

\* What a step does with the packets, if the client takes none and no messageId
\* is used twice: nothing; an entry removed that is not needed any more, but for
\* what the properties except; an entry replaced; or one written to the client.
Moves ==
  \/ Quiet
  \/ \E r : /\ Removed(r)
            /\ "wrong" \notin causes' /\ r.cmd = "publish" /\ r.msg \notin forbidden
                 => (Trusted(r.msg) => accepted[r.msg] > 0)
  \/ \E r, e : WrittenRel(r, e) \/ WrittenPub(r, e)
  \/ \E e : Delivers(e)

\* It keeps the invariant.
LEMMA MovesStays ==
  ASSUME Inv, Typed', "collision" \notin causes, Moves
  PROVE  Stays
BY QuietStays, RemovedStays, WrittenStays, DeliversStays DEF Moves

\* A handler that fails.
LEMMA FailsIs ==
  ASSUME Frame, Fails
  PROVE  Quiet
<1>1. /\ UNCHANGED <<held, accepted, forbidden, store, queued>> /\ causes \subseteq causes'
      /\ acks' \subseteq acks /\ forwards' \subseteq forwards /\ Queued' \subseteq Queued
      /\ toClient' \in {toClient, <<>>} /\ replies' \subseteq replies
  BY DEF Frame, Fails
<1>2. ToSet(toClient') \subseteq ToSet(toClient) /\ Waiting' \subseteq Waiting
  BY <1>1, NothingSet DEF Waiting
<1>3. Packets' \subseteq Packets
  BY <1>1, <1>2 DEF Packets, Stored, Sent
<1> QED BY <1>1, <1>2, <1>3 DEF Quiet, Same

\* A handler that clears an entry.
LEMMA ClearsIs ==
  ASSUME Typed, Always, Frame, NEW i \in 1..Len(store), Clears(i),
         Clean' => /\ store[i].id \notin held
                   /\ \A p \in Sent : p.cmd = "publish" /\ p.msg \in QoS2 => p.id # store[i].id
  PROVE  Removed(store[i])
<1>1. /\ UNCHANGED <<held, accepted, forbidden, queued, toClient, replies>> /\ causes \subseteq causes'
      /\ acks' \subseteq acks /\ forwards' \subseteq forwards /\ store' = RemoveAt(store, i)
      /\ store \in Seq(Entries) /\ Queued' \subseteq Queued
  BY DEF Frame, Clears, Typed, BrokerTypes
<1>2. /\ Len(store') = Len(store) - 1 /\ Len(store) \in Nat
      /\ \A j \in 1..Len(store') : store'[j] = IF j < i THEN store[j] ELSE store[j + 1]
      /\ Stored' \subseteq Stored /\ Stored \subseteq Stored' \cup {store[i]} /\ store[i] \in Stored
  BY <1>1, RemoveIs, SetIs DEF Stored
<1>3. Packets' \subseteq Packets /\ Waiting' = Waiting
  BY <1>1, <1>2 DEF Packets, Sent, Waiting
<1>4. ASSUME NEW j \in 1..Len(store'), NEW k \in 1..Len(store'), store'[j].msg = store'[k].msg
      PROVE  j = k
  <2> DEFINE At(x) == IF x < i THEN x ELSE x + 1
  <2>1. At(j) \in 1..Len(store) /\ At(k) \in 1..Len(store) /\ (At(j) = At(k) => j = k)
    BY <1>2
  <2>2. store'[j] = store[At(j)] /\ store'[k] = store[At(k)]
    BY <1>2
  <2> HIDE DEF At
  <2> QED BY <1>4, <2>1, <2>2 DEF Always, Numbered
<1> QED BY <1>1, <1>2, <1>3, <1>4 DEF Removed, Same

\* e takes the place of the entry i.
Puts(i, e) == e \in SentPackets /\ store' = [store EXCEPT ![i] = e]

\* What a handler stores, whatever it replaces.
LEMMA ReplacesStore ==
  ASSUME Typed, Frame, NEW i \in 1..Len(store), NEW e, Puts(i, e)
  PROVE  /\ Same /\ queued' = queued /\ acks' \subseteq acks
         /\ store[i] \in Stored /\ store[i] \in Entries /\ e.id # 0
         /\ e \in Stored' /\ Stored' \subseteq Stored \cup {e} /\ Stored \subseteq Stored' \cup {store[i]}
         /\ Len(store') = Len(store)
         /\ \A j \in 1..Len(store) : store'[j] = IF j = i THEN e ELSE store[j]
         /\ Stored' = {store'[j] : j \in 1..Len(store')}
<1>1. /\ UNCHANGED <<held, accepted, forbidden, queued>> /\ causes \subseteq causes'
      /\ acks' \subseteq acks /\ store' = [store EXCEPT ![i] = e]
      /\ store \in Seq(Entries) /\ e \in SentPackets /\ e \in Entries
  BY SentAreEntries DEF Puts, Frame, Typed, BrokerTypes
<1>2. e.id # 0
  BY <1>1, ConstantsAre DEF SentPackets
<1>3. /\ store' \in Seq(Entries) /\ Len(store') = Len(store)
      /\ \A j \in 1..Len(store) : store'[j] = IF j = i THEN e ELSE store[j]
      /\ Stored' \subseteq Stored \cup {e} /\ e \in Stored' /\ Stored \subseteq Stored' \cup {store[i]}
  <2> DEFINE t == [store EXCEPT ![i] = e]
  <2>0. store \in Seq(Entries) /\ e \in Entries
    BY <1>1
  <2>1. /\ t \in Seq(Entries) /\ Len(t) = Len(store)
        /\ \A j \in 1..Len(store) : t[j] = IF j = i THEN e ELSE store[j]
        /\ ToSet(t) \subseteq ToSet(store) \cup {e} /\ e \in ToSet(t)
        /\ ToSet(store) \subseteq ToSet(t) \cup {store[i]}
    BY <2>0, ReplaceIs
  <2>2. store' = t
    BY <1>1
  <2> HIDE DEF t
  <2> QED BY <2>1, <2>2 DEF Stored
<1>4. store[i] \in Stored /\ store[i] \in Entries
  BY <1>1, SetIs DEF Stored
<1>5. Stored' = {store'[j] : j \in 1..Len(store')}
  <2> DEFINE t == store'
  <2>1. t \in Seq(Entries)
    BY <1>3
  <2> HIDE DEF t
  <2>2. ToSet(t) = {t[j] : j \in 1..Len(t)}
    BY <2>1, SetIs
  <2> QED BY <2>2 DEF t, Stored
<1> QED BY <1>1, <1>2, <1>3, <1>4, <1>5 DEF Same

\* A handler that replaces an entry of the same message.
LEMMA ReplacesIs ==
  ASSUME Typed, Always, Frame, NEW i \in 1..Len(store), NEW e, Puts(i, e), e.msg = store[i].msg,
         toClient' = toClient, Waiting' \subseteq Waiting \cup {e}
  PROVE  Written(store[i], e)
<1>1. /\ Same /\ queued' = queued /\ acks' \subseteq acks
      /\ store[i] \in Stored /\ e.id # 0
      /\ e \in Stored' /\ Stored' \subseteq Stored \cup {e} /\ Stored \subseteq Stored' \cup {store[i]}
      /\ Len(store') = Len(store)
      /\ \A j \in 1..Len(store) : store'[j] = IF j = i THEN e ELSE store[j]
      /\ Stored' = {store'[j] : j \in 1..Len(store')}
  BY ReplacesStore
<1>2. Packets' \subseteq Packets \cup {e}
  <2>1. Queued' \subseteq Queued /\ forwards' \subseteq forwards
    BY DEF Frame
  <2> QED BY <1>1, <2>1 DEF Packets, Sent
<1>3. \A j \in 1..Len(store) : store'[j].msg = store[j].msg
  BY <1>1
<1>4. \A j, k \in 1..Len(store') : store'[j].msg = store'[k].msg => j = k
  BY <1>1, <1>3 DEF Always, Numbered
<1>5. \A q \in Stored' : q.msg = e.msg => q = e
  <2>1. store'[i] = e /\ i \in 1..Len(store')
    BY <1>1
  <2> QED BY <1>1, <1>4, <2>1
<1> QED BY <1>1, <1>2, <1>4, <1>5 DEF Written

\* What replaces it.
LEMMA ReplacesBy ==
  ASSUME NEW i, NEW w, Replaces(i, w)
  PROVE  Puts(i, w.entry) /\ toClient' = toClient /\ Waiting' \subseteq Waiting \cup {w.entry}
BY DEF Replaces, Replies, Waits, Waiting, Puts

\* What the invariant says, one by one.
LEMMA InvIs ==
  ASSUME Inv, "collision" \notin causes
  PROVE  /\ Typed /\ Placed /\ Always /\ (Clean => WhileClean)
         /\ \A i \in 1..Len(store) : store[i] \in Stored /\ store[i] \in Packets
<1>1. Typed /\ Always /\ (Clean => WhileClean)
  BY DEF Inv, Sure, SureClean
<1>2. \A i \in 1..Len(store) : store[i] \in Stored
  BY <1>1, SetIs DEF Typed, BrokerTypes, Stored
<1> QED BY <1>1, <1>2, TypedPlaced DEF Placed

\* handlePuback.
LEMMA PubackMoves ==
  ASSUME Inv, Typed', "collision" \notin causes, NEW a \in acks, Puback(a), UNCHANGED forbidden
  PROVE  Moves
<1>0. /\ Typed /\ Placed /\ Always /\ (Clean => WhileClean)
      /\ \A i \in 1..Len(store) : store[i] \in Stored /\ store[i] \in Packets
  BY InvIs
<1>1. /\ Frame /\ a.cmd \in {"puback", "pubcomp"}
      /\ Fails \/ \E i \in 1..Len(store) : store[i].id = a.id /\ Clears(i)
  BY <1>0, PubackIs
<1>2. Frame
  BY <1>1
<1>3. CASE Fails
  BY <1>2, <1>3, FailsIs DEF Moves
<1>4. ASSUME NEW i \in 1..Len(store), store[i].id = a.id, Clears(i) PROVE Moves
  <2>1. /\ store[i].msg \notin forbidden /\ (Trusted(store[i].msg) => accepted[store[i].msg] > 0)
        /\ a.cmd = "puback" <=> store[i].msg \notin QoS2
    BY <1>0, <1>4 DEF Always, Acked
  <2>2. ASSUME Clean PROVE a.id \notin held
    BY <1>0, <1>1, <2>2 DEF WhileClean, NotHeld
  <2>3. ASSUME Clean, NEW p \in Sent, p.cmd = "publish", p.msg \in QoS2 PROVE p.id # a.id
    <3>1. CASE a.cmd = "puback"
      BY <1>0, <2>3, <3>1 DEF Placed, Always, Acked
    <3>2. CASE a.cmd = "pubcomp"
      BY <1>0, <2>3, <3>2 DEF WhileClean, NotHeld
    <3> QED BY <1>1, <3>1, <3>2
  <2>4. Clean' => Clean
    BY <1>2, CleanBefore DEF Frame
  <2>5. Removed(store[i])
    BY <1>0, <1>2, <1>4, <2>2, <2>3, <2>4, ClearsIs
  <2> QED BY <2>1, <2>5 DEF Moves
<1> QED BY <1>1, <1>3, <1>4

\* handlePubrec.
LEMMA PubrecMoves ==
  ASSUME Inv, Typed', "collision" \notin causes, NEW a \in acks, Pubrec(a), UNCHANGED forbidden
  PROVE  Moves
<1>0. /\ Typed /\ Placed /\ Always
      /\ \A i \in 1..Len(store) : store[i] \in Stored /\ store[i] \in Packets
  BY InvIs
<1>1. /\ Frame /\ a.cmd = "pubrec"
      /\ Fails \/ \E i \in 1..Len(store) : store[i].id = a.id /\ Replaces(i, PubrelFor(a, i))
  BY <1>0, PubrecIs
<1>2. Frame
  BY <1>1
<1>3. CASE Fails
  BY <1>2, <1>3, FailsIs DEF Moves
<1>4. ASSUME NEW i \in 1..Len(store), store[i].id = a.id, Replaces(i, PubrelFor(a, i))
      PROVE  Moves
  <2> DEFINE e == PubrelFor(a, i).entry
  <2>1. /\ store[i].msg \in QoS2 \ forbidden
        /\ Trusted(store[i].msg) => accepted[store[i].msg] > 0
    BY <1>0, <1>1, <1>4 DEF Always, Acked
  <2>2. e.msg = store[i].msg /\ e.cmd = "pubrel" /\ e.id = store[i].id /\ e = PubrelFor(a, i).entry
    BY <1>4 DEF PubrelFor
  <2> HIDE DEF e
  <2>3. Written(store[i], e)
    <3>1. Puts(i, e) /\ toClient' = toClient /\ Waiting' \subseteq Waiting \cup {e}
      BY <1>4, <2>2, ReplacesBy
    <3> QED BY <1>0, <1>2, <2>2, <3>1, ReplacesIs
  <2>4. WrittenRel(store[i], e)
    BY <2>1, <2>2, <2>3 DEF WrittenRel
  <2> QED BY <2>4 DEF Moves
<1> QED BY <1>1, <1>3, <1>4

\* deliverQoS and emptyQueue when authorizeForward refuses.
LEMMA ClearRefusedMoves ==
  ASSUME Inv, Typed', "collision" \notin causes, NEW f \in forwards, ClearRefused(f), UNCHANGED forbidden
  PROVE  Moves
<1>0. /\ Typed /\ Placed /\ Always /\ (Clean => WhileClean)
      /\ \A i \in 1..Len(store) : store[i] \in Stored /\ store[i] \in Packets
  BY InvIs
<1>1. /\ Frame /\ f.entry \in Packets
      /\ f.entry.id # 0 => f.entry.msg \in forbidden
      /\ \/ Fails
         \/ \E i \in 1..Len(store) :
              /\ store[i].id = f.entry.id /\ Clears(i)
              /\ f.entry.id = 0 /\ store[i].msg \notin forbidden => "wrong" \in causes'
  BY <1>0, ClearRefusedIs DEF Pending, Packets
<1>2. CASE Fails
  BY <1>1, <1>2, FailsIs DEF Moves
<1>3. ASSUME NEW i \in 1..Len(store), store[i].id = f.entry.id, Clears(i),
             f.entry.id = 0 /\ store[i].msg \notin forbidden => "wrong" \in causes'
      PROVE  Moves
  <2>1. f.entry.id # 0 => store[i].msg \in forbidden
    BY <1>0, <1>1, <1>3 DEF Always, Unique
  <2>2. ASSUME Clean PROVE store[i].id \notin held /\ \A p \in Sent : p.id # store[i].id
    <3>1. CASE f.entry.id = 0
      BY <1>0, <1>3, <3>1 DEF Placed
    <3>2. CASE f.entry.id # 0
      <4>1. store[i].msg \in forbidden /\ accepted[store[i].msg] = 0
        BY <1>0, <2>1, <3>2 DEF Always, NeverSent
      <4>2. store[i].id \notin held
        BY <1>0, <2>2, <4>1 DEF WhileClean, HeldTaken
      <4>3. ASSUME NEW p \in Sent, p.id = store[i].id PROVE FALSE
        <5>1. p.msg = store[i].msg
          BY <1>0, <4>3 DEF Placed, Always, Unique
        <5> QED BY <1>0, <4>1, <5>1 DEF Always, NeverSent
      <4> QED BY <4>2, <4>3
    <3> QED BY <3>1, <3>2
  <2>3. Clean' => Clean
    BY <1>1, CleanBefore DEF Frame
  <2>4. Removed(store[i])
    BY <1>0, <1>1, <1>3, <2>2, <2>3, ClearsIs
  <2> QED BY <1>3, <2>1, <2>4 DEF Moves
<1> QED BY <1>1, <1>2, <1>3

\* A messageId that is not in use by other messages.
LEMMA UsedIs ==
  ASSUME NEW m, NEW id, id \notin Used(m)
  PROVE  /\ \A p \in Packets : p.id = id => p.msg = m
         /\ \A a \in acks : a.id # id
<1> DEFINE U == Stored \cup Sent \cup Queued \cup {f.entry : f \in forwards \cup replies}
<1>1. Used(m) = {p.id : p \in {q \in U : q.msg # m}} \cup {a.id : a \in acks}
  BY DEF Used, Stored, Sent, Queued
<1>2. Packets \subseteq U
  BY DEF Packets, Waiting
<1> HIDE DEF U
<1> QED BY <1>1, <1>2

\* deliverQoS and emptyQueue: the entry that is replaced.
LEMMA UpdatePlace ==
  ASSUME Inv, NEW x \in Pending, NEW w, Updates(x, w), NEW e, e = w.entry
  PROVE  LET i == Place(e) IN
         /\ i \in 1..Len(store) /\ x \in Packets /\ Replaces(i, w)
         /\ e.cmd = x.cmd /\ e.msg = x.msg /\ e.id # 0 /\ e.cmd \in {"publish", "pubrel"}
         /\ \/ e.cmd = "publish" /\ store[i].cmd = "publish" /\ store[i].msg = e.msg
            \/ store[i].id = e.id /\ (e.cmd = "pubrel" \/ store[i].cmd = "pubrel")
<1>1. /\ e.cmd = x.cmd /\ e.msg = x.msg /\ Replaces(Place(e), w)
      /\ store \in Seq(Entries)
  BY DEF Updates, Inv, Typed, BrokerTypes
<1>2. e \in SentPackets /\ Place(e) \in 1..Len(store)
  BY <1>1 DEF Replaces, Replies
<1>3. e \in Entries /\ e.id # 0 /\ e.cmd \in {"publish", "pubrel"}
  BY <1>2, SentAreEntries, ConstantsAre DEF SentPackets
<1>4. x \in Packets /\ ~(Place(e) = 0)
  BY <1>2 DEF Pending, Packets
<1> QED BY <1>1, <1>2, <1>3, <1>4, PlaceIs

\* The entry is given a messageId that is that of no other message.
LEMMA UpdateWrites ==
  ASSUME Inv, Typed', "collision" \notin causes, Frame, NEW x \in Pending, NEW w, Updates(x, w),
         x.id = 0 => w.entry.id \notin Used(x.msg)
  PROVE  Moves
<1> DEFINE e == w.entry
           i == Place(e)
           r == store[i]
<1>0. /\ Typed /\ Placed /\ Always /\ (Clean => WhileClean)
      /\ \A j \in 1..Len(store) : store[j] \in Stored /\ store[j] \in Packets
  BY InvIs
<1>1. /\ i \in 1..Len(store) /\ x \in Packets /\ Replaces(i, w)
      /\ e.cmd = x.cmd /\ e.msg = x.msg /\ e.id # 0 /\ e.cmd \in {"publish", "pubrel"}
      /\ \/ e.cmd = "publish" /\ r.cmd = "publish" /\ r.msg = e.msg
         \/ r.id = e.id /\ (e.cmd = "pubrel" \/ r.cmd = "pubrel")
  BY UpdatePlace
<1>2. /\ r.id \notin {0, e.id} => "renamed" \in causes'
      /\ r.cmd # x.cmd => "stale" \in causes'
      /\ x.id # 0 => e.id = x.id
      /\ x.id = 0 => e.id \notin Used(x.msg)
  BY DEF Updates
<1>3. r \in Stored /\ r \in Packets
  BY <1>0, <1>1
<1>4. e = w.entry /\ r = store[i]
  OBVIOUS
<1> HIDE DEF e, i, r
<1>5. \A p \in Packets : p.id = e.id => p.msg = e.msg
  <2>1. CASE x.id = 0
    BY <1>1, <1>2, <2>1, UsedIs
  <2>2. CASE x.id # 0
    BY <1>0, <1>1, <1>2, <2>2 DEF Always, Unique
  <2> QED BY <2>1, <2>2
<1>6. r.msg = e.msg
  BY <1>1, <1>3, <1>5
<1>7. e.cmd = "pubrel" =>
        /\ e.msg \in QoS2 \ forbidden /\ (Trusted(e.msg) => accepted[e.msg] > 0)
        /\ r.id = e.id
  BY <1>0, <1>1 DEF Always, Released
<1>8. Written(r, e)
  <2>1. Puts(i, e) /\ toClient' = toClient /\ Waiting' \subseteq Waiting \cup {e}
    BY <1>1, <1>4, ReplacesBy
  <2> QED BY <1>0, <1>1, <1>4, <1>6, <2>1, ReplacesIs
<1>9. CASE e.cmd = "pubrel"
  <2>1. WrittenRel(r, e)
    BY <1>7, <1>8, <1>9 DEF WrittenRel
  <2> QED BY <2>1 DEF Moves
<1>10. CASE e.cmd = "publish"
  <2>1. Clean' => Clean /\ r.cmd = "publish" /\ r.id \in {0, e.id}
    BY <1>1, <1>2, <1>10, CleanBefore DEF Frame, Clean
  <2>2. ASSUME NEW a \in acks, a.id = e.id
        PROVE  /\ e.msg \notin forbidden /\ (Trusted(e.msg) => accepted[e.msg] > 0)
               /\ a.cmd = "puback" <=> e.msg \notin QoS2
               /\ Clean' => r.id # 0
    <3>1. x.id # 0
      BY <1>1, <1>2, <2>2, UsedIs
    <3>2. x.id = a.id
      BY <1>2, <2>2, <3>1
    <3>3. /\ e.msg \notin forbidden /\ (Trusted(e.msg) => accepted[e.msg] > 0)
          /\ a.cmd = "puback" <=> e.msg \notin QoS2
      BY <1>0, <1>1, <3>2 DEF Always, Acked
    <3>4. ASSUME Clean' PROVE r.id # 0
      BY <1>0, <1>1, <1>3, <1>6, <2>1, <3>1, <3>4 DEF WhileClean, Fresh
    <3> QED BY <3>3, <3>4
  <2>3. WrittenPub(r, e)
    BY <1>5, <1>8, <1>10, <2>1, <2>2 DEF WrittenPub
  <2> QED BY <2>3 DEF Moves
<1> QED BY <1>1, <1>9, <1>10

\* The entry is given a messageId that may be another message's: then nothing is
\* followed any further.
LEMMA UpdateCollides ==
  ASSUME Inv, Typed', "collision" \notin causes, "collision" \in causes', Frame,
         NEW x \in Pending, NEW w, Updates(x, w), x.id = 0
  PROVE  Same /\ Stays
<1> DEFINE e == w.entry
           i == Place(e)
<1> PICK r : r = store[i]
  OBVIOUS
<1>0. Typed /\ Always /\ Kept /\ ExactlyOnce
  BY InvIs DEF Inv
<1>1. /\ i \in 1..Len(store) /\ x \in Packets /\ Replaces(i, w)
      /\ e.cmd = x.cmd /\ e.cmd \in {"publish", "pubrel"}
      /\ \/ e.cmd = "publish" /\ r.cmd = "publish" /\ r.msg = e.msg
         \/ e.cmd = "pubrel" \/ r.cmd = "pubrel"
  BY UpdatePlace
<1>2. e = w.entry
  OBVIOUS
<1> HIDE DEF e, i
<1>3. /\ Same /\ queued' = queued /\ e \in Stored' /\ Stored \subseteq Stored' \cup {r}
  <2>1. Puts(i, e)
    BY <1>1, <1>2, ReplacesBy
  <2> QED BY <1>0, <1>1, <2>1, ReplacesStore
<1>4. e.cmd = "publish"
  BY <1>0, <1>1 DEF Always, Numbered
<1>5. r.cmd = "publish" => (Safe(r.msg))'
  BY <1>1, <1>3, <1>4 DEF Safe
<1>6. Kept'
  BY <1>0, <1>3, <1>5, KeptStays
<1>7. ExactlyOnce'
  BY <1>0, <1>3, ExactStays
<1> QED BY <1>3, <1>6, <1>7 DEF Stays, Sure, SureClean

\* deliverQoS and emptyQueue, up to the answer of outgoingUpdate.
LEMMA UpdateMoves ==
  ASSUME Inv, Typed', "collision" \notin causes, Frame,
         Fails \/ \E x \in Pending : \E w : Updates(x, w)
  PROVE  Moves \/ ("collision" \in causes' /\ Same /\ Stays)
<1>1. CASE Fails
  BY <1>1, FailsIs DEF Moves
<1>2. ASSUME NEW x \in Pending, NEW w, Updates(x, w)
      PROVE  Moves \/ ("collision" \in causes' /\ Same /\ Stays)
  <2>1. CASE x.id = 0 => w.entry.id \notin Used(x.msg)
    BY <1>2, <2>1, UpdateWrites
  <2>2. CASE x.id = 0 /\ w.entry.id \in Used(x.msg)
    <3>1. "collision" \in causes'
      BY <1>2, <2>2 DEF Updates
    <3> QED BY <1>2, <2>2, <3>1, UpdateCollides
  <2> QED BY <2>1, <2>2
<1> QED BY <1>1, <1>2

\* outgoingUpdate has answered.
LEMMA AnswerMoves ==
  ASSUME Inv, Typed', "collision" \notin causes, NEW r \in replies, Answer(r), UNCHANGED forbidden
  PROVE  Moves
<1> DEFINE e == r.entry
<1>0. Typed
  BY DEF Inv
<1>1. /\ UNCHANGED <<held, accepted, forbidden, queued, acks, store, queue>>
      /\ replies' = replies \ {r} /\ causes \subseteq causes'
      /\ \/ Refused(e) /\ forwards' = forwards \cup {[r EXCEPT !.by = "clearing"]} /\ toClient' = toClient
         \/ /\ ~Refused(e) /\ toClient' = Append(toClient, e) /\ forwards' = forwards
            /\ Overtaken(e) => "stale" \in causes'
  BY DEF Answer, client, topics
<1>2. /\ Stored' = Stored /\ Queued' = Queued /\ Same
      /\ Waiting' \subseteq Waiting /\ e \in Waiting /\ r \in Replies
  BY <1>0, <1>1 DEF Stored, Queued, Waiting, Same, Typed, BrokerTypes
<1>3. e \in SentPackets
  BY <1>2 DEF Replies
<1>4. CASE forwards' = forwards \cup {[r EXCEPT !.by = "clearing"]} /\ toClient' = toClient
  <2>1. [r EXCEPT !.by = "clearing"].entry = e
    BY <1>2 DEF Replies
  <2> HIDE DEF e
  <2>2. Packets' \subseteq Packets
    BY <1>2, <1>4, <2>1 DEF Packets, Sent
  <2> QED BY <1>1, <1>2, <1>4, <2>2 DEF Quiet, Moves
<1>5. CASE /\ ~Refused(e) /\ toClient' = Append(toClient, e) /\ forwards' = forwards
           /\ Overtaken(e) => "stale" \in causes'
  <2> HIDE DEF e
  <2>1. toClient \in Seq(SentPackets) /\ store \in Seq(Entries)
    BY <1>0 DEF Typed, BrokerTypes
  <2> DEFINE t == Append(toClient, e)
  <2>2. /\ Len(t) = Len(toClient) + 1 /\ t[Len(toClient) + 1] = e
        /\ \A j \in 1..Len(toClient) : t[j] = toClient[j]
        /\ ToSet(t) = ToSet(toClient) \cup {e}
    BY <1>3, <2>1, AppendIs
  <2> HIDE DEF t
  <2>3. Len(toClient) \in Nat /\ \A j \in 1..Len(toClient) : toClient[j] \in Sent
    BY <2>1, SetIs DEF Sent
  <2>4. ASSUME NEW j \in 1..Len(t), NEW k \in 1..Len(t), j < k
        PROVE  /\ j \in 1..Len(toClient) /\ t[j] = toClient[j] /\ toClient[j] \in Sent
               /\ t[k] = e \/ (k \in 1..Len(toClient) /\ t[k] = toClient[k])
    <3>1. j \in 1..Len(toClient) /\ (k \in 1..Len(toClient) \/ k = Len(toClient) + 1)
      BY <2>2, <2>3, <2>4
    <3> QED BY <2>2, <2>3, <3>1
  <2>5. toClient' = t /\ Sent' = Sent \cup {e}
    BY <1>5, <2>2 DEF t, Sent
  <2>6. Packets' \subseteq Packets
    BY <1>2, <1>5, <2>5 DEF Packets
  <2>7. e.cmd = "publish" => e.msg \notin forbidden
    BY <1>5 DEF Refused
  <2>8. ASSUME Clean', e.cmd = "publish", e.msg \in QoS2
        PROVE  \E q \in Stored : q.cmd = "publish" /\ q.msg = e.msg
    <3>1. ~Overtaken(e)
      BY <1>5, <2>8 DEF Clean
    <3>2. PICK i \in DOMAIN store : store[i].cmd = "publish" /\ store[i].msg = e.msg
      BY <2>8, <3>1 DEF Overtaken
    <3>3. store[i] \in Stored
      BY <2>1, <3>2, SetIs, LenProperties DEF Stored
    <3> QED BY <3>2, <3>3
  <2>9. Delivers(e)
    BY <1>1, <1>2, <2>4, <2>5, <2>6, <2>7, <2>8 DEF Delivers
  <2> QED BY <2>9 DEF Moves
<1> QED BY <1>1, <1>4, <1>5

\* The steps that write nothing and remove nothing.
LEMMA QuietSteps ==
  ASSUME Typed, UNCHANGED forbidden, Connect \/ Lose \/ Emit \/ RestoreSubs \/ EmptyQueue
  PROVE  Quiet
<1>1. CASE Connect \/ RestoreSubs
  <2>1. /\ UNCHANGED <<held, accepted, store, queued, acks, toClient, queue, forwards, replies, causes>>
    BY <1>1 DEF Connect, RestoreSubs, client, topics, chains
  <2> QED BY <2>1 DEF Quiet, Same, Packets, Stored, Sent, Waiting, Queued
<1>2. CASE Lose
  <2>1. /\ UNCHANGED <<held, accepted, store, queued, queue, forwards, causes>>
        /\ toClient' = <<>> /\ replies' \subseteq replies /\ acks' \subseteq acks
    BY <1>2 DEF Lose, Closed, client, topics
  <2>2. Packets' \subseteq Packets /\ Waiting' \subseteq Waiting
    BY <2>1, NothingSet DEF Packets, Stored, Sent, Waiting, Queued
  <2> QED BY <2>1, <2>2 DEF Quiet, Same
<1>3. CASE EmptyQueue
  <2>1. /\ UNCHANGED <<held, accepted, store, queued, acks, toClient, forwards, replies, causes>>
        /\ queue \in [Conns -> Seq(Entries)] /\ queue' = [queue EXCEPT ![conn] = store]
    BY <1>3 DEF EmptyQueue, client, topics, chains, Typed, BrokerTypes
  <2>2. \A c \in Conns : queue'[c] \in {queue[c], store}
    BY <2>1
  <2>3. Queued' \subseteq Queued \cup Stored
    BY <2>2 DEF Queued, Stored
  <2>4. Packets' \subseteq Packets /\ Waiting' \subseteq Waiting
    BY <2>1, <2>3 DEF Packets, Stored, Sent, Waiting
  <2> QED BY <2>1, <2>4 DEF Quiet, Same
<1>4. CASE Emit
  <2> DEFINE n == [cmd |-> "publish", msg |-> emitted + 1, id |-> 0]
  <2>1. /\ UNCHANGED <<held, accepted, forbidden, causes, store, queue, queued, acks, toClient, replies>>
        /\ \A f \in forwards' : f \in forwards \/ f.entry = n
    BY <1>4 DEF Emit, client
  <2>2. emitted + 1 <= queued
    <3>1. emitted < queued /\ emitted \in Nat /\ queued \in Nat
      BY <1>4, ConstantsAre DEF Emit, Typed, BrokerTypes
    <3> QED BY <3>1
  <2>3. n.cmd = "publish" /\ n.id = 0 /\ n.msg <= queued
    BY <2>2
  <2> HIDE DEF n
  <2>4. \A p \in Packets' : p \in Packets \/ p = n
    BY <2>1 DEF Packets, Stored, Sent, Waiting, Queued
  <2> QED BY <2>1, <2>3, <2>4 DEF Quiet, Same, Waiting
<1> QED BY <1>1, <1>2, <1>3, <1>4

\* Receive.
LEMMA ReceiveStays ==
  ASSUME Inv, Typed', "collision" \notin causes, Receive, UNCHANGED forbidden
  PROVE  Stays
<1>0. Typed /\ Placed /\ Always /\ (Clean => WhileClean) /\ SureClean /\ Kept
  BY InvIs DEF Inv
<1>1. PICK p : Received(p)
  BY <1>0, ReceiveIs
<1>2. UNCHANGED <<store, queued, forbidden, causes>> /\ Stored' = Stored
  BY <1>1 DEF Received
<1>3. \A m \in Msgs : accepted[m] > 0 => accepted'[m] > 0
  BY <1>0, <1>1, ReceivedTakes
<1>4. Kept'
  <2>1. AllSafe /\ (AllSafe' => Kept')
    BY <1>0, KeptIs, PTL
  <2>2. \A m \in (1..queued) \ forbidden : m \in Msgs
    BY <1>0, ConstantsAre DEF Typed, BrokerTypes, Msgs
  <2>3. ASSUME "wrong" \notin causes, NEW m \in (1..queued) \ forbidden PROVE (Safe(m))'
    <3>1. Safe(m) /\ m \in Msgs
      BY <2>1, <2>2, <2>3 DEF AllSafe
    <3> QED BY <1>2, <1>3, <3>1 DEF Safe, Clean
  <2> QED BY <1>2, <2>1, <2>3 DEF AllSafe
<1>5. Always'
  BY <1>0, <1>1, ReceivedAlways
<1>6. Clean => WhileClean'
  BY <1>0, <1>1, ReceivedClean
<1>7. Sure' /\ SureClean'
  BY <1>2, <1>5, <1>6 DEF Sure, SureClean, Clean
<1>8. ExactlyOnce'
  <2>1. ("collision" \notin causes)'
    BY <1>2
  <2>2. SureClean'
    BY <1>7
  <2> QED BY <2>1, <2>2, OnceIsExact, PTL
<1> QED BY <1>4, <1>7, <1>8 DEF Stays

\* Enqueue.
LEMMA EnqueueStays ==
  ASSUME Inv, Typed', "collision" \notin causes, Enqueue, UNCHANGED forbidden
  PROVE  Stays
<1>0. Typed /\ Placed /\ Always /\ (Clean => WhileClean) /\ Kept /\ ExactlyOnce
  BY InvIs DEF Inv
<1> DEFINE n == [cmd |-> "publish", msg |-> queued + 1, id |-> 0]
<1>1. /\ UNCHANGED <<held, accepted, forbidden, toClient, acks, causes>> /\ queued' = queued + 1
      /\ Stored' = Stored \cup {n} /\ queued \in Nat
  BY <1>0, EnqueueIs
<1>2. n.cmd = "publish" /\ n.msg = queued + 1
  OBVIOUS
<1> HIDE DEF n
<1>3. Kept'
  <2>1. AllSafe /\ (AllSafe' => Kept')
    BY <1>0, KeptIs, PTL
  <2>2. ASSUME "wrong" \notin causes, NEW m \in (1..queued') \ forbidden PROVE (Safe(m))'
    <3>1. CASE m = queued + 1
      BY <1>1, <1>2, <3>1 DEF Safe
    <3>2. CASE m \in 1..queued
      <4>1. Safe(m)
        BY <2>1, <2>2, <3>2 DEF AllSafe
      <4> QED BY <1>1, <4>1 DEF Safe, Clean
    <3> QED BY <1>1, <3>1, <3>2
  <2> QED BY <1>1, <2>1, <2>2 DEF AllSafe
<1>4. Always' /\ (WhileClean => WhileClean')
  BY <1>0, EnqueueKeeps
<1>5. Sure' /\ SureClean'
  BY <1>0, <1>1, <1>4 DEF Sure, SureClean, Clean
<1>6. ExactlyOnce'
  BY <1>0, <1>1 DEF ExactlyOnce
<1> QED BY <1>3, <1>5, <1>6 DEF Stays

\* The broker's steps.
LEMMA WorkMoves ==
  ASSUME Inv, Typed', Step(Work)
  PROVE  Moves \/ ("collision" \in causes' /\ Same /\ Stays)
<1>0. Typed /\ "collision" \notin causes /\ UNCHANGED forbidden
  BY DEF Step, Inv
<1>1. CASE Emit \/ RestoreSubs \/ EmptyQueue
  BY <1>0, <1>1, QuietSteps DEF Moves
<1>2. ASSUME NEW c \in Conns, StreamNext(c) PROVE Moves \/ ("collision" \in causes' /\ Same /\ Stays)
  BY <1>0, <1>2, StreamNextIs, UpdateMoves
<1>3. ASSUME NEW f \in forwards, Forward(f) PROVE Moves \/ ("collision" \in causes' /\ Same /\ Stays)
  BY <1>0, <1>3, ForwardIs, UpdateMoves
<1>4. ASSUME NEW f \in forwards, ClearRefused(f) PROVE Moves
  BY <1>0, <1>4, ClearRefusedMoves
<1>5. ASSUME NEW r \in replies, Answer(r) PROVE Moves
  BY <1>0, <1>5, AnswerMoves
<1>6. ASSUME NEW a \in acks, Puback(a) PROVE Moves
  BY <1>0, <1>6, PubackMoves
<1>7. ASSUME NEW a \in acks, Pubrec(a) PROVE Moves
  BY <1>0, <1>7, PubrecMoves
<1> QED BY <1>1, <1>2, <1>3, <1>4, <1>5, <1>6, <1>7 DEF Step, Work

\* Every step keeps the invariant.
LEMMA NextInv == Inv /\ [Next]_vars => Inv'
<1> SUFFICES ASSUME Inv, [Next]_vars PROVE Inv'
  OBVIOUS
<1>0. Typed /\ Typed'
  BY NextTyped DEF Inv
<1>1. CASE Step(Connect) \/ Step(Lose)
  <2>1. "collision" \notin causes /\ Quiet
    BY <1>0, <1>1, QuietSteps DEF Step
  <2> QED BY <1>0, <2>1, QuietStays DEF Inv, Stays
<1>2. CASE Step(Receive)
  BY <1>0, <1>2, ReceiveStays DEF Step, Inv, Stays
<1>3. CASE Step(Enqueue)
  BY <1>0, <1>3, EnqueueStays DEF Step, Inv, Stays
<1>4. CASE Step(Work)
  <2>1. "collision" \notin causes /\ (Moves \/ Stays)
    BY <1>0, <1>4, WorkMoves DEF Step
  <2> QED BY <1>0, <2>1, MovesStays DEF Inv, Stays
<1>5. CASE UNCHANGED vars
  <2>1. UNCHANGED <<held, accepted, toClient, acks, queued, store, queue, forwards, replies, forbidden, causes>>
    BY <1>5 DEF vars, client, topics, chains
  <2>2. Stored' = Stored /\ Sent' = Sent /\ Waiting' = Waiting /\ Packets' = Packets
    BY <2>1 DEF Stored, Sent, Waiting, Queued, Packets
  <2>3. Kept' /\ ExactlyOnce'
    BY <2>1 DEF Inv, Kept, ExactlyOnce
  <2>4. Sure' <=> Sure
    BY <2>1, <2>2 DEF Sure, Always, Numbered, Unique, Acked, Released, NeverSent, Trusted, Clean
  <2>5. SureClean' <=> SureClean
    BY <2>1, <2>2
    DEF SureClean, WhileClean, HeldStored, HeldTaken, NotHeld, Fresh, Ordered, SameId, Once, Clean
  <2> QED BY <1>0, <2>3, <2>4, <2>5 DEF Inv
<1> QED BY <1>1, <1>2, <1>3, <1>4, <1>5 DEF Next

-----------------------------------------------------------------------------
(***************************************************************************)
(* The theorems.                                                           *)
(***************************************************************************)
\* The invariant holds in every behaviour.
LEMMA InvAlways == Spec => []Inv
<1> QED BY InitInv, NextInv, PTL DEF Spec

\* A message stored for the session stays stored until the client has it
\* (handlePuback, handlePubrec, deliverQoS and emptyQueue, for any messages,
\* connections and messageIds), except as Kept says.
THEOREM KeptSafe == Spec => [](TypeOK /\ Kept)
<1>1. Inv => TypeOK /\ Kept
  BY TypedIsTypeOK DEF Inv
<1> QED BY <1>1, InvAlways, PTL

\* A QoS 2 message is taken once, over any number of connections, except as
\* ExactlyOnce says.
THEOREM ExactlyOnceSafe == Spec => []ExactlyOnce
<1>1. Inv => ExactlyOnce
  BY DEF Inv
<1> QED BY <1>1, InvAlways, PTL

-----------------------------------------------------------------------------
(***************************************************************************)
(* The exchange implements Handover.                                       *)
(***************************************************************************)
\* What Handover calls sent and settled, and the latter in terms of packets.
Owed == (1..queued) \ forbidden
Settled == {m \in Owed : \A i \in DOMAIN store : store[i].msg # m}
Gone == {m \in Owed : \A p \in Stored : p.msg # m}
SettledIsGone == Settled = Gone

\* It is the same.
LEMMA GoneIs == Typed => SettledIsGone
<1> SUFFICES ASSUME Typed PROVE Settled = Gone
  BY DEF SettledIsGone
<1>1. store \in Seq(Entries)
  BY DEF Typed, BrokerTypes
<1>2. Stored = {store[i] : i \in 1..Len(store)} /\ DOMAIN store = 1..Len(store)
  BY <1>1, SetIs, LenProperties DEF Stored
<1> QED BY <1>2 DEF Settled, Gone

\* The steps of Handover in these terms.
Sends(m) ==
  /\ m \notin Owed /\ Owed' = Owed \cup {m} /\ UNCHANGED <<accepted, Gone>>
Takes(m) ==
  /\ m \in Owed /\ accepted' = [accepted EXCEPT ![m] = @ + 1]
  /\ Trusted(m)' => accepted[m] = 0 \/ m \notin QoS2
  /\ UNCHANGED <<Owed, Gone>>
GivesUp(m) ==
  /\ m \in Owed \ Gone /\ Gone' = Gone \cup {m}
  /\ "wrong" \notin causes' /\ Trusted(m)' => accepted[m] > 0
  /\ UNCHANGED <<accepted, Owed>>

\* The broker gives up one message at a time, which the client has taken but for
\* what Kept excepts, and never takes one up again.
LEMMA MovesSettle ==
  ASSUME Typed, Always, Moves
  PROVE  UNCHANGED <<accepted, Owed, Gone>> \/ \E m \in Msgs : GivesUp(m)
<1>1. CASE Quiet \/ \E e : Delivers(e)
  <2>1. Same /\ queued' = queued /\ Stored' = Stored
    BY <1>1, QuietSent DEF Quiet, Delivers, Stored
  <2> QED BY <2>1 DEF Same, Gone, Owed
<1>2. ASSUME NEW r, NEW e, WrittenRel(r, e) \/ WrittenPub(r, e)
      PROVE  UNCHANGED <<accepted, Owed, Gone>>
  <2>1. /\ Same /\ queued' = queued /\ e.msg = r.msg /\ r \in Stored /\ e \in Stored'
        /\ Stored' \subseteq Stored \cup {e} /\ Stored \subseteq Stored' \cup {r}
    BY <1>2 DEF WrittenRel, WrittenPub, Written
  <2>2. \A m : (\A p \in Stored : p.msg # m) <=> (\A p \in Stored' : p.msg # m)
    BY <2>1
  <2> QED BY <2>1, <2>2 DEF Same, Gone, Owed
<1>3. ASSUME NEW r, Removed(r),
             "wrong" \notin causes' /\ r.cmd = "publish" /\ r.msg \notin forbidden
               => (Trusted(r.msg) => accepted[r.msg] > 0)
      PROVE  UNCHANGED <<accepted, Owed, Gone>> \/ \E m \in Msgs : GivesUp(m)
  <2>1. /\ Same /\ queued' = queued /\ UNCHANGED <<accepted, forbidden>>
        /\ r \in Stored /\ Stored' \subseteq Stored /\ Stored \subseteq Stored' \cup {r}
    BY <1>3 DEF Removed, Same
  <2>2. Owed' = Owed
    BY <2>1 DEF Owed
  <2>3. CASE r.msg \in Owed /\ \A p \in Stored' : p.msg # r.msg
    <3>1. r.msg \in Owed \ Gone /\ Gone' = Gone \cup {r.msg}
      BY <2>1, <2>2, <2>3 DEF Gone
    <3>2. /\ r \in Packets /\ r.cmd \in {"publish", "pubrel"} /\ r.msg \notin forbidden
          /\ r.msg \in Msgs
      BY <2>1, <2>3, TypedPlaced DEF Placed, Owed
    <3>3. Trusted(r.msg)' => Trusted(r.msg)
      BY <2>1, CleanBefore DEF Same
    <3>4. "wrong" \notin causes' /\ Trusted(r.msg)' => accepted[r.msg] > 0
      BY <1>3, <3>2, <3>3 DEF Always, Released
    <3> QED BY <2>1, <2>2, <3>1, <3>2, <3>4 DEF GivesUp
  <2>4. CASE ~(r.msg \in Owed /\ \A p \in Stored' : p.msg # r.msg)
    <3>1. Gone' = Gone
      BY <2>1, <2>2, <2>4 DEF Gone
    <3> QED BY <2>1, <2>2, <3>1
  <2> QED BY <2>3, <2>4
<1> QED BY <1>1, <1>2, <1>3 DEF Moves

\* They are that.
LEMMA HandsOver ==
  ASSUME Typed, Typed', causes \subseteq causes',
         \/ UNCHANGED <<accepted, Owed, Gone>>
         \/ \E m \in Msgs : Sends(m) \/ Takes(m) \/ GivesUp(m)
         \/ "collision" \in causes'
  PROVE  Exchange!Next
<1>0. Settled = Gone /\ Settled' = Gone' /\ QoS2 \subseteq Msgs
  <2>1. SettledIsGone /\ SettledIsGone'
    BY GoneIs, PTL
  <2> QED BY <2>1, OutgoingAssumption DEF SettledIsGone
<1>1. Exchange!Withdraw
  BY <1>0 DEF Exchange!Withdraw
<1>2. CASE UNCHANGED <<accepted, Owed, Gone>>
  BY <1>0, <1>1, <1>2 DEF Exchange!Next, Owed, Settled
<1>3. ASSUME NEW m \in Msgs, Sends(m) PROVE Exchange!Next
  <2>1. Exchange!Send(m)
    BY <1>0, <1>3 DEF Exchange!Send, Sends, Owed, Settled
  <2> QED BY <1>1, <2>1 DEF Exchange!Next
<1>4. ASSUME NEW m \in Msgs, Takes(m) PROVE Exchange!Next
  <2>1. accepted[m] = 0 \/ m \in (IF causes \cap {"renamed", "stale"} = {} THEN Msgs \ QoS2 ELSE Msgs)'
    BY <1>4 DEF Takes, Trusted, Clean
  <2>2. Exchange!Take(m)
    BY <1>0, <1>4, <2>1 DEF Exchange!Take, Takes, Owed, Settled
  <2> QED BY <1>1, <2>2 DEF Exchange!Next
<1>5. ASSUME NEW m \in Msgs, GivesUp(m) PROVE Exchange!Next
  <2>1. accepted[m] > 0 \/ m \in (IF "wrong" \in causes THEN Msgs
                                  ELSE IF causes \cap {"renamed", "stale"} = {} THEN {} ELSE QoS2)'
    BY <1>5 DEF GivesUp, Trusted, Clean
  <2>2. Exchange!Settle(m)
    BY <1>0, <1>5, <2>1 DEF Exchange!Settle, GivesUp, Owed, Settled
  <2> QED BY <1>1, <2>2 DEF Exchange!Next
<1>6. CASE "collision" \in causes'
  BY <1>1, <1>6 DEF Exchange!Next
<1> QED BY <1>2, <1>3, <1>4, <1>5, <1>6

\* Every step is one of Handover or changes nothing there.
LEMMA StepHandsOver ==
  ASSUME Inv, Inv', [Next]_vars
  PROVE  Exchange!Next
<1>0. Typed /\ Typed' /\ ExactlyOnce'
  BY DEF Inv
<1>1. CASE Step(Connect) \/ Step(Lose) \/ Step(Work)
  <2>1. CASE Moves
    <3>1. Always /\ causes \subseteq causes'
      BY <1>1, <2>1, InvIs DEF Step, Moves, Quiet, Removed, WrittenRel, WrittenPub, Written, Delivers, Same
    <3> QED BY <1>0, <2>1, <3>1, MovesSettle, HandsOver
  <2>2. CASE "collision" \in causes' /\ Same
    BY <1>0, <2>2, HandsOver DEF Same
  <2>3. Step(Connect) \/ Step(Lose) => Moves
    BY <1>0, QuietSteps DEF Step, Moves
  <2> QED BY <1>0, <1>1, <2>1, <2>2, <2>3, WorkMoves
<1>2. CASE Step(Enqueue)
  <2> DEFINE n == [cmd |-> "publish", msg |-> queued + 1, id |-> 0]
  <2>1. /\ UNCHANGED <<accepted, forbidden, causes>> /\ queued' = queued + 1 /\ queued \in Nat
        /\ Stored' = Stored \cup {n} /\ n.msg = queued + 1 /\ queued + 1 \in Msgs
    BY <1>0, <1>2, EnqueueIs DEF Step
  <2> HIDE DEF n
  <2>2. 1..queued' = (1..queued) \cup {queued + 1} /\ queued + 1 \notin 1..queued
    BY <2>1
  <2>3. Gone' = Gone
    BY <2>1, <2>2 DEF Gone, Owed
  <2>4. CASE queued + 1 \in forbidden
    <3>1. Owed' = Owed
      BY <2>1, <2>2, <2>4 DEF Owed
    <3> QED BY <1>0, <2>1, <2>3, <3>1, HandsOver
  <2>5. CASE queued + 1 \notin forbidden
    <3>1. queued + 1 \notin Owed /\ Owed' = Owed \cup {queued + 1}
      BY <2>1, <2>2, <2>5 DEF Owed
    <3>2. Sends(queued + 1)
      BY <2>1, <2>3, <3>1 DEF Sends
    <3> QED BY <1>0, <2>1, <3>2, HandsOver
  <2> QED BY <2>4, <2>5
<1>3. CASE Step(Receive)
  <2>1. /\ "collision" \notin causes /\ Always /\ SureClean
        /\ accepted \in [Msgs -> Nat] /\ accepted' \in [Msgs -> Nat]
    BY <1>0, <1>3, InvIs DEF Step, Inv, Typed, ClientTypes
  <2>2. PICK p : Received(p)
    BY <1>0, <1>3, ReceiveIs DEF Step
  <2>3. /\ UNCHANGED <<queued, forbidden, causes>> /\ Stored' = Stored
        /\ p.msg \in Msgs /\ p \in Packets /\ p.msg \notin forbidden
    BY <1>0, <2>1, <2>2, ReceivedTakes DEF Received
  <2>4. UNCHANGED <<Owed, Gone>>
    BY <2>3 DEF Owed, Gone
  <2>5. p.msg \in Owed
    <3>1. p.msg \in Nat /\ p.msg >= 1 /\ queued \in Nat
      BY <1>0, <2>3, ConstantsAre DEF Msgs, Typed, BrokerTypes
    <3>2. p.msg <= queued
      BY <2>1, <2>3 DEF Always, Numbered
    <3> QED BY <2>3, <3>1, <3>2 DEF Owed
  <2>6. accepted' = accepted \/ accepted' = [accepted EXCEPT ![p.msg] = @ + 1]
    BY <2>1, <2>2, <2>3 DEF Received
  <2>7. ASSUME accepted' = [accepted EXCEPT ![p.msg] = @ + 1], Trusted(p.msg)', p.msg \in QoS2
        PROVE  accepted[p.msg] = 0
    <3>1. accepted'[p.msg] <= 1
      BY <1>0, <2>7 DEF Trusted, Clean, ExactlyOnce
    <3> QED BY <2>1, <2>3, <2>7, <3>1
  <2> QED BY <1>0, <2>3, <2>4, <2>5, <2>6, <2>7, HandsOver DEF Takes
<1>4. CASE UNCHANGED vars
  <2>1. UNCHANGED <<accepted, queued, store, forbidden, causes>>
    BY <1>4 DEF vars, client, topics
  <2>2. UNCHANGED <<Owed, Gone>>
    BY <2>1 DEF Owed, Gone, Stored
  <2> QED BY <1>0, <2>1, <2>2, HandsOver
<1> QED BY <1>1, <1>2, <1>3, <1>4 DEF Next

\* For any messages, messageIds and connections: each step of the broker, the
\* client and the network is a step of Handover or none.  So a message is taken
\* only after it was stored, once if of QoS 2, and before its last entry goes,
\* which never comes back (deliverQoS, emptyQueue, handlePuback, handlePubrec),
\* but for the errors that withdraw these promises.
THEOREM HandedOverSafe == Spec => HandedOver
<1>1. Init => Exchange!Init
  <2> SUFFICES ASSUME Init PROVE Exchange!Init
    OBVIOUS
  <2>1. (1..queued) \ forbidden = {} /\ accepted = [m \in Msgs |-> 0] /\ causes = {}
    BY DEF Init
  <2>2. QoS2 \subseteq Msgs
    BY OutgoingAssumption
  <2> QED BY <2>1, <2>2 DEF Exchange!Init
<1>2. Inv /\ Inv' /\ [Next]_vars => [Exchange!Next]_(Exchange!vars)
  BY StepHandsOver
<1> QED BY <1>1, <1>2, InvAlways, PTL DEF Spec, HandedOver, Exchange!Safe

\* What Handover promises is, for this exchange, ExactlyOnce, up to the moment
\* when a messageId is used twice.
LEMMA PromiseIsExactlyOnce == Exchange!Promise /\ "collision" \notin causes => ExactlyOnce
BY OutgoingAssumption DEF Exchange!Promise, ExactlyOnce
=============================================================================

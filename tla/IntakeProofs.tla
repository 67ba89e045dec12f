---------------------------- MODULE IntakeProofs ----------------------------
(***************************************************************************)
(* Proofs about Intake for any number of packets and any limit of the      *)
(* queue: nothing that was read is lost or handled twice, the order is     *)
(* kept as far as it can be, and the count of nextBatch() never exceeds    *)
(* the callbacks still to come.                                            *)
(***************************************************************************)
EXTENDS Intake, FunctionTheorems, FiniteSetTheorems, SequenceTheorems, TLAPS

-----------------------------------------------------------------------------
\* Sequences.

\* The elements of a sequence are those of its two parts.
LEMMA RangeOfParts ==
  ASSUME NEW S, NEW q \in Seq(S), NEW n \in 0..Len(q)
  PROVE  /\ SubSeq(q, 1, n) \in Seq(S) /\ Len(SubSeq(q, 1, n)) = n
         /\ SubSeq(q, n + 1, Len(q)) \in Seq(S) /\ Len(SubSeq(q, n + 1, Len(q))) = Len(q) - n
         /\ \A i \in 1..n : SubSeq(q, 1, n)[i] = q[i]
         /\ \A i \in 1..(Len(q) - n) : SubSeq(q, n + 1, Len(q))[i] = q[n + i]
         /\ Range(SubSeq(q, 1, n)) \cup Range(SubSeq(q, n + 1, Len(q))) = Range(q)
<1> DEFINE a == SubSeq(q, 1, n)
           b == SubSeq(q, n + 1, Len(q))
<1>1. Len(q) \in Nat /\ \A i \in 1..Len(q) : q[i] \in S
  BY LenProperties, ElementOfSeq
<1>2. a \in Seq(S) /\ Len(a) = n /\ \A i \in 1..n : a[i] = q[i]
  <2>1. \A i \in 1..n : q[i] \in S
    BY <1>1
  <2>2. /\ a \in Seq(S) /\ Len(a) = IF 1 <= n THEN n - 1 + 1 ELSE 0
        /\ \A i \in 1..(n - 1 + 1) : a[i] = q[1 + i - 1]
    BY <2>1, SubSeqProperties
  <2> QED BY <2>2
<1>3. b \in Seq(S) /\ Len(b) = Len(q) - n /\ \A i \in 1..(Len(q) - n) : b[i] = q[n + i]
  <2>0. n + 1 \in Int /\ Len(q) \in Int
    BY <1>1
  <2>1. \A i \in (n + 1)..Len(q) : q[i] \in S
    BY <1>1
  <2>2. /\ b \in Seq(S) /\ Len(b) = IF n + 1 <= Len(q) THEN Len(q) - (n + 1) + 1 ELSE 0
        /\ \A i \in 1..(Len(q) - (n + 1) + 1) : b[i] = q[(n + 1) + i - 1]
    BY <2>0, <2>1, SubSeqProperties
  <2> QED BY <1>1, <2>2
<1> HIDE DEF a, b
<1>4. /\ Range(q) = {q[i] : i \in 1..Len(q)} /\ Range(a) = {a[i] : i \in 1..Len(a)}
      /\ Range(b) = {b[i] : i \in 1..Len(b)}
  <2>1. Range(q) = {q[i] : i \in 1..Len(q)}
    BY RangeEquality
  <2>2. Range(a) = {a[i] : i \in 1..Len(a)}
    BY <1>2, RangeEquality
  <2>3. Range(b) = {b[i] : i \in 1..Len(b)}
    BY <1>3, RangeEquality
  <2> QED BY <2>1, <2>2, <2>3
<1>5. Range(a) \cup Range(b) \subseteq Range(q)
  <2>1. ASSUME NEW i \in 1..n PROVE a[i] \in Range(q)
    <3>1. i \in 1..Len(q) /\ a[i] = q[i]
      BY <1>1, <1>2
    <3> QED BY <1>4, <3>1
  <2>2. ASSUME NEW i \in 1..(Len(q) - n) PROVE b[i] \in Range(q)
    <3>1. n + i \in 1..Len(q)
      BY <1>1
    <3> QED BY <1>3, <1>4, <3>1
  <2> QED BY <1>2, <1>3, <1>4, <2>1, <2>2
<1>6. ASSUME NEW i \in 1..Len(q) PROVE q[i] \in Range(a) \cup Range(b)
  <2>1. CASE i <= n
    BY <1>2, <1>4, <2>1
  <2>2. CASE i > n
    <3>1. i - n \in 1..(Len(q) - n) /\ b[i - n] = q[n + (i - n)]
      BY <1>1, <1>3, <2>2
    <3>2. q[i] = b[i - n]
      BY <1>1, <3>1
    <3> QED BY <1>3, <1>4, <3>1, <3>2
  <2> QED BY <1>1, <2>1, <2>2
<1> QED BY <1>2, <1>3, <1>4, <1>5, <1>6 DEF a, b

\* The concatenation of two sequences.
LEMMA ConcatIs ==
  ASSUME NEW S, NEW a \in Seq(S), NEW b \in Seq(S)
  PROVE  /\ a \o b \in Seq(S) /\ Len(a \o b) = Len(a) + Len(b) /\ Len(a) \in Nat /\ Len(b) \in Nat
         /\ \A i \in 1..(Len(a) + Len(b)) : (a \o b)[i] = IF i <= Len(a) THEN a[i] ELSE b[i - Len(a)]
         /\ Range(a \o b) = Range(a) \cup Range(b)
<1>1. Range(a \o b) = Range(a) \cup Range(b)
  BY RangeConcatenation
<1> QED BY <1>1, ConcatProperties, LenProperties

\* No packet.
LEMMA NothingRange == Range(<<>>) = {}
<1>1. DOMAIN <<>> = {}
  OBVIOUS
<1> QED BY <1>1 DEF Range

\* What a read returns.
LEMMA FreshIs ==
  ASSUME received \in 0..MaxPackets, read \in 0..received
  PROVE  /\ Fresh \in Seq(Packets) /\ Len(Fresh) = received - read
         /\ \A i \in 1..(received - read) : Fresh[i] = read + i
         /\ Range(Fresh) = (read + 1)..received
         /\ Fresh # <<>> => Len(Fresh) > 0
<1>0. received \in 0..MaxPackets /\ read \in 0..received /\ MaxPackets \in Nat
  BY IntakeAssumption
<1>1. Fresh \in Seq(Packets) /\ Len(Fresh) = received - read
  BY <1>0 DEF Fresh, Packets
<1>2. \A i \in 1..(received - read) : Fresh[i] = read + i
  BY <1>0 DEF Fresh
<1>3. Range(Fresh) = {Fresh[i] : i \in 1..Len(Fresh)}
  BY <1>1, RangeEquality
<1>4. ASSUME NEW x \in (read + 1)..received PROVE x \in Range(Fresh)
  <2>1. x - read \in 1..(received - read) /\ Fresh[x - read] = x
    BY <1>0, <1>2
  <2> QED BY <1>1, <1>3, <2>1
<1>5. Range(Fresh) \subseteq (read + 1)..received
  BY <1>0, <1>1, <1>2, <1>3
<1>6. Fresh # <<>> => Len(Fresh) > 0
  BY <1>1, EmptySeq
<1> QED BY <1>1, <1>2, <1>4, <1>5, <1>6

-----------------------------------------------------------------------------
(***************************************************************************)
(* The packets: those handled and those queued are those that were read.   *)
(***************************************************************************)
Enumerated ==
  /\ running \subseteq 1..read
  /\ ~closed => /\ Range(handled) \cup Range(queue) = 1..read
                /\ Len(handled) + Len(queue) = read

Apart ==
  ~closed => /\ \A i, j \in 1..Len(queue) : queue[i] = queue[j] => i = j
             /\ \A i \in 1..Len(queue) : queue[i] \notin running

Sorted ==
  ~closed /\ causes = {} =>
    /\ \A i \in 1..Len(handled) : handled[i] = i
    /\ \A i \in 1..Len(queue) : queue[i] = Len(handled) + i

Types ==
  /\ received \in 0..MaxPackets /\ read \in 0..received /\ closed \in BOOLEAN
  /\ batch \in Nat /\ queue \in Seq(Packets) /\ Len(queue) <= QueueLimit
  /\ handled \in Seq(Packets) /\ causes \subseteq {"early", "jumped"}

Data == Types /\ Enumerated /\ Apart /\ Sorted

\* nextBatch() only counts.
Waits(run) ==
  /\ batch' = Less(batch, 1) /\ running' = run
  /\ UNCHANGED <<read, queue, handled, closed, causes>>

\* It reads the socket, after the CONNACK.
Reads(run) ==
  /\ Fresh # <<>> /\ read' = received
  /\ handled' = handled \o Fresh
  /\ running' = run \cup Range(Fresh)
  /\ batch' = Len(Fresh)
  /\ causes' = IF queue # <<>> THEN causes \cup {"jumped"} ELSE causes
  /\ UNCHANGED <<queue, closed>>

\* Less counts one down and stops at zero.
LEMMA CountIs == \A n \in Nat : Less(n, 1) \in Nat /\ Less(n, 1) <= n /\ (n > 0 => Less(n, 1) = n - 1)
BY DEF Less

\* Counting touches no packet.
LEMMA WaitsData ==
  ASSUME Data, NEW run \in SUBSET running, Waits(run), received' \in received..MaxPackets
  PROVE  Data'
<1>1. Types'
  <2>1. /\ received \in 0..MaxPackets /\ read \in 0..received /\ batch \in Nat /\ MaxPackets \in Nat
        /\ received' \in received..MaxPackets /\ batch' = Less(batch, 1) /\ read' = read
    BY IntakeAssumption DEF Data, Types, Waits
  <2>2. received' \in 0..MaxPackets /\ read' \in 0..received' /\ batch' \in Nat
    BY <2>1, CountIs
  <2>3. /\ closed' \in BOOLEAN /\ queue' \in Seq(Packets) /\ Len(queue') <= QueueLimit
        /\ handled' \in Seq(Packets) /\ causes' \subseteq {"early", "jumped"}
    BY DEF Data, Types, Waits
  <2> QED BY <2>2, <2>3 DEF Types
<1>2. Enumerated' /\ Apart' /\ Sorted'
  BY DEF Data, Enumerated, Apart, Sorted, Waits
<1> QED BY <1>1, <1>2 DEF Data

\* What a read does with the packets once each of them is handled.
LEMMA ReadsData ==
  ASSUME Data, ~closed, NEW run \in SUBSET running, Reads(run), received' = received
  PROVE  Data'
<1>0. /\ received \in 0..MaxPackets /\ read \in 0..received /\ queue \in Seq(Packets) /\ handled \in Seq(Packets)
      /\ Len(queue) \in Nat /\ Len(handled) \in Nat /\ MaxPackets \in Nat
  BY LenProperties, IntakeAssumption DEF Data, Types
<1>1. /\ Fresh \in Seq(Packets) /\ Len(Fresh) = received - read
      /\ \A i \in 1..(received - read) : Fresh[i] = read + i
      /\ Range(Fresh) = (read + 1)..received
  BY <1>0, FreshIs
<1>2. /\ read' = received /\ handled' = handled \o Fresh /\ running' = run \cup Range(Fresh)
      /\ batch' = Len(Fresh) /\ queue' = queue /\ closed' = closed
      /\ causes' = IF queue # <<>> THEN causes \cup {"jumped"} ELSE causes
  BY DEF Reads
<1>3. /\ handled' \in Seq(Packets) /\ Len(handled') = Len(handled) + Len(Fresh)
      /\ \A i \in 1..(Len(handled) + Len(Fresh)) :
           handled'[i] = IF i <= Len(handled) THEN handled[i] ELSE Fresh[i - Len(handled)]
      /\ Range(handled') = Range(handled) \cup Range(Fresh)
  <2>1. handled \in Seq(Packets) /\ Fresh \in Seq(Packets) /\ handled' = handled \o Fresh
    BY <1>0, <1>1, <1>2
  <2> QED BY <2>1, ConcatIs
<1>4. Types'
  BY <1>0, <1>1, <1>2, <1>3 DEF Data, Types
<1>5. /\ running \subseteq 1..read /\ Range(handled) \cup Range(queue) = 1..read
      /\ Len(handled) + Len(queue) = read
  BY DEF Data, Enumerated
<1>6. Enumerated'
  <2>1. running' \subseteq 1..read'
    BY <1>0, <1>1, <1>2, <1>5
  <2>2. Range(handled') \cup Range(queue') = 1..read'
    <3>1. (1..read) \cup ((read + 1)..received) = 1..received
      BY <1>0
    <3> QED BY <1>1, <1>2, <1>3, <1>5, <3>1
  <2>3. Len(handled') + Len(queue') = read'
    BY <1>0, <1>1, <1>2, <1>3, <1>5
  <2> QED BY <2>1, <2>2, <2>3 DEF Enumerated
<1>7. Apart'
  <2>1. \A i \in 1..Len(queue) : queue[i] \notin running /\ queue[i] \in 1..read
    <3>1. \A i \in 1..Len(queue) : queue[i] \in Range(queue)
      BY <1>0, RangeEquality
    <3> QED BY <1>5, <3>1 DEF Data, Apart
  <2>2. \A i \in 1..Len(queue) : queue[i] \notin running'
    BY <1>0, <1>1, <1>2, <2>1
  <2> QED BY <1>2, <2>2 DEF Data, Apart
<1>8. Sorted'
  <2> SUFFICES ASSUME causes' = {} PROVE Sorted'
    BY DEF Sorted
  <2>1. queue = <<>> /\ Len(queue) = 0 /\ causes = {}
    BY <1>0, <1>2, EmptySeq
  <2>2. Len(handled) = read /\ \A i \in 1..Len(handled) : handled[i] = i
    BY <1>0, <1>5, <2>1 DEF Data, Sorted
  <2>3. \A i \in 1..Len(handled') : handled'[i] = i
    BY <1>0, <1>1, <1>3, <2>2
  <2> QED BY <1>2, <2>1, <2>3 DEF Sorted
<1> QED BY <1>4, <1>6, <1>7, <1>8 DEF Data

\* What a read does before the CONNACK: the packets that wait are those at the
\* end.
LEMMA EarlyData ==
  ASSUME Data, ~closed, NEW run \in SUBSET running, ParseEarly(run), Fresh # <<>>, received' = received
  PROVE  Data' /\ (~closed' => batch' <= 1 + Len(queue'))
<1>0. /\ received \in 0..MaxPackets /\ read \in 0..received /\ queue \in Seq(Packets) /\ handled \in Seq(Packets)
      /\ Len(queue) \in Nat /\ Len(handled) \in Nat /\ MaxPackets \in Nat /\ QueueLimit \in Nat
  BY LenProperties, IntakeAssumption DEF Data, Types
<1>1. /\ Fresh \in Seq(Packets) /\ Len(Fresh) = received - read /\ Len(Fresh) > 0
      /\ \A i \in 1..(received - read) : Fresh[i] = read + i
      /\ Range(Fresh) = (read + 1)..received
  BY <1>0, FreshIs
<1>2. PICK k \in 1..Len(Fresh) :
        /\ Fresh[1] = 1 => k = 1
        /\ read' = received
        /\ handled' = handled \o SubSeq(Fresh, 1, k)
        /\ running' = run \cup {Fresh[k]}
        /\ batch' = 1 + Len(SubSeq(Fresh, k + 1, Len(Fresh)))
        /\ causes' = IF Fresh[1] = 1 THEN causes ELSE causes \cup {"early"}
        /\ IF Len(queue) + Len(SubSeq(Fresh, k + 1, Len(Fresh))) <= QueueLimit
           THEN queue' = queue \o SubSeq(Fresh, k + 1, Len(Fresh)) /\ closed' = closed
           ELSE queue' = <<>> /\ closed' = TRUE
  BY DEF ParseEarly, Push
<1> DEFINE a == SubSeq(Fresh, 1, k)
           w == SubSeq(Fresh, k + 1, Len(Fresh))
<1>3. /\ a \in Seq(Packets) /\ Len(a) = k /\ w \in Seq(Packets) /\ Len(w) = received - read - k
      /\ \A i \in 1..k : a[i] = read + i
      /\ \A i \in 1..(received - read - k) : w[i] = read + k + i
      /\ Range(a) \cup Range(w) = (read + 1)..received
  <2>1. k \in 0..Len(Fresh)
    BY <1>0, <1>1
  <2>2. /\ a \in Seq(Packets) /\ Len(a) = k /\ w \in Seq(Packets) /\ Len(w) = Len(Fresh) - k
        /\ \A i \in 1..k : a[i] = Fresh[i]
        /\ \A i \in 1..(Len(Fresh) - k) : w[i] = Fresh[k + i]
        /\ Range(a) \cup Range(w) = Range(Fresh)
    BY <1>1, <2>1, RangeOfParts
  <2>3. \A i \in 1..k : i \in 1..(received - read)
    BY <1>0, <1>1
  <2>4. \A i \in 1..(received - read - k) : k + i \in 1..(received - read)
    BY <1>0, <1>1
  <2> HIDE DEF a, w
  <2> QED BY <1>0, <1>1, <2>2, <2>3, <2>4
<1>4. /\ read' = received /\ handled' = handled \o a /\ running' = run \cup {read + k} /\ batch' = 1 + Len(w)
      /\ causes' = IF read = 0 THEN causes ELSE causes \cup {"early"}
      /\ read = 0 => k = 1
      /\ IF Len(queue) + Len(w) <= QueueLimit THEN queue' = queue \o w /\ closed' = closed
         ELSE queue' = <<>> /\ closed' = TRUE
  <2>1. Fresh[k] = read + k /\ Fresh[1] = read + 1
    BY <1>0, <1>1
  <2>2. Fresh[1] = 1 <=> read = 0
    BY <1>0, <2>1
  <2> HIDE DEF a, w
  <2>3. /\ read' = received /\ handled' = handled \o a /\ running' = run \cup {Fresh[k]} /\ batch' = 1 + Len(w)
        /\ causes' = IF Fresh[1] = 1 THEN causes ELSE causes \cup {"early"}
        /\ Fresh[1] = 1 => k = 1
        /\ IF Len(queue) + Len(w) <= QueueLimit THEN queue' = queue \o w /\ closed' = closed
           ELSE queue' = <<>> /\ closed' = TRUE
    BY <1>2 DEF a, w
  <2> QED BY <2>1, <2>2, <2>3
<1> HIDE DEF a, w
<1>5. /\ handled' \in Seq(Packets) /\ Len(handled') = Len(handled) + k
      /\ \A i \in 1..(Len(handled) + k) : handled'[i] = IF i <= Len(handled) THEN handled[i] ELSE a[i - Len(handled)]
      /\ Range(handled') = Range(handled) \cup Range(a)
  <2>1. handled \in Seq(Packets) /\ a \in Seq(Packets) /\ handled' = handled \o a /\ Len(a) = k
    BY <1>0, <1>3, <1>4
  <2>2. /\ handled \o a \in Seq(Packets) /\ Len(handled \o a) = Len(handled) + Len(a)
        /\ \A i \in 1..(Len(handled) + Len(a)) :
             (handled \o a)[i] = IF i <= Len(handled) THEN handled[i] ELSE a[i - Len(handled)]
        /\ Range(handled \o a) = Range(handled) \cup Range(a)
    BY <2>1, ConcatIs
  <2> QED BY <2>1, <2>2
<1>6. CASE Len(queue) + Len(w) > QueueLimit
  <2>1. queue' = <<>> /\ closed' = TRUE
    BY <1>0, <1>3, <1>4, <1>6
  <2>2. Types'
    BY <1>0, <1>1, <1>3, <1>4, <1>5, <2>1, EmptySeq DEF Data, Types
  <2>3. running' \subseteq 1..read'
    BY <1>0, <1>1, <1>4 DEF Data, Enumerated
  <2> QED BY <2>1, <2>2, <2>3 DEF Data, Enumerated, Apart, Sorted
<1>7. CASE Len(queue) + Len(w) <= QueueLimit
  <2>1. queue' = queue \o w /\ closed' = closed
    BY <1>4, <1>7
  <2>2. /\ queue' \in Seq(Packets) /\ Len(queue') = Len(queue) + Len(w)
        /\ \A i \in 1..(Len(queue) + Len(w)) : queue'[i] = IF i <= Len(queue) THEN queue[i] ELSE w[i - Len(queue)]
        /\ Range(queue') = Range(queue) \cup Range(w)
    <3>1. queue \in Seq(Packets) /\ w \in Seq(Packets)
      BY <1>0, <1>3
    <3> QED BY <2>1, <3>1, ConcatIs
  <2>3. Types'
    BY <1>0, <1>1, <1>3, <1>4, <1>5, <1>7, <2>1, <2>2 DEF Data, Types
  <2>4. /\ running \subseteq 1..read /\ Range(handled) \cup Range(queue) = 1..read
        /\ Len(handled) + Len(queue) = read
    BY DEF Data, Enumerated
  <2>5. Enumerated'
    <3>1. running' \subseteq 1..read'
      <4>1. k \in 1..(received - read) /\ 1..read \subseteq 1..received
        BY <1>0, <1>1
      <4>2. read + k \in 1..received
        BY <1>0, <4>1
      <4> QED BY <1>4, <2>4, <4>1, <4>2
    <3>2. Range(handled') \cup Range(queue') = 1..read'
      <4>1. (1..read) \cup ((read + 1)..received) = 1..received
        BY <1>0
      <4> QED BY <1>3, <1>4, <1>5, <2>2, <2>4, <4>1
    <3>3. Len(handled') + Len(queue') = read'
      <4>1. /\ Len(handled') = Len(handled) + k /\ Len(queue') = Len(queue) + (received - read - k)
            /\ read' = received /\ Len(handled) + Len(queue) = read
        BY <1>3, <1>4, <1>5, <2>2, <2>4
      <4>2. k \in Nat /\ received \in Nat /\ read \in Nat /\ Len(handled) \in Nat /\ Len(queue) \in Nat
        BY <1>0, <1>1
      <4> QED BY <4>1, <4>2
    <3> QED BY <3>1, <3>2, <3>3 DEF Enumerated
  <2>6. Apart'
    <3>1. \A i \in 1..Len(queue) : queue[i] \notin running /\ queue[i] \in 1..read
      <4>1. \A i \in 1..Len(queue) : queue[i] \in Range(queue)
        BY <1>0, RangeEquality
      <4> QED BY <2>4, <4>1 DEF Data, Apart
    <3>2. ASSUME NEW i \in 1..Len(queue') PROVE queue'[i] \notin running'
      <4>1. CASE i <= Len(queue)
        <5>1. queue'[i] = queue[i] /\ i \in 1..Len(queue)
          BY <1>0, <1>3, <2>2, <4>1
        <5>2. queue'[i] \notin running /\ queue'[i] # read + k
          BY <1>0, <1>1, <3>1, <5>1
        <5> QED BY <1>4, <5>2
      <4>2. CASE i > Len(queue)
        <5>1. queue'[i] = read + k + (i - Len(queue)) /\ i - Len(queue) >= 1
          BY <1>0, <1>3, <2>2, <4>2
        <5>2. queue'[i] > read + k
          BY <1>0, <5>1
        <5>3. queue'[i] \notin running /\ queue'[i] # read + k
          BY <1>0, <1>1, <2>4, <5>1, <5>2
        <5> QED BY <1>4, <5>3
      <4> QED BY <1>0, <2>2, <4>1, <4>2
    <3>3. ASSUME NEW i \in 1..Len(queue'), NEW j \in 1..Len(queue'), queue'[i] = queue'[j] PROVE i = j
      <4>1. \A n \in 1..Len(queue') :
              /\ n <= Len(queue) => queue'[n] = queue[n] /\ queue'[n] <= read
              /\ n > Len(queue) => queue'[n] = read + k + (n - Len(queue))
        <5> SUFFICES ASSUME NEW n \in 1..Len(queue')
                     PROVE  /\ n <= Len(queue) => queue'[n] = queue[n] /\ queue'[n] <= read
                            /\ n > Len(queue) => queue'[n] = read + k + (n - Len(queue))
          OBVIOUS
        <5>1. CASE n <= Len(queue)
          <6>1. queue'[n] = queue[n] /\ n \in 1..Len(queue)
            BY <1>0, <1>3, <2>2, <5>1
          <6>2. queue[n] \in 1..read
            BY <3>1, <6>1
          <6> QED BY <1>0, <5>1, <6>1, <6>2
        <5>2. CASE n > Len(queue)
          <6>1. queue'[n] = w[n - Len(queue)] /\ n - Len(queue) \in 1..(received - read - k)
            BY <1>0, <1>3, <2>2, <5>2
          <6> QED BY <1>0, <1>3, <5>2, <6>1
        <5> QED BY <1>0, <2>2, <5>1, <5>2
      <4>2. CASE i <= Len(queue) /\ j <= Len(queue)
        <5>1. i \in 1..Len(queue) /\ j \in 1..Len(queue) /\ queue[i] = queue[j]
          BY <1>0, <1>3, <2>2, <3>3, <4>1, <4>2
        <5> QED BY <5>1 DEF Data, Apart
      <4>3. /\ i \in Nat /\ j \in Nat /\ k \in Nat /\ k > 0 /\ read \in Nat /\ Len(queue) \in Nat
            /\ i <= Len(queue) => queue'[i] <= read
            /\ i > Len(queue) => queue'[i] = read + k + (i - Len(queue))
            /\ j <= Len(queue) => queue'[j] <= read
            /\ j > Len(queue) => queue'[j] = read + k + (j - Len(queue))
        <5>1. i \in 1..Len(queue') /\ j \in 1..Len(queue') /\ Len(queue') \in Nat
          BY <1>0, <1>3, <2>2, <3>3
        <5>2. k \in Nat /\ k > 0 /\ read \in Nat /\ Len(queue) \in Nat
          BY <1>0, <1>1
        <5>3. /\ i <= Len(queue) => queue'[i] <= read
              /\ i > Len(queue) => queue'[i] = read + k + (i - Len(queue))
          BY <4>1, <5>1
        <5>4. /\ j <= Len(queue) => queue'[j] <= read
              /\ j > Len(queue) => queue'[j] = read + k + (j - Len(queue))
          BY <4>1, <5>1
        <5> QED BY <5>1, <5>2, <5>3, <5>4
      <4>4. CASE i > Len(queue) /\ j > Len(queue)
        BY <3>3, <4>3, <4>4
      <4>5. ~(i <= Len(queue) /\ j > Len(queue)) /\ ~(i > Len(queue) /\ j <= Len(queue))
        BY <3>3, <4>3
      <4> QED BY <4>2, <4>3, <4>4, <4>5
    <3> QED BY <3>2, <3>3 DEF Apart
  <2>7. Sorted'
    <3> SUFFICES ASSUME causes' = {} PROVE Sorted'
      BY DEF Sorted
    <3>1. read = 0 /\ k = 1 /\ Len(handled) = 0 /\ Len(queue) = 0
      <4>1. causes \cup {"early"} # {}
        OBVIOUS
      <4>2. read = 0 /\ k = 1
        BY <1>4, <4>1
      <4> QED BY <1>0, <2>4, <4>2
    <3>2. \A i \in 1..Len(handled') : handled'[i] = i
      BY <1>0, <1>3, <1>5, <3>1
    <3>3. \A i \in 1..Len(queue') : queue'[i] = Len(handled') + i
      BY <1>0, <1>3, <1>5, <2>2, <3>1
    <3> QED BY <3>2, <3>3 DEF Sorted
  <2>8. batch' <= 1 + Len(queue')
    BY <1>0, <1>3, <1>4, <2>2
  <2> QED BY <2>3, <2>5, <2>6, <2>7, <2>8 DEF Data
<1> QED BY <1>0, <1>3, <1>6, <1>7

\* 'all' is what dequeue() handles: h and a, the queue up to 'at'; what a read
\* returns, f; and the rest of the queue, b.
Joined(h, a, f, b, all) ==
  /\ all \in Seq(Packets) /\ Len(all) = Len(h) + Len(a) + Len(f) + Len(b)
  /\ Range(all) = Range(h) \cup Range(a) \cup Range(f) \cup Range(b)
  /\ \A i \in 1..Len(all) :
       \/ i <= Len(h) /\ all[i] = h[i]
       \/ i > Len(h) /\ i <= Len(h) + Len(a) /\ all[i] = a[i - Len(h)]
       \/ /\ i > Len(h) + Len(a) /\ i <= Len(h) + Len(a) + Len(f)
          /\ all[i] = f[i - Len(h) - Len(a)]
       \/ i > Len(h) + Len(a) + Len(f) /\ all[i] = b[i - Len(h) - Len(a) - Len(f)]

\* Four sequences in a row.
LEMMA JoinedIs ==
  ASSUME NEW h \in Seq(Packets), NEW a \in Seq(Packets), NEW f \in Seq(Packets), NEW b \in Seq(Packets)
  PROVE  Joined(h, a, f, b, h \o a \o f \o b)
<1> DEFINE x == h \o a
           y == x \o f
           all == y \o b
<1>1. /\ x \in Seq(Packets) /\ Len(x) = Len(h) + Len(a) /\ Len(h) \in Nat /\ Len(a) \in Nat
      /\ \A i \in 1..(Len(h) + Len(a)) : x[i] = IF i <= Len(h) THEN h[i] ELSE a[i - Len(h)]
      /\ Range(x) = Range(h) \cup Range(a)
  BY ConcatIs
<1> HIDE DEF x
<1>2. /\ y \in Seq(Packets) /\ Len(y) = Len(x) + Len(f) /\ Len(f) \in Nat
      /\ \A i \in 1..(Len(x) + Len(f)) : y[i] = IF i <= Len(x) THEN x[i] ELSE f[i - Len(x)]
      /\ Range(y) = Range(x) \cup Range(f)
  <2>1. x \in Seq(Packets) /\ f \in Seq(Packets)
    BY <1>1
  <2> QED BY <2>1, ConcatIs
<1> HIDE DEF y
<1>3. /\ y \o b \in Seq(Packets) /\ Len(y \o b) = Len(y) + Len(b) /\ Len(b) \in Nat
      /\ \A i \in 1..(Len(y) + Len(b)) : (y \o b)[i] = IF i <= Len(y) THEN y[i] ELSE b[i - Len(y)]
      /\ Range(y \o b) = Range(y) \cup Range(b)
  <2>1. y \in Seq(Packets) /\ b \in Seq(Packets)
    BY <1>2
  <2> QED BY <2>1, ConcatIs
<1>4. all = y \o b
  OBVIOUS
<1> HIDE DEF all
<1>5. all \in Seq(Packets) /\ Len(all) = Len(h) + Len(a) + Len(f) + Len(b)
  BY <1>1, <1>2, <1>3, <1>4
<1>6. Range(all) = Range(h) \cup Range(a) \cup Range(f) \cup Range(b)
  BY <1>1, <1>2, <1>3, <1>4
<1>7. ASSUME NEW i \in 1..Len(all)
      PROVE  \/ i <= Len(h) /\ all[i] = h[i]
             \/ i > Len(h) /\ i <= Len(h) + Len(a) /\ all[i] = a[i - Len(h)]
             \/ /\ i > Len(h) + Len(a) /\ i <= Len(h) + Len(a) + Len(f)
                /\ all[i] = f[i - Len(h) - Len(a)]
             \/ i > Len(h) + Len(a) + Len(f) /\ all[i] = b[i - Len(h) - Len(a) - Len(f)]
  <2>1. i \in 1..(Len(y) + Len(b)) /\ i \in Nat /\ i > 0
    BY <1>1, <1>2, <1>3, <1>5
  <2>2. all[i] = IF i <= Len(y) THEN y[i] ELSE b[i - Len(y)]
    BY <1>3, <1>4, <2>1
  <2>3. i <= Len(y) => y[i] = IF i <= Len(x) THEN x[i] ELSE f[i - Len(x)]
    BY <1>1, <1>2, <2>1
  <2>4. i <= Len(x) => x[i] = IF i <= Len(h) THEN h[i] ELSE a[i - Len(h)]
    BY <1>1, <2>1
  <2>5. /\ Len(x) = Len(h) + Len(a) /\ Len(y) = Len(h) + Len(a) + Len(f)
        /\ i - Len(x) = i - Len(h) - Len(a) /\ i - Len(y) = i - Len(h) - Len(a) - Len(f)
        /\ Len(h) \in Nat /\ Len(a) \in Nat /\ Len(f) \in Nat
    BY <1>1, <1>2, <2>1
  <2>6. CASE i <= Len(h)
    BY <2>1, <2>2, <2>3, <2>4, <2>5, <2>6
  <2>7. CASE i > Len(h) /\ i <= Len(x)
    BY <2>1, <2>2, <2>3, <2>4, <2>5, <2>7
  <2>8. CASE i > Len(x) /\ i <= Len(y)
    BY <2>1, <2>2, <2>3, <2>5, <2>8
  <2>9. CASE i > Len(y)
    BY <2>1, <2>2, <2>5, <2>9
  <2> QED BY <2>1, <2>5, <2>6, <2>7, <2>8, <2>9
<1>8. Joined(h, a, f, b, all)
  BY <1>5, <1>6, <1>7 DEF Joined
<1> QED BY <1>8 DEF all, y, x

\* dequeue() handles the whole queue, and what it reads in the middle of it.
Dequeued(prompt, at, new) ==
  /\ handled' = handled \o SubSeq(queue, 1, at) \o new \o SubSeq(queue, at + 1, Len(queue))
  /\ running' = ((running \ {1}) \cup {queue[i] : i \in (1..Len(queue)) \ prompt}) \cup Range(new)
  /\ read' = read + Len(new) /\ received' = received /\ queue' = <<>> /\ closed' = closed
  /\ causes' = IF new # <<>> /\ at < Len(queue) THEN causes \cup {"jumped"} ELSE causes

\* No packet is lost by that, and the order is as it was.
LEMMA EmptiedData ==
  ASSUME Data, ~closed, NEW prompt \in SUBSET (1..Len(queue)), NEW at \in 0..Len(queue),
         NEW new \in {<<>>, Fresh}, Dequeued(prompt, at, new), batch' \in Nat
  PROVE  Data'
<1>0. /\ received \in 0..MaxPackets /\ read \in 0..received /\ queue \in Seq(Packets) /\ handled \in Seq(Packets)
      /\ Len(queue) \in Nat /\ Len(handled) \in Nat /\ MaxPackets \in Nat /\ QueueLimit \in Nat
  BY LenProperties, IntakeAssumption DEF Data, Types
<1>1. /\ new \in Seq(Packets) /\ Len(new) \in 0..(received - read)
      /\ \A i \in 1..Len(new) : new[i] = read + i
      /\ Range(new) = (read + 1)..(read + Len(new))
      /\ new # <<>> => Len(new) > 0
      /\ new = <<>> => Len(new) = 0
  <2>1. CASE new = <<>>
    <3>1. <<>> \in Seq(Packets) /\ Len(<<>>) = 0
      BY EmptySeq
    <3>2. Range(<<>>) = {}
      BY NothingRange
    <3>3. (read + 1)..(read + 0) = {} /\ 0 \in 0..(received - read)
      BY <1>0
    <3>4. \A i \in 1..0 : FALSE
      OBVIOUS
    <3> QED BY <2>1, <3>1, <3>2, <3>3, <3>4
  <2>2. CASE new = Fresh
    <3>1. /\ Fresh \in Seq(Packets) /\ Len(Fresh) = received - read
          /\ \A i \in 1..(received - read) : Fresh[i] = read + i
          /\ Range(Fresh) = (read + 1)..received
          /\ Fresh # <<>> => Len(Fresh) > 0
      BY <1>0, FreshIs
    <3>2. read + (received - read) = received /\ received - read \in 0..(received - read)
      BY <1>0
    <3>3. Fresh = <<>> => Len(Fresh) = 0
      BY EmptySeq
    <3> QED BY <2>2, <3>1, <3>2, <3>3
  <2> QED BY <2>1, <2>2
<1> DEFINE a == SubSeq(queue, 1, at)
           b == SubSeq(queue, at + 1, Len(queue))
<1>2. /\ a \in Seq(Packets) /\ Len(a) = at /\ b \in Seq(Packets) /\ Len(b) = Len(queue) - at
      /\ \A i \in 1..at : a[i] = queue[i]
      /\ \A i \in 1..(Len(queue) - at) : b[i] = queue[at + i]
      /\ Range(a) \cup Range(b) = Range(queue)
  BY <1>0, RangeOfParts
<1>3. /\ handled' = handled \o a \o new \o b
      /\ running' = ((running \ {1}) \cup {queue[i] : i \in (1..Len(queue)) \ prompt}) \cup Range(new)
      /\ read' = read + Len(new) /\ received' = received /\ queue' = <<>> /\ closed' = closed
      /\ causes' = IF new # <<>> /\ at < Len(queue) THEN causes \cup {"jumped"} ELSE causes
  BY DEF Dequeued
<1> HIDE DEF a, b
<1>4. /\ handled' \in Seq(Packets) /\ Len(handled') = Len(handled) + Len(a) + Len(new) + Len(b)
      /\ Range(handled') = Range(handled) \cup Range(a) \cup Range(new) \cup Range(b)
      /\ \A i \in 1..Len(handled') :
           \/ i <= Len(handled) /\ handled'[i] = handled[i]
           \/ i > Len(handled) /\ i <= Len(handled) + Len(a) /\ handled'[i] = a[i - Len(handled)]
           \/ /\ i > Len(handled) + Len(a) /\ i <= Len(handled) + Len(a) + Len(new)
              /\ handled'[i] = new[i - Len(handled) - Len(a)]
           \/ i > Len(handled) + Len(a) + Len(new) /\ handled'[i] = b[i - Len(handled) - Len(a) - Len(new)]
  <2>1. handled \in Seq(Packets) /\ a \in Seq(Packets) /\ new \in Seq(Packets) /\ b \in Seq(Packets)
    BY <1>0, <1>1, <1>2
  <2> DEFINE all == handled \o a \o new \o b
  <2>2. handled' = all
    BY <1>3
  <2>3. Joined(handled, a, new, b, all)
    BY <2>1, JoinedIs
  <2> HIDE DEF all
  <2> QED BY <2>2, <2>3 DEF Joined
<1>5. Types'
  <2>1. read' \in 0..received' /\ received' \in 0..MaxPackets
    BY <1>0, <1>1, <1>3
  <2>2. queue' \in Seq(Packets) /\ Len(queue') <= QueueLimit
    BY <1>0, <1>3, EmptySeq DEF Data, Types
  <2>3. closed' \in BOOLEAN /\ causes' \subseteq {"early", "jumped"}
    BY <1>3 DEF Data, Types
  <2> QED BY <1>4, <2>1, <2>2, <2>3 DEF Types
<1>6. /\ running \subseteq 1..read /\ Range(handled) \cup Range(queue) = 1..read
      /\ Len(handled) + Len(queue) = read
  BY DEF Data, Enumerated
<1>7. Len(queue') = 0 /\ Range(queue') = {}
  <2>1. <<>> \in Seq(Packets) /\ Len(<<>>) = 0
    BY EmptySeq
  <2>2. Range(<<>>) = {}
    BY NothingRange
  <2> QED BY <1>3, <2>1, <2>2
<1>8. Enumerated'
  <2>1. \A i \in 1..Len(queue) : queue[i] \in 1..read
    <3>1. Range(queue) = {queue[i] : i \in 1..Len(queue)}
      BY <1>0, RangeEquality
    <3> QED BY <1>6, <3>1
  <2>2. read + Len(new) >= read /\ (1..read) \cup ((read + 1)..(read + Len(new))) = 1..(read + Len(new))
    <3>1. read \in Nat /\ Len(new) \in Nat
      BY <1>0, <1>1
    <3> QED BY <3>1
  <2>3. running' \subseteq 1..read'
    <3>1. {queue[i] : i \in (1..Len(queue)) \ prompt} \subseteq 1..read
      BY <2>1
    <3> QED BY <1>1, <1>3, <1>6, <2>2, <3>1
  <2>4. Range(handled') \cup Range(queue') = 1..read'
    BY <1>1, <1>2, <1>3, <1>4, <1>6, <1>7, <2>2
  <2>5. Len(handled') + Len(queue') = read'
    <3>1. /\ at \in Nat /\ read \in Nat /\ Len(new) \in Nat
          /\ Len(handled') = Len(handled) + at + Len(new) + (Len(queue) - at)
      <4>1. Len(handled') = Len(handled) + Len(a) + Len(new) + Len(b)
        BY <1>4
      <4>2. Len(a) = at /\ Len(b) = Len(queue) - at
        BY <1>2
      <4>3. at \in Nat /\ read \in Nat /\ Len(new) \in Nat
        BY <1>0, <1>1
      <4> QED BY <4>1, <4>2, <4>3
    <3>2. /\ Len(handled) + Len(queue) = read /\ Len(queue') = 0 /\ read' = read + Len(new)
          /\ Len(handled) \in Nat /\ Len(queue) \in Nat
      BY <1>0, <1>3, <1>6, <1>7
    <3> QED BY <3>1, <3>2
  <2> QED BY <2>3, <2>4, <2>5 DEF Enumerated
<1>9. Apart'
  <2>1. \A i \in 1..Len(queue') : FALSE
    BY <1>7
  <2> QED BY <2>1 DEF Apart
<1>10. Sorted'
  <2> SUFFICES ASSUME causes' = {} PROVE Sorted'
    BY DEF Sorted
  <2>1. causes = {} /\ (Len(new) = 0 \/ at = Len(queue))
    <3>1. ~(new # <<>> /\ at < Len(queue)) /\ causes = {}
      BY <1>3
    <3> QED BY <1>0, <1>1, <3>1
  <2>2. /\ \A i \in 1..Len(handled) : handled[i] = i
        /\ \A i \in 1..Len(queue) : queue[i] = Len(handled) + i
    BY <2>1 DEF Data, Sorted
  <2>3. ASSUME NEW i \in 1..Len(handled') PROVE handled'[i] = i
    <3>0. /\ at \in Nat /\ at <= Len(queue) /\ Len(new) \in Nat /\ Len(handled) \in Nat /\ Len(queue) \in Nat
          /\ i \in Nat /\ i > 0 /\ i <= Len(handled) + at + Len(new) + (Len(queue) - at)
          /\ read = Len(handled) + Len(queue) /\ Len(a) = at
      <4>1. Len(handled') = Len(handled) + Len(a) + Len(new) + Len(b)
        BY <1>4
      <4>2. Len(a) = at /\ Len(b) = Len(queue) - at /\ read = Len(handled) + Len(queue)
        BY <1>2, <1>6
      <4>3. at \in 0..Len(queue) /\ Len(new) \in Nat /\ Len(handled) \in Nat /\ Len(queue) \in Nat
        BY <1>0, <1>1
      <4>4. i \in 1..(Len(handled) + at + Len(new) + (Len(queue) - at))
        BY <2>3, <4>1, <4>2
      <4> QED BY <4>2, <4>3, <4>4
    <3>1. CASE i <= Len(handled) /\ handled'[i] = handled[i]
      <4>1. i \in 1..Len(handled)
        BY <3>0, <3>1
      <4> QED BY <2>2, <3>1, <4>1
    <3>2. CASE i > Len(handled) /\ i <= Len(handled) + Len(a) /\ handled'[i] = a[i - Len(handled)]
      <4>1. i - Len(handled) \in 1..at /\ i - Len(handled) \in 1..Len(queue)
        BY <3>0, <3>2
      <4>2. handled'[i] = Len(handled) + (i - Len(handled))
        BY <1>2, <2>2, <3>2, <4>1
      <4>3. i \in Nat /\ Len(handled) \in Nat
        BY <3>0
      <4> QED BY <4>2, <4>3
    <3>3. CASE /\ i > Len(handled) + Len(a) /\ i <= Len(handled) + Len(a) + Len(new)
               /\ handled'[i] = new[i - Len(handled) - Len(a)]
      <4>1. i - Len(handled) - Len(a) \in 1..Len(new) /\ at = Len(queue)
        BY <2>1, <3>0, <3>3
      <4>2. handled'[i] = read + (i - Len(handled) - Len(a))
        BY <1>1, <3>3, <4>1
      <4> QED BY <3>0, <4>1, <4>2
    <3>4. CASE /\ i > Len(handled) + Len(a) + Len(new)
               /\ handled'[i] = b[i - Len(handled) - Len(a) - Len(new)]
      <4>1. /\ i - Len(handled) - Len(a) - Len(new) \in 1..(Len(queue) - at) /\ Len(new) = 0
            /\ at + (i - Len(handled) - Len(a) - Len(new)) \in 1..Len(queue)
        BY <2>1, <3>0, <3>4
      <4>2. handled'[i] = Len(handled) + (at + (i - Len(handled) - Len(a) - Len(new)))
        BY <1>2, <2>2, <3>4, <4>1
      <4>3. i \in Nat /\ Len(handled) \in Nat /\ at \in Nat /\ Len(a) = at
        BY <3>0
      <4> QED BY <4>1, <4>2, <4>3
    <3> QED BY <1>4, <2>3, <3>1, <3>2, <3>3, <3>4
  <2>4. \A i \in 1..Len(queue') : queue'[i] = Len(handled') + i
    BY <1>7
  <2> QED BY <2>3, <2>4 DEF Sorted
<1> QED BY <1>5, <1>8, <1>9, <1>10 DEF Data

-----------------------------------------------------------------------------
(***************************************************************************)
(* The count.  The handlers that are to call back: one for each packet     *)
(* that was read just now, and one for each packet that dequeue() handled  *)
(* and that did not call back at once.                                     *)
(***************************************************************************)
\* The running handlers can be counted.
LEMMA RunningCounts ==
  ASSUME Data
  PROVE  IsFiniteSet(running) /\ Cardinality(running) \in Nat
<1>1. read \in Int /\ 1 \in Int /\ running \in SUBSET (1..read)
  BY IntakeAssumption DEF Data, Types, Enumerated
<1>2. IsFiniteSet(1..read)
  BY <1>1, FS_Interval
<1>3. IsFiniteSet(running)
  BY <1>1, <1>2, FS_Subset
<1> QED BY <1>3, FS_CardinalityType

\* Each packet of a read is a handler.
LEMMA FreshCount ==
  ASSUME received \in 0..MaxPackets, read \in 0..received, NEW s, IsFiniteSet(s), Range(Fresh) \subseteq s
  PROVE  Len(Fresh) <= Cardinality(s)
<1>1. Len(Fresh) = received - read /\ Range(Fresh) = (read + 1)..received
  BY FreshIs
<1>2. read + 1 \in Int /\ received \in Int /\ received - read \in Nat
  BY IntakeAssumption
<1>3. Cardinality((read + 1)..received) = received - read
  <2>1. Cardinality((read + 1)..received) = IF read + 1 > received THEN 0 ELSE received - (read + 1) + 1
    BY <1>2, FS_Interval
  <2> QED BY <1>2, <2>1, IntakeAssumption
<1>4. (read + 1)..received \in SUBSET s
  BY <1>1
<1>5. Cardinality((read + 1)..received) <= Cardinality(s)
  BY <1>4, FS_Subset
<1> QED BY <1>1, <1>3, <1>5

\* The handlers that are left once dequeue() is through: those of the queue
\* that did not call back at once, and all that were running but the CONNECT.
LEMMA LeftCount ==
  ASSUME Data, ~closed, NEW prompt \in SUBSET (1..Len(queue))
  PROVE  LET left == (running \ {1}) \cup {queue[i] : i \in (1..Len(queue)) \ prompt}
         IN  /\ IsFiniteSet(left) /\ Cardinality(left) \in Nat /\ Cardinality(prompt) \in Nat
             /\ Cardinality(left) >= Cardinality(running) - 1 + Len(queue) - Cardinality(prompt)
<1> DEFINE rest == (1..Len(queue)) \ prompt
           img  == {queue[i] : i \in rest}
           less == running \ {1}
<1>0. /\ IsFiniteSet(running) /\ Cardinality(running) \in Nat /\ Len(queue) \in Nat
  BY RunningCounts, LenProperties DEF Data, Types
<1>1. IsFiniteSet(1..Len(queue)) /\ Cardinality(1..Len(queue)) = Len(queue)
  <2>1. 1 \in Int /\ Len(queue) \in Int
    BY <1>0
  <2>2. /\ IsFiniteSet(1..Len(queue))
        /\ Cardinality(1..Len(queue)) = IF 1 > Len(queue) THEN 0 ELSE Len(queue) - 1 + 1
    BY <2>1, FS_Interval
  <2> QED BY <1>0, <2>2
<1>2. IsFiniteSet(prompt) /\ Cardinality(prompt) \in Nat
  BY <1>1, FS_Subset, FS_CardinalityType
<1>3. IsFiniteSet(rest) /\ Cardinality(rest) = Len(queue) - Cardinality(prompt)
  <2>1. IsFiniteSet(rest) /\ Cardinality(rest) = Cardinality(1..Len(queue)) - Cardinality((1..Len(queue)) \cap prompt)
    BY <1>1, FS_Difference
  <2>2. (1..Len(queue)) \cap prompt = prompt
    OBVIOUS
  <2> QED BY <1>1, <2>1, <2>2
<1>4. IsFiniteSet(img) /\ Cardinality(img) = Cardinality(rest)
  <2> DEFINE f == [i \in rest |-> queue[i]]
  <2>1. f \in [rest -> img]
    OBVIOUS
  <2>2. \A i, j \in rest : f[i] = f[j] => i = j
    BY DEF Data, Apart
  <2>3. \A t \in img : \E i \in rest : f[i] = t
    OBVIOUS
  <2> HIDE DEF f, rest, img
  <2>4. f \in Bijection(rest, img)
    BY <2>1, <2>2, <2>3, Fun_IsBij
  <2>5. ExistsBijection(rest, img)
    BY <2>4 DEF ExistsBijection
  <2> QED BY <1>3, <2>5, FS_Bijection
<1>5. IsFiniteSet(less) /\ Cardinality(less) >= Cardinality(running) - 1 /\ Cardinality(less) \in Nat
  <2>1. /\ IsFiniteSet(less)
        /\ Cardinality(less) = IF 1 \in running THEN Cardinality(running) - 1 ELSE Cardinality(running)
    BY <1>0, FS_RemoveElement
  <2>2. Cardinality(less) \in Nat
    BY <2>1, FS_CardinalityType
  <2> QED BY <1>0, <2>1, <2>2
<1>6. less \cap img = {}
  BY DEF Data, Apart
<1> HIDE DEF rest, img, less
<1>7. /\ IsFiniteSet(less \cup img)
      /\ Cardinality(less \cup img) = Cardinality(less) + Cardinality(img) - Cardinality(less \cap img)
  BY <1>4, <1>5, FS_Union
<1>8. Cardinality(less \cap img) = 0
  BY <1>6, FS_EmptySet
<1>9. Cardinality(less \cup img) \in Nat
  BY <1>7, FS_CardinalityType
<1>10. Cardinality(less \cup img) >= Cardinality(running) - 1 + Len(queue) - Cardinality(prompt)
  BY <1>0, <1>2, <1>3, <1>4, <1>5, <1>7, <1>8
<1> QED BY <1>2, <1>7, <1>9, <1>10 DEF rest, img, less

\* Any set of packets that were read can be counted.
LEMMA ReadCounts ==
  ASSUME NEW n \in Nat, NEW s \in SUBSET (1..n)
  PROVE  IsFiniteSet(s) /\ Cardinality(s) \in Nat
<1>1. n \in Int /\ 1 \in Int
  OBVIOUS
<1>2. IsFiniteSet(1..n)
  BY <1>1, FS_Interval
<1>3. IsFiniteSet(s)
  BY <1>2, FS_Subset
<1> QED BY <1>3, FS_CardinalityType

-----------------------------------------------------------------------------
(***************************************************************************)
(* The invariant, step by step.                                            *)
(***************************************************************************)
Staged ==
  /\ readable \in BOOLEAN /\ paused \in BOOLEAN /\ stage \in Stages
  /\ paused => stage = "session"

Inv == Data /\ Staged /\ CountdownEnds

\* nextBatch() that only counts: at most one handler is gone.
LEMMA WaitsCount ==
  ASSUME Inv, ~closed, NEW run, run = running \/ \E p \in Packets : run = running \ {p},
         Waits(run), stage' = stage
  PROVE  CountdownEnds'
<1> SUFFICES ASSUME stage # "start"
             PROVE  batch' <= IF ConnackSent THEN Cardinality(running') + Len(queue') ELSE 1 + Len(queue')
  BY DEF CountdownEnds, ConnackSent
<1>1. /\ batch \in Nat /\ Len(queue) \in Nat /\ IsFiniteSet(running) /\ Cardinality(running) \in Nat
      /\ batch <= IF ConnackSent THEN Cardinality(running) + Len(queue) ELSE 1 + Len(queue)
  BY RunningCounts, LenProperties DEF Inv, Data, Types, CountdownEnds
<1>2. batch' = Less(batch, 1) /\ running' = run /\ queue' = queue
  BY DEF Waits
<1>3. batch' \in Nat /\ batch' <= batch /\ (batch > 0 => batch' = batch - 1)
  BY <1>1, <1>2, CountIs
<1>4. CASE ConnackSent
  <2>1. Cardinality(run) \in Nat /\ Cardinality(run) >= Cardinality(running) - 1
    <3>1. CASE run = running
      BY <1>1, <3>1
    <3>2. ASSUME NEW p \in Packets, run = running \ {p}
          PROVE  Cardinality(run) \in Nat /\ Cardinality(run) >= Cardinality(running) - 1
      <4>1. /\ IsFiniteSet(run)
            /\ Cardinality(run) = IF p \in running THEN Cardinality(running) - 1 ELSE Cardinality(running)
        BY <1>1, <3>2, FS_RemoveElement
      <4>2. Cardinality(run) \in Nat
        BY <4>1, FS_CardinalityType
      <4> QED BY <1>1, <4>1, <4>2
    <3> QED BY <3>1, <3>2
  <2>2. batch <= Cardinality(running) + Len(queue)
    BY <1>1, <1>4
  <2>3. batch' <= Cardinality(run) + Len(queue)
    <3>1. CASE batch > 0
      BY <1>1, <1>3, <2>1, <2>2, <3>1
    <3>2. CASE batch = 0
      BY <1>1, <1>3, <2>1, <3>2
    <3> QED BY <1>1, <3>1, <3>2
  <2> QED BY <1>2, <1>4, <2>3
<1>5. CASE ~ConnackSent
  BY <1>1, <1>2, <1>3, <1>5
<1> QED BY <1>4, <1>5

\* nextBatch() that reads: the packets of the read are handlers.
LEMMA ReadsCount ==
  ASSUME Inv, NEW run, Reads(run), Data'
  PROVE  batch' <= Cardinality(running') /\ Cardinality(running') \in Nat
<1>1. read' \in Nat /\ running' \in SUBSET (1..read')
  BY IntakeAssumption DEF Data, Types, Enumerated
<1>2. IsFiniteSet(running') /\ Cardinality(running') \in Nat
  <2> DEFINE n == read'
             s == running'
  <2>1. n \in Nat /\ s \in SUBSET (1..n)
    BY <1>1
  <2> HIDE DEF n, s
  <2>2. IsFiniteSet(s) /\ Cardinality(s) \in Nat
    BY <2>1, ReadCounts
  <2> QED BY <2>2 DEF s
<1>3. Range(Fresh) \subseteq running' /\ batch' = Len(Fresh)
  BY DEF Reads
<1>4. received \in 0..MaxPackets /\ read \in 0..received
  BY DEF Inv, Data, Types
<1>5. Len(Fresh) <= Cardinality(running')
  <2> DEFINE s == running'
  <2>1. IsFiniteSet(s) /\ Range(Fresh) \subseteq s
    BY <1>2, <1>3
  <2> HIDE DEF s
  <2>2. Len(Fresh) <= Cardinality(s)
    BY <1>4, <2>1, FreshCount
  <2> QED BY <2>2 DEF s
<1> QED BY <1>2, <1>3, <1>5

\* nextBatch(), called by a handler or by the socket.
LEMMA NextBatchInv ==
  ASSUME Inv, ~closed, ~paused, NEW run, run = running \/ \E p \in Packets : run = running \ {p},
         NextBatch(run), received' = received, paused' = paused, readable' \in BOOLEAN
  PROVE  Inv'
<1>0. Data /\ stage \in Stages /\ run \in SUBSET running /\ paused = FALSE /\ received' \in received..MaxPackets
  <2>1. Data /\ received \in 0..MaxPackets /\ MaxPackets \in Nat
    BY IntakeAssumption DEF Inv, Data, Types
  <2>2. received \in received..MaxPackets
    BY <2>1
  <2>3. stage \in Stages /\ run \in SUBSET running
    BY DEF Inv, Staged
  <2>4. paused = FALSE
    BY DEF Inv, Staged
  <2> QED BY <2>1, <2>2, <2>3, <2>4
<1>1. CASE batch > 1 \/ Fresh = <<>>
  <2>1. Waits(run) /\ stage' = stage
    BY <1>1 DEF NextBatch, Waits
  <2>2. Data'
    BY <1>0, <2>1, WaitsData
  <2>3. CountdownEnds'
    BY <2>1, WaitsCount
  <2>4. Staged'
    BY <1>0, <2>1 DEF Staged
  <2> QED BY <2>2, <2>3, <2>4 DEF Inv
<1>2. CASE ~(batch > 1 \/ Fresh = <<>>) /\ ConnackSent
  <2>1. Reads(run) /\ stage' = stage /\ queue' = queue
    BY <1>2 DEF NextBatch, ParseLate, Reads
  <2>2. Data'
    BY <1>0, <2>1, ReadsData
  <2>3. batch' <= Cardinality(running') /\ Cardinality(running') \in Nat
    BY <2>1, <2>2, ReadsCount
  <2>4. CountdownEnds'
    <3>1. Len(queue') \in Nat /\ batch' \in Nat
      BY <2>2, LenProperties DEF Data, Types
    <3>2. batch' <= Cardinality(running') + Len(queue')
      BY <2>3, <3>1
    <3>3. ConnackSent'
      BY <1>2, <2>1 DEF ConnackSent
    <3> QED BY <3>2, <3>3 DEF CountdownEnds
  <2>5. Staged'
    BY <1>0, <2>1 DEF Staged
  <2> QED BY <2>2, <2>4, <2>5 DEF Inv
<1>3. CASE ~(batch > 1 \/ Fresh = <<>>) /\ ~ConnackSent
  <2>1. ParseEarly(run) /\ Fresh # <<>>
    BY <1>3 DEF NextBatch
  <2>2. stage' = stage \/ stage' = "preConnect"
    BY <2>1 DEF ParseEarly
  <2>3. Data' /\ (~closed' => batch' <= 1 + Len(queue'))
    BY <1>0, <2>1, EarlyData
  <2>4. stage' \in Stages /\ ~ConnackSent'
    BY <1>0, <1>3, <2>2 DEF Stages, ConnackSent
  <2>5. CountdownEnds'
    BY <2>3, <2>4 DEF CountdownEnds
  <2>6. Staged'
    BY <1>0, <2>4 DEF Staged
  <2> QED BY <2>3, <2>5, <2>6 DEF Inv
<1> QED BY <1>1, <1>2, <1>3

\* Packets arrive.
LEMMA ArriveInv ==
  ASSUME Inv, Arrive
  PROVE  Inv'
<1>1. /\ received' \in (received + 1)..MaxPackets /\ readable' = TRUE
      /\ UNCHANGED <<read, paused, batch, queue, handled, running, stage, closed, causes>>
  BY DEF Arrive
<1>2. received \in 0..MaxPackets /\ read \in 0..received /\ MaxPackets \in Nat
  BY IntakeAssumption DEF Inv, Data, Types
<1>3. received' \in 0..MaxPackets /\ read' \in 0..received'
  BY <1>1, <1>2
<1>4. Types'
  BY <1>1, <1>3 DEF Inv, Data, Types
<1>5. Enumerated' /\ Apart' /\ Sorted'
  BY <1>1 DEF Inv, Data, Enumerated, Apart, Sorted
<1>6. Staged' /\ CountdownEnds'
  BY <1>1 DEF Inv, Staged, CountdownEnds, ConnackSent
<1> QED BY <1>4, <1>5, <1>6 DEF Inv, Data

\* A step of the socket or of the CONNECT's chain that leaves the packets alone.
OnlyStage ==
  /\ UNCHANGED <<received, read, batch, queue, handled, running, closed, causes>>
  /\ Staged' /\ ConnackSent' = ConnackSent /\ stage # "start"

\* It keeps the invariant.
LEMMA StageInv ==
  ASSUME Inv, OnlyStage
  PROVE  Inv'
<1>1. Data'
  BY DEF Inv, Data, Types, Enumerated, Apart, Sorted, OnlyStage
<1>2. CountdownEnds'
  BY DEF Inv, CountdownEnds, OnlyStage
<1> QED BY <1>1, <1>2 DEF Inv, OnlyStage

\* The socket emits 'readable'.
LEMMA ReadableInv ==
  ASSUME Inv, Readable
  PROVE  Inv'
<1>1. ~closed /\ received' = received /\ paused' = paused /\ readable' = FALSE
  BY DEF Readable
<1>2. CASE paused
  <2>1. UNCHANGED <<received, read, paused, batch, queue, handled, running, stage, closed, causes>>
    BY <1>2 DEF Readable
  <2>2. stage = "session"
    BY <1>2 DEF Inv, Staged
  <2>3. Staged'
    <3>1. readable' \in BOOLEAN /\ paused' = paused /\ stage' = stage
      BY <1>1, <2>1
    <3>2. paused \in BOOLEAN /\ stage \in Stages
      BY DEF Inv, Staged
    <3> QED BY <2>2, <3>1, <3>2 DEF Staged
  <2>4. ConnackSent' = ConnackSent
    BY <2>1 DEF ConnackSent
  <2>5. OnlyStage
    BY <2>1, <2>2, <2>3, <2>4 DEF OnlyStage
  <2> QED BY <2>5, StageInv
<1>3. CASE ~paused
  <2>1. NextBatch(running)
    BY <1>3 DEF Readable
  <2> QED BY <1>1, <1>3, <2>1, NextBatchInv
<1> QED BY <1>2, <1>3

\* A handler calls back.
LEMMA DoneInv ==
  ASSUME Inv, NEW p \in Packets, Done(p)
  PROVE  Inv'
<1>1. ~closed /\ received' = received /\ readable' = readable /\ paused' = paused
  BY DEF Done, socket
<1>2. CASE paused
  <2>1. /\ running' = running \ {p}
        /\ UNCHANGED <<received, read, paused, batch, queue, handled, stage, closed, causes>>
    BY <1>2 DEF Done, socket
  <2>2. stage = "session"
    BY <1>2 DEF Inv, Staged
  <2>3. Data'
    BY <2>1 DEF Inv, Data, Types, Enumerated, Apart, Sorted
  <2>4. Staged'
    BY <1>1, <2>1 DEF Inv, Staged
  <2>5. CountdownEnds'
    BY <2>1, <2>2 DEF Inv, CountdownEnds, ConnackSent
  <2> QED BY <2>3, <2>4, <2>5 DEF Inv
<1>3. CASE ~paused
  <2>1. NextBatch(running \ {p})
    BY <1>3 DEF Done
  <2>2. readable' \in BOOLEAN
    BY <1>1 DEF Inv, Staged
  <2> QED BY <1>1, <1>3, <2>1, <2>2, NextBatchInv
<1> QED BY <1>2, <1>3

\* The CONNACK is written, and the client resumes.
LEMMA ConnackInv ==
  ASSUME Inv, Connack
  PROVE  Inv'
<1>1. /\ ~closed /\ stage = "session" /\ stage' = "emptyQueue" /\ paused' = FALSE
      /\ received' = received /\ readable' = readable /\ queue' = queue /\ closed' = closed
  BY DEF Connack, socket
<1>2. Staged'
  BY <1>1 DEF Inv, Staged, Stages
<1>3. /\ Data /\ batch \in Nat /\ Len(queue) \in Nat /\ batch <= 1 + Len(queue)
      /\ received \in 0..MaxPackets /\ MaxPackets \in Nat
  BY <1>1, LenProperties, IntakeAssumption DEF Inv, Data, Types, CountdownEnds, ConnackSent
<1>4. IsFiniteSet(running) /\ Cardinality(running) \in Nat
  BY <1>3, RunningCounts
<1>5. CASE batch > 1 \/ Fresh = <<>>
  <2>1. /\ batch' = Less(batch, 1) /\ running' = running
        /\ UNCHANGED <<read, handled, running, causes>>
    BY <1>5 DEF Connack
  <2>2. Waits(running) /\ running \in SUBSET running /\ received' \in received..MaxPackets
    <3>1. received \in received..MaxPackets
      BY <1>3
    <3> QED BY <1>1, <2>1, <3>1 DEF Waits
  <2>3. Data'
    BY <1>3, <2>2, WaitsData
  <2>4. batch' <= Len(queue)
    <3>1. batch' \in Nat /\ batch' <= batch /\ (batch > 0 => batch' = batch - 1)
      BY <1>3, <2>1, CountIs
    <3> QED BY <1>3, <3>1
  <2>5. batch' <= Cardinality(running') + Len(queue')
    <3>1. batch' \in Nat
      BY <2>3 DEF Data, Types
    <3>2. batch' <= Cardinality(running) + Len(queue)
      BY <1>3, <1>4, <2>4, <3>1
    <3> QED BY <1>1, <2>1, <3>2
  <2>6. CountdownEnds'
    BY <1>1, <2>5 DEF CountdownEnds, ConnackSent
  <2> QED BY <1>2, <2>3, <2>6 DEF Inv
<1>6. CASE ~(batch > 1 \/ Fresh = <<>>)
  <2>1. Reads(running)
    BY <1>1, <1>6 DEF Connack, Reads
  <2>2. Data'
    BY <1>1, <1>3, <2>1, ReadsData
  <2>3. batch' <= Cardinality(running') /\ Cardinality(running') \in Nat
    BY <2>1, <2>2, ReadsCount
  <2>4. batch' <= Cardinality(running') + Len(queue')
    <3>1. Len(queue') \in Nat /\ batch' \in Nat
      BY <2>2, LenProperties DEF Data, Types
    <3> QED BY <2>3, <3>1
  <2>5. CountdownEnds'
    BY <1>1, <2>4 DEF CountdownEnds, ConnackSent
  <2> QED BY <1>2, <2>2, <2>5 DEF Inv
<1> QED BY <1>5, <1>6

\* dequeue() handles the queue, and reads the socket when the count ends in it.
LEMMA EmptiedInv ==
  ASSUME Inv, Emptied
  PROVE  Inv'
<1>1. /\ ~closed /\ stage = "emptyQueue" /\ stage' = "open" /\ queue' = <<>>
      /\ received' = received /\ readable' = readable /\ paused' = paused /\ closed' = closed
  BY DEF Emptied, socket
<1>2. Staged'
  BY <1>1 DEF Inv, Staged, Stages
<1>3. /\ Data /\ batch \in Nat /\ Len(queue) \in Nat /\ batch <= Cardinality(running) + Len(queue)
      /\ received \in 0..MaxPackets /\ read \in 0..received
  BY <1>1, LenProperties DEF Inv, Data, Types, CountdownEnds, ConnackSent
<1>4. IsFiniteSet(running) /\ Cardinality(running) \in Nat
  BY <1>3, RunningCounts
<1> DEFINE calls(prompt) == Cardinality(prompt) + 1
           turn == IF batch = 0 THEN 1 ELSE batch
           new(prompt) == IF calls(prompt) < turn THEN <<>> ELSE Fresh
<1>5. PICK prompt \in SUBSET (1..Len(queue)), at \in 0..Len(queue) :
        /\ handled' = handled \o SubSeq(queue, 1, at) \o new(prompt) \o SubSeq(queue, at + 1, Len(queue))
        /\ running' = ((running \ {1}) \cup {queue[i] : i \in (1..Len(queue)) \ prompt})
                        \cup Range(new(prompt))
        /\ batch' = IF calls(prompt) < turn THEN batch - calls(prompt)
                    ELSE Less(Len(new(prompt)), calls(prompt) - turn)
        /\ read' = read + Len(new(prompt))
        /\ causes' = IF new(prompt) # <<>> /\ at < Len(queue) THEN causes \cup {"jumped"} ELSE causes
  BY DEF Emptied
<1> DEFINE left == (running \ {1}) \cup {queue[i] : i \in (1..Len(queue)) \ prompt}
<1>6. /\ IsFiniteSet(left) /\ Cardinality(left) \in Nat /\ Cardinality(prompt) \in Nat
      /\ Cardinality(left) >= Cardinality(running) - 1 + Len(queue) - Cardinality(prompt)
  BY <1>1, <1>3, LeftCount
<1>7. Dequeued(prompt, at, new(prompt)) /\ running' = left \cup Range(new(prompt))
  BY <1>1, <1>5 DEF Dequeued
<1>8. new(prompt) \in {<<>>, Fresh}
  OBVIOUS
<1>9. batch' \in Nat /\ batch' <= Cardinality(running')
  <2>1. CASE calls(prompt) < turn
    <3>1. batch' = batch - calls(prompt) /\ batch > calls(prompt)
      BY <1>3, <1>5, <1>6, <2>1
    <3>2. running' = left
      BY <1>7, <2>1, NothingRange
    <3> HIDE DEF left
    <3>3. batch - (Cardinality(prompt) + 1) \in Nat
      BY <1>3, <1>6, <3>1
    <3>4. batch - (Cardinality(prompt) + 1) <= Cardinality(left)
      BY <1>3, <1>4, <1>6
    <3> QED BY <3>1, <3>2, <3>3, <3>4
  <2>2. CASE ~(calls(prompt) < turn)
    <3>1. Fresh \in Seq(Packets) /\ Len(Fresh) = received - read /\ Range(Fresh) = (read + 1)..received
      BY <1>3, FreshIs
    <3>2. Len(Fresh) \in Nat /\ calls(prompt) - turn \in Nat
      BY <1>3, <1>6, <2>2, <3>1, LenProperties
    <3>3. batch' = Less(Len(Fresh), calls(prompt) - turn) /\ running' = left \cup Range(Fresh)
      BY <1>5, <1>7, <2>2
    <3> HIDE DEF left, calls, turn
    <3>4. batch' \in Nat /\ batch' <= Len(Fresh)
      BY <3>2, <3>3 DEF Less
    <3>5. IsFiniteSet(left \cup Range(Fresh))
      <4>1. read + 1 \in Int /\ received \in Int
        BY <1>3, IntakeAssumption
      <4>2. IsFiniteSet(Range(Fresh))
        BY <3>1, <4>1, FS_Interval
      <4> QED BY <1>6, <4>2, FS_Union
    <3>6. Len(Fresh) <= Cardinality(left \cup Range(Fresh)) /\ Cardinality(left \cup Range(Fresh)) \in Nat
      BY <1>3, <3>5, FreshCount, FS_CardinalityType
    <3> QED BY <3>2, <3>3, <3>4, <3>6
  <2> QED BY <2>1, <2>2
<1> HIDE DEF new, left
<1>10. Data'
  BY <1>1, <1>3, <1>7, <1>8, <1>9, EmptiedData
<1>11. CountdownEnds'
  <2>1. Len(queue') = 0
    BY <1>1, EmptySeq
  <2>2. running' \in SUBSET (1..read') /\ read' \in Nat
    BY <1>10, IntakeAssumption DEF Data, Types, Enumerated
  <2>3. Cardinality(running') \in Nat
    <3> DEFINE n == read'
               s == running'
    <3>1. n \in Nat /\ s \in SUBSET (1..n)
      BY <2>2
    <3> HIDE DEF n, s
    <3>2. Cardinality(s) \in Nat
      BY <3>1, ReadCounts
    <3> QED BY <3>2 DEF s
  <2>4. batch' <= Cardinality(running') + Len(queue')
    BY <1>9, <2>1, <2>3
  <2> QED BY <1>1, <2>4 DEF CountdownEnds, ConnackSent
<1> QED BY <1>2, <1>10, <1>11 DEF Inv

\* The client is closed.
LEMMA CloseInv ==
  ASSUME Inv, Close
  PROVE  Inv'
<1>1. /\ closed' = TRUE /\ queue' = <<>>
      /\ UNCHANGED <<received, readable, read, paused, batch, handled, running, stage, causes>>
  BY DEF Close, socket
<1>2. queue' \in Seq(Packets) /\ Len(queue') = 0
  BY <1>1, EmptySeq
<1>3. 0 <= QueueLimit
  BY IntakeAssumption
<1>4. Types'
  BY <1>1, <1>2, <1>3 DEF Inv, Data, Types
<1>5. Enumerated' /\ Apart' /\ Sorted' /\ CountdownEnds'
  BY <1>1 DEF Inv, Data, Enumerated, Apart, Sorted, CountdownEnds
<1>6. Staged'
  BY <1>1 DEF Inv, Staged
<1> QED BY <1>4, <1>5, <1>6 DEF Inv, Data

\* No packet has arrived at first.
LEMMA InitInv == Init => Inv
<1> SUFFICES ASSUME Init PROVE Inv
  OBVIOUS
<1>1. <<>> \in Seq(Packets) /\ Len(<<>>) = 0
  BY EmptySeq
<1>2. Range(<<>>) = {}
  BY NothingRange
<1>3. 0 \in 0..MaxPackets /\ 0 \in 0..0 /\ 0 <= QueueLimit /\ 1..0 = {}
  BY IntakeAssumption
<1>4. /\ received = 0 /\ read = 0 /\ readable = FALSE /\ paused = FALSE /\ batch = 1
      /\ queue = <<>> /\ handled = <<>> /\ running = {} /\ stage = "start" /\ closed = FALSE /\ causes = {}
  BY DEF Init
<1>5. Types
  BY <1>1, <1>3, <1>4 DEF Types
<1>6. Enumerated
  BY <1>1, <1>2, <1>3, <1>4 DEF Enumerated
<1>7. Apart /\ Sorted
  BY <1>1, <1>3, <1>4 DEF Apart, Sorted
<1>8. Staged /\ CountdownEnds
  BY <1>4 DEF Staged, Stages, CountdownEnds
<1> QED BY <1>5, <1>6, <1>7, <1>8 DEF Inv, Data

\* Every step keeps the invariant.
LEMMA NextInv == Inv /\ [Next]_vars => Inv'
<1> SUFFICES ASSUME Inv, [Next]_vars PROVE Inv'
  OBVIOUS
<1>1. CASE Arrive
  BY <1>1, ArriveInv
<1>2. CASE Readable
  BY <1>2, ReadableInv
<1>3. CASE PreConnected \/ InitConnect
  <2>1. /\ UNCHANGED <<received, read, batch, queue, handled, running, closed, causes>>
        /\ stage \in {"preConnect", "init"} /\ stage' \in {"init", "session"} /\ readable' = readable
        /\ \/ stage = "preConnect" /\ paused' = paused
           \/ paused' = TRUE /\ stage' = "session"
    BY <1>3 DEF PreConnected, InitConnect, socket
  <2>2. ConnackSent' = ConnackSent /\ stage # "start"
    BY <2>1 DEF ConnackSent
  <2>3. Staged'
    <3>1. readable' \in BOOLEAN /\ stage' \in Stages
      BY <2>1 DEF Inv, Staged, Stages
    <3>2. CASE stage = "preConnect" /\ paused' = paused
      <4>1. ~paused /\ paused \in BOOLEAN
        BY <3>2 DEF Inv, Staged
      <4> QED BY <3>1, <3>2, <4>1 DEF Staged
    <3>3. CASE paused' = TRUE /\ stage' = "session"
      BY <3>1, <3>3 DEF Staged
    <3> QED BY <2>1, <3>2, <3>3
  <2>4. OnlyStage
    BY <2>1, <2>2, <2>3 DEF OnlyStage
  <2> QED BY <2>4, StageInv
<1>4. CASE Connack
  BY <1>4, ConnackInv
<1>5. CASE Emptied
  BY <1>5, EmptiedInv
<1>6. CASE Close
  BY <1>6, CloseInv
<1>7. ASSUME NEW p \in Packets, Done(p) PROVE Inv'
  BY <1>7, DoneInv
<1>8. CASE UNCHANGED vars
  BY <1>8 DEF Inv, Data, Types, Enumerated, Apart, Sorted, Staged, CountdownEnds, ConnackSent, vars, socket
<1> QED BY <1>1, <1>2, <1>3, <1>4, <1>5, <1>6, <1>7, <1>8 DEF Next, Chain

\* The invariant holds.
LEMMA AlwaysInv == Spec => []Inv
BY InitInv, NextInv, PTL DEF Spec

-----------------------------------------------------------------------------
\* Results.

\* For any number of packets and any limit of the queue: every packet that was
\* read is handled or queued, and only once, whatever the handlers do and
\* whenever they call back (client.js:60-79, 458-491).
THEOREM NothingLostSafe == Spec => [](TypeOK /\ NothingLost)
<1>1. Inv => TypeOK
  <2> SUFFICES ASSUME Inv PROVE TypeOK
    OBVIOUS
  <2>1. running \subseteq Packets
    BY IntakeAssumption DEF Inv, Data, Types, Enumerated, Packets
  <2> QED BY <2>1 DEF Inv, Data, Types, Staged, TypeOK
<1>2. Inv => NothingLost
  BY DEF Inv, Data, Enumerated, NothingLost
<1> QED BY <1>1, <1>2, AlwaysInv, PTL

\* For any number of packets and any limit of the queue: the packets are
\* handled in the order in which they arrived, unless a read took place before
\* authenticate(), or while packets were still queued (client.js:458-491).
THEOREM InOrderSafe == Spec => []InOrder
<1>1. Inv => InOrder
  <2> SUFFICES ASSUME Inv, ~closed, causes = {} PROVE handled \o queue = [i \in 1..read |-> i]
    BY DEF InOrder
  <2>1. /\ handled \in Seq(Packets) /\ queue \in Seq(Packets) /\ Len(handled) + Len(queue) = read
        /\ \A i \in 1..Len(handled) : handled[i] = i
        /\ \A i \in 1..Len(queue) : queue[i] = Len(handled) + i
        /\ read \in 0..received /\ received \in 0..MaxPackets /\ MaxPackets \in Nat
    BY IntakeAssumption DEF Inv, Data, Types, Enumerated, Sorted
  <2> DEFINE s == handled \o queue
             t == [i \in 1..read |-> i]
  <2>2. /\ s \in Seq(Packets) /\ Len(s) = read /\ Len(handled) \in Nat /\ Len(queue) \in Nat
        /\ \A i \in 1..read : s[i] = IF i <= Len(handled) THEN handled[i] ELSE queue[i - Len(handled)]
    BY <2>1, ConcatIs
  <2>3. t \in Seq(Packets) /\ Len(t) = read /\ \A i \in 1..read : t[i] = i
    BY <2>1 DEF Packets
  <2> HIDE DEF s, t
  <2>4. ASSUME NEW i \in 1..read PROVE s[i] = t[i]
    <3>1. CASE i <= Len(handled)
      <4>1. i \in 1..Len(handled)
        BY <2>2, <3>1
      <4> QED BY <2>1, <2>2, <2>3, <3>1, <4>1
    <3>2. CASE i > Len(handled)
      <4>1. i - Len(handled) \in 1..Len(queue) /\ Len(handled) + (i - Len(handled)) = i
        BY <2>1, <2>2, <3>2
      <4>2. s[i] = queue[i - Len(handled)]
        BY <2>2, <3>2
      <4> QED BY <2>1, <2>3, <4>1, <4>2
    <3> QED BY <2>1, <2>2, <3>1, <3>2
  <2>5. s = t
    BY <2>2, <2>3, <2>4, SeqEqual
  <2> QED BY <2>5 DEF s, t
<1> QED BY <1>1, AlwaysInv, PTL

\* For any number of packets and any limit of the queue: nextBatch() never
\* waits for more callbacks than are still to come, so that the client reads on
\* once the handlers are through (client.js:60-79).
THEOREM CountdownSafe == Spec => []CountdownEnds
<1>1. Inv => CountdownEnds
  BY DEF Inv
<1> QED BY <1>1, AlwaysInv, PTL
=============================================================================
